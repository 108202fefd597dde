---------------------------- MODULE AssistantProofs ----------------------------
(***************************************************************************)
(* Theorems about the assistant: its conversation, its microphone and what *)
(* becomes of a spoken conversation's words.                               *)
(***************************************************************************)
EXTENDS Assistant, Voice, LiveBridge, FiniteSetTheorems, WellFoundedInduction, TLAPS

-----------------------------------------------------------------------------
(* The assistant's prompts: every one asked is in one place at most, and in   *)
(* one at least unless its end is told.                                       *)

\* What a tab's runner has or had of the prompts.
Held(x) == x.text \cup x.queue \cup x.took

IsPrompt(m) == m.t \in {"steer", "noRunner"}
Once(ms) == \A i, j \in DOMAIN ms : IsPrompt(ms[i]) /\ IsPrompt(ms[j]) /\ ms[i].p = ms[j].p => i = j

\* A runner that waits for the right to run has its one prompt in hand, and only then.
Tidy(x) ==
  /\ x.claiming <=> x.stage = "claiming"
  /\ x.claiming => \E p \in Prompt : x.text = {p}
  /\ ~x.claiming => x.text = {}
  /\ x.text \cap (x.queue \cup x.took) = {}

\* The places a prompt can be in.
Place == ({"held", "toTab"} \X Tab) \cup ({"toServer"} \X Conn)
In(b) == IF b[1] = "held" THEN Held(tab[b[2]])
         ELSE IF b[1] = "toTab" THEN Prompts(toTab[b[2]])
         ELSE Prompts(toServer[b[2]])

Apart == \A a, b \in Place : a # b => In(a) \cap In(b) = {}
AllOnce == (\A t \in Tab : Once(toTab[t])) /\ (\A c \in Conn : Once(toServer[c]))
Asked == \A b \in Place : In(b) \subseteq asked
Dropped == UNION {tab[t].dropped : t \in Tab}
Everywhere == UNION {In(b) : b \in Place}
NoneVanish == asked \subseteq Everywhere \cup lost \cup Dropped
AllTidy == \A t \in Tab : tab[t].out = <<>> /\ Tidy(tab[t])

PromptInv == AllTidy /\ Apart /\ AllOnce /\ Asked /\ NoneVanish

-----------------------------------------------------------------------------
(* The tabs' copies of the log. In what follows d is what the Durable Object   *)
(* stores, x a tab, ms what is on its way to the tab's connection and q what is *)
(* on its way from it.                                                         *)

\* What is logged has a seq of its own, after what was cleared.
LogSound(d) ==
  /\ d.cleared <= d.last
  /\ \A e \in d.log : d.cleared < e.seq /\ e.seq <= d.last /\ e.through < e.seq
  /\ \A e, f \in d.log : e.seq = f.seq => e = f

Shows(m) == IF m.t \in {"entries", "history"} THEN m.entries ELSE {}
ClearsTo(m) == IF m.t = "cleared" THEN m.through ELSE IF m.t = "hello" THEN m.cleared ELSE 0

\* A copy once the first j messages have been read, and once all have.
Upto(es, ms, j) == es \cup UNION {Shows(ms[i]) : i \in 1 .. j}
Copied(es, ms) == Upto(es, ms, Len(ms))

\* What a tab has or will have was logged, and is unless it was cleared.
Known(d, es) == \A e \in es : e.seq <= d.last /\ (e.seq > d.cleared => e \in d.log)

\* What was cleared and is shown, or will be, is taken away afterwards.
Told(d, es, ms) ==
  /\ \A e \in es : e.seq > d.cleared \/ \E k \in DOMAIN ms : ClearsTo(ms[k]) >= e.seq
  /\ \A i \in DOMAIN ms : \A e \in Shows(ms[i]) :
       e.seq > d.cleared \/ \E k \in DOMAIN ms : k > i /\ ClearsTo(ms[k]) >= e.seq

NoHole(d, es) == \A e \in d.log \ es : \A f, g \in es : ~(f.seq < e.seq /\ e.seq < g.seq)
Below(es, e) == \A f \in es : f.seq > e.seq
Missing(d, es, ms) == d.log \ Copied(es, ms)

\* The seq of an entry of the copy, unless that has been cleared.
Marks(d, es, a) == a <= d.cleared \/ \E f \in es : f.seq = a

\* A tab that has yet to be sent what follows a: what it lacks of the rest is older
\* than anything it has.
WholeThrough(d, es, ms, a) ==
  /\ a = 0 \/ Marks(d, es, a)
  /\ \A e \in Missing(d, es, ms) : a = 0 \/ e.seq <= a => Below(Copied(es, ms), e)

\* A tab that has been sent it: wherever its reading may end, there is no hole.
WholeFrom(d, es, ms, k) ==
  /\ \A e \in Missing(d, es, ms) : Below(Copied(es, ms), e)
  /\ \A j \in k .. Len(ms) :
       /\ NoHole(d, Upto(es, ms, j))
       /\ Missing(d, es, ms) # {} => Upto(es, ms, j) \cap d.log # {}

Whole(d, x, ms, q) ==
  /\ x.status = "closed" => NoHole(d, x.entries)
  /\ x.status = "connecting" => WholeThrough(d, x.entries, ms, Largest(Seqnos(x.entries)))
  /\ x.status = "open" =>
       /\ \A i \in DOMAIN q : /\ q[i].t = "attach" => WholeThrough(d, x.entries, ms, q[i].after)
                              /\ q[i].t = "history" => Marks(d, x.entries, q[i].before)
       /\ x.synced => WholeFrom(d, x.entries, ms, 0)
       /\ \A k \in DOMAIN ms : ms[k].t = "synced" => WholeFrom(d, x.entries, ms, k)

\* The server has not read the tab's attach.
Attaching(x, q) == x.status = "connecting" \/ (x.status = "open" /\ \E i \in DOMAIN q : q[i].t = "attach")
Unsynced(x, ms) == ~x.synced /\ \A k \in DOMAIN ms : ms[k].t \notin {"synced", "history"}

TabSound(d, x, ms, q) ==
  /\ x.fold <= d.last
  /\ x.status = "closed" => ms = <<>> /\ ~x.synced
  /\ x.status = "connecting" => q = <<>>
  /\ Known(d, Copied(x.entries, ms))
  /\ \A i \in DOMAIN ms : ClearsTo(ms[i]) <= d.cleared
  /\ x.status # "closed" => Told(d, x.entries, ms)
  /\ Attaching(x, q) => Unsynced(x, ms)
  /\ ~x.torn => Whole(d, x, ms, q)

Connected(t) == tab[t].status # "closed"
Sockets ==
  /\ \A t \in Tab : Connected(t) => tab[t].n > 0 /\ Present(t) \in open
  /\ \A c \in Conn : c[2] > tab[c[1]].n => toServer[c] = <<>>
Sent ==
  \A c \in Conn : \A i \in DOMAIN toServer[c] :
    /\ toServer[c][i].t = "append" => toServer[c][i].through <= db.last
    /\ toServer[c][i].t = "attach" => i = 1

CopyInv ==
  /\ LogSound(db) /\ Sockets /\ Sent
  /\ \A t \in Tab : TabSound(db, tab[t], toTab[t], toServer[Present(t)])
-----------------------------------------------------------------------------
(* Numbers and messages. *)

\* Any set of natural numbers has a least one.
LEMMA LeastOf ==
  ASSUME NEW S \in SUBSET Nat, S # {}
  PROVE  \E m \in S : \A k \in S : m <= k
<1> DEFINE R == OpToRel(<, Nat)
<1>1. \A k, m \in Nat : <<k, m>> \in R <=> k < m
  BY DEF OpToRel
<1>2. IsWellFoundedOn(R, Nat)
  BY NatLessThanWellFounded
<1> HIDE DEF R
<1>3. PICK m \in S : \A k \in S : ~(<<k, m>> \in R)
  BY <1>2, WFMin
<1>4. \A k \in S : k \in Nat /\ m \in Nat /\ ~(k < m)
  BY <1>1, <1>3
<1>5. \A k \in S : m <= k
  BY <1>4
<1>6. QED
  BY <1>5

LEMMA LeastIs ==
  ASSUME NEW S \in SUBSET Nat, S # {}
  PROVE  Least(S) \in S /\ \A m \in S : Least(S) <= m
<1>1. \E n \in S : \A m \in S : n <= m
  BY LeastOf
<1>2. QED
  BY <1>1 DEF Least

LEMMA LargestIs ==
  ASSUME NEW S \in SUBSET (0 .. MaxSeq)
  PROVE  /\ Largest(S) \in 0 .. MaxSeq /\ Largest(S) \in S \cup {0}
         /\ \A m \in S : m <= Largest(S)
<1> DEFINE D == {MaxSeq - n : n \in S \cup {0}}
<1>1. D \in SUBSET Nat /\ D # {}
  BY BoundAssumption
<1>2. PICK d \in D : \A k \in D : d <= k
  <2> HIDE DEF D
  <2>1. QED
    BY <1>1, LeastOf
<1>3. PICK n \in S \cup {0} : d = MaxSeq - n
  BY <1>2
<1>4. \A m \in S : m <= n
  <2>1. TAKE m \in S
  <2>2. MaxSeq - m \in D
    OBVIOUS
  <2>3. MaxSeq - n <= MaxSeq - m
    BY <1>2, <1>3, <2>2
  <2>4. QED
    BY <2>3, BoundAssumption
<1>5. \E k \in S \cup {0} : \A m \in S : m <= k
  BY <1>4
<1>6. Largest(S) \in S \cup {0} /\ \A m \in S : m <= Largest(S)
  BY <1>5 DEF Largest
<1>7. \A k \in S \cup {0} : k \in 0 .. MaxSeq
  BY BoundAssumption
<1>8. QED
  BY <1>6, <1>7

\* The latest compaction of a log that has one.
LEMMA LatestFold ==
  ASSUME NEW es \in SUBSET Entry, es # {}
  PROVE  LET last == CHOOSE e \in es : \A f \in es : f.seq <= e.seq
         IN last \in es /\ \A f \in es : f.seq <= last.seq
<1>1. Seqnos(es) \in SUBSET (0 .. MaxSeq) /\ Seqnos(es) # {} /\ 0 \notin Seqnos(es)
  BY BoundAssumption DEF Seqnos, Entry, Seqs
<1>2. Largest(Seqnos(es)) \in Seqnos(es) /\ \A m \in Seqnos(es) : m <= Largest(Seqnos(es))
  <2>1. /\ Largest(Seqnos(es)) \in Seqnos(es) \cup {0}
        /\ \A m \in Seqnos(es) : m <= Largest(Seqnos(es))
    BY <1>1, LargestIs
  <2>2. PICK m \in Seqnos(es) : TRUE
    BY <1>1
  <2>3. m > 0 /\ m <= Largest(Seqnos(es))
    BY <1>1, <2>1, <2>2
  <2>4. QED
    BY <1>1, <2>1, <2>3
<1>3. PICK e \in es : e.seq = Largest(Seqnos(es))
  BY <1>2 DEF Seqnos
<1>4. \A f \in es : f.seq <= e.seq
  BY <1>2, <1>3 DEF Seqnos
<1>5. QED
  BY <1>4

LEMMA ToTabFields ==
  ASSUME NEW m \in ToTab
  PROVE  /\ m.t \in {"hello", "entries", "synced", "appended", "clearFailed", "runner", "steer",
                     "noRunner", "cleared", "history"}
         /\ m.t = "hello" => m.runner \in Conn \cup {None} /\ m.cleared \in 0 .. MaxSeq
         /\ m.t = "entries" => m.entries \in SUBSET Entry /\ m.initial \in BOOLEAN
         /\ m.t = "runner" => m.runner \in Conn \cup {None}
         /\ m.t \in {"steer", "noRunner"} => m.p \in Prompt
         /\ m.t = "cleared" => m.through \in 0 .. MaxSeq
         /\ m.t = "history" => m.entries \in SUBSET Entry /\ m.more \in BOOLEAN
BY DEF ToTab

LEMMA ToServerFields ==
  ASSUME NEW m \in ToServer
  PROVE  /\ m.t \in {"attach", "append", "claim", "release", "clear", "steer", "history"}
         /\ m.t = "attach" => m.after \in 0 .. MaxSeq
         /\ m.t = "append" => m.through \in 0 .. MaxSeq
         /\ m.t = "steer" => m.p \in Prompt
         /\ m.t = "history" => m.before \in Seqs
BY DEF ToServer

LEMMA PromptsIs ==
  ASSUME NEW ms, NEW p
  PROVE  p \in Prompts(ms) <=> \E i \in DOMAIN ms : IsPrompt(ms[i]) /\ ms[i].p = p
BY DEF Prompts, ToSet, IsPrompt

LEMMA PromptsOfAppend ==
  ASSUME NEW S, NEW ms \in Seq(S), NEW m \in S
  PROVE  /\ Prompts(Append(ms, m)) = Prompts(ms) \cup (IF IsPrompt(m) THEN {m.p} ELSE {})
         /\ Once(ms) /\ (IsPrompt(m) => m.p \notin Prompts(ms)) => Once(Append(ms, m))
<1>1. /\ DOMAIN Append(ms, m) = 1 .. Len(ms) + 1 /\ Append(ms, m)[Len(ms) + 1] = m /\ DOMAIN ms = 1 .. Len(ms)
      /\ \A i \in 1 .. Len(ms) : Append(ms, m)[i] = ms[i]
      /\ Len(ms) \in Nat
  OBVIOUS
<1>2. \A p : p \in Prompts(Append(ms, m)) <=> p \in Prompts(ms) \cup (IF IsPrompt(m) THEN {m.p} ELSE {})
  <2>1. TAKE p
  <2> DEFINE new == Append(ms, m)
  <2>2. p \in Prompts(new) <=> \E i \in DOMAIN new : IsPrompt(new[i]) /\ new[i].p = p
    BY PromptsIs
  <2>3. p \in Prompts(ms) <=> \E i \in DOMAIN ms : IsPrompt(ms[i]) /\ ms[i].p = p
    BY PromptsIs
  <2>4. \A i \in 1 .. Len(ms) + 1 : i \in 1 .. Len(ms) \/ i = Len(ms) + 1
    BY <1>1
  <2>5. QED
    BY <1>1, <2>2, <2>3, <2>4
<1>3. ASSUME Once(ms), IsPrompt(m) => m.p \notin Prompts(ms) PROVE Once(Append(ms, m))
  <2>1. \A i \in 1 .. Len(ms) : IsPrompt(m) /\ IsPrompt(ms[i]) => ms[i].p # m.p
    BY <1>1, <1>3, PromptsIs
  <2>2. QED
    BY <1>1, <1>3, <2>1 DEF Once
<1>4. QED
  BY <1>2, <1>3

LEMMA PromptsOfNone == Prompts(<<>>) = {} /\ Once(<<>>)
BY PromptsIs DEF Once

LEMMA PromptsOfTail ==
  ASSUME NEW S, NEW ms \in Seq(S), ms # <<>>
  PROVE  /\ Prompts(ms) = Prompts(Tail(ms)) \cup (IF IsPrompt(Head(ms)) THEN {Head(ms).p} ELSE {})
         /\ Once(ms) => Once(Tail(ms)) /\ (IsPrompt(Head(ms)) => Head(ms).p \notin Prompts(Tail(ms)))
<1>1. /\ DOMAIN ms = 1 .. Len(ms) /\ Len(ms) \in Nat \ {0} /\ DOMAIN Tail(ms) = 1 .. Len(ms) - 1
      /\ \A i \in 1 .. Len(ms) - 1 : Tail(ms)[i] = ms[i + 1]
      /\ Head(ms) = ms[1]
  OBVIOUS
<1>2. \A p : p \in Prompts(ms) <=> p \in Prompts(Tail(ms)) \cup (IF IsPrompt(Head(ms)) THEN {Head(ms).p} ELSE {})
  <2>1. TAKE p
  <2>2. ASSUME NEW i \in 1 .. Len(ms), IsPrompt(ms[i]), ms[i].p = p, i # 1
        PROVE  p \in Prompts(Tail(ms))
    <3>1. i - 1 \in 1 .. Len(ms) - 1 /\ Tail(ms)[i - 1] = ms[i]
      BY <1>1, <2>2
    <3>2. QED
      BY <1>1, <2>2, <3>1, PromptsIs
  <2>3. p \in Prompts(Tail(ms)) => p \in Prompts(ms)
    <3>1. \A i \in 1 .. Len(ms) - 1 : i + 1 \in 1 .. Len(ms)
      BY <1>1
    <3>2. p \in Prompts(Tail(ms)) => \E i \in 1 .. Len(ms) - 1 : IsPrompt(ms[i + 1]) /\ ms[i + 1].p = p
      <4>1. p \in Prompts(Tail(ms)) => \E i \in DOMAIN Tail(ms) : IsPrompt(Tail(ms)[i]) /\ Tail(ms)[i].p = p
        BY PromptsIs
      <4>2. QED
        BY <1>1, <4>1
    <3>3. QED
      BY <1>1, <3>1, <3>2, PromptsIs
  <2>4. QED
    BY <1>1, <2>2, <2>3, PromptsIs
<1>3. ASSUME Once(ms) PROVE Once(Tail(ms)) /\ (IsPrompt(Head(ms)) => Head(ms).p \notin Prompts(Tail(ms)))
  <2>1. Once(Tail(ms))
    BY <1>1, <1>3 DEF Once
  <2>2. ASSUME IsPrompt(Head(ms)), Head(ms).p \in Prompts(Tail(ms)) PROVE FALSE
    <3>1. PICK i \in 1 .. Len(ms) - 1 : IsPrompt(ms[i + 1]) /\ ms[i + 1].p = ms[1].p
      <4>1. \E i \in DOMAIN Tail(ms) : IsPrompt(Tail(ms)[i]) /\ Tail(ms)[i].p = Head(ms).p
        BY <2>2, PromptsIs
      <4>2. QED
        BY <1>1, <4>1
    <3>2. QED
      BY <1>1, <1>3, <2>2, <3>1 DEF Once
  <2>3. QED
    BY <2>1, <2>2
<1>4. QED
  BY <1>2, <1>3

LEMMA PromptsOfJoin ==
  ASSUME NEW S, NEW ms \in Seq(S), NEW ns \in Seq(S)
  PROVE  /\ Prompts(ms \o ns) = Prompts(ms) \cup Prompts(ns)
         /\ Once(ms) /\ Once(ns) /\ Prompts(ms) \cap Prompts(ns) = {} => Once(ms \o ns)
<1>1. /\ DOMAIN ms = 1 .. Len(ms) /\ DOMAIN ns = 1 .. Len(ns) /\ Len(ms) \in Nat /\ Len(ns) \in Nat
      /\ DOMAIN (ms \o ns) = 1 .. Len(ms) + Len(ns)
      /\ \A i \in 1 .. Len(ms) : (ms \o ns)[i] = ms[i]
      /\ \A i \in 1 .. Len(ms) + Len(ns) : i > Len(ms) => (ms \o ns)[i] = ns[i - Len(ms)]
  OBVIOUS
<1>2. \A i \in 1 .. Len(ms) + Len(ns) : i > Len(ms) => i - Len(ms) \in 1 .. Len(ns)
  BY <1>1
<1>3. \A i \in 1 .. Len(ns) : i + Len(ms) \in 1 .. Len(ms) + Len(ns) /\ (ms \o ns)[i + Len(ms)] = ns[i]
  BY <1>1
<1>4. \A p : p \in Prompts(ms \o ns) <=> p \in Prompts(ms) \cup Prompts(ns)
  <2>1. TAKE p
  <2>2. ASSUME p \in Prompts(ms \o ns) PROVE p \in Prompts(ms) \cup Prompts(ns)
    <3>1. PICK i \in 1 .. Len(ms) + Len(ns) : IsPrompt((ms \o ns)[i]) /\ (ms \o ns)[i].p = p
      <4>1. \E i \in DOMAIN (ms \o ns) : IsPrompt((ms \o ns)[i]) /\ (ms \o ns)[i].p = p
        BY <2>2, PromptsIs
      <4>2. QED
        BY <1>1, <4>1
    <3>2. CASE i \in 1 .. Len(ms)
      BY <1>1, <3>1, <3>2, PromptsIs
    <3>3. CASE i > Len(ms)
      BY <1>1, <1>2, <3>1, <3>3, PromptsIs
    <3>4. QED
      BY <1>1, <3>2, <3>3
  <2>3. ASSUME p \in Prompts(ms) PROVE p \in Prompts(ms \o ns)
    <3>1. PICK i \in 1 .. Len(ms) : IsPrompt(ms[i]) /\ ms[i].p = p
      BY <1>1, <2>3, PromptsIs
    <3>2. i \in DOMAIN (ms \o ns) /\ (ms \o ns)[i] = ms[i]
      BY <1>1
    <3>3. QED
      BY <3>1, <3>2, PromptsIs
  <2>4. ASSUME p \in Prompts(ns) PROVE p \in Prompts(ms \o ns)
    <3>1. PICK i \in 1 .. Len(ns) : IsPrompt(ns[i]) /\ ns[i].p = p
      BY <1>1, <2>4, PromptsIs
    <3>2. i + Len(ms) \in DOMAIN (ms \o ns) /\ (ms \o ns)[i + Len(ms)] = ns[i]
      BY <1>1, <1>3
    <3>3. QED
      BY <3>1, <3>2, PromptsIs
  <2>5. QED
    BY <2>2, <2>3, <2>4
<1>5. ASSUME Once(ms), Once(ns), Prompts(ms) \cap Prompts(ns) = {} PROVE Once(ms \o ns)
  <2>1. SUFFICES ASSUME NEW i \in 1 .. Len(ms) + Len(ns), NEW j \in 1 .. Len(ms) + Len(ns),
                        IsPrompt((ms \o ns)[i]), IsPrompt((ms \o ns)[j]), (ms \o ns)[i].p = (ms \o ns)[j].p
                 PROVE  i = j
    BY <1>1 DEF Once
  <2>2. CASE i <= Len(ms) /\ j <= Len(ms)
    BY <1>1, <1>5, <2>1, <2>2 DEF Once
  <2>3. CASE i > Len(ms) /\ j > Len(ms)
    <3>1. /\ IsPrompt(ns[i - Len(ms)]) /\ IsPrompt(ns[j - Len(ms)])
          /\ ns[i - Len(ms)].p = ns[j - Len(ms)].p
      BY <1>1, <2>1, <2>3
    <3>2. i - Len(ms) = j - Len(ms)
      BY <1>1, <1>2, <1>5, <2>3, <3>1 DEF Once
    <3>3. QED
      BY <1>1, <3>2
  <2>4. \A a \in 1 .. Len(ms), b \in 1 .. Len(ns) : IsPrompt(ms[a]) /\ IsPrompt(ns[b]) => ms[a].p # ns[b].p
    <3>1. \A a \in 1 .. Len(ms) : IsPrompt(ms[a]) => ms[a].p \in Prompts(ms)
      BY <1>1, PromptsIs
    <3>2. \A b \in 1 .. Len(ns) : IsPrompt(ns[b]) => ns[b].p \in Prompts(ns)
      BY <1>1, PromptsIs
    <3>3. QED
      BY <1>5, <3>1, <3>2
  <2>5. CASE i <= Len(ms) /\ j > Len(ms)
    BY <1>1, <1>2, <2>1, <2>4, <2>5
  <2>6. CASE i > Len(ms) /\ j <= Len(ms)
    BY <1>1, <1>2, <2>1, <2>4, <2>6
  <2>7. QED
    BY <1>1, <2>2, <2>3, <2>5, <2>6
<1>6. QED
  BY <1>4, <1>5

LEMMA PromptsOfSub ==
  ASSUME NEW S, NEW ms \in Seq(S), NEW k \in 0 .. Len(ms)
  PROVE  /\ Prompts(ms) = Prompts(SubSeq(ms, 1, k)) \cup Prompts(SubSeq(ms, k + 1, Len(ms)))
         /\ Once(ms) => Once(SubSeq(ms, 1, k))
<1>1. /\ Len(ms) \in Nat /\ DOMAIN ms = 1 .. Len(ms)
      /\ SubSeq(ms, 1, k) = [i \in 1 .. k |-> ms[i]]
      /\ SubSeq(ms, k + 1, Len(ms)) = [i \in 1 .. Len(ms) - k |-> ms[i + k]]
  OBVIOUS
<1>2. \A i \in 1 .. Len(ms) : i > k => i - k \in 1 .. Len(ms) - k /\ (i - k) + k = i
  BY <1>1
<1>3. \A i \in 1 .. Len(ms) - k : i + k \in 1 .. Len(ms)
  BY <1>1
<1>4. \A p : p \in Prompts(ms) <=> p \in Prompts(SubSeq(ms, 1, k)) \cup Prompts(SubSeq(ms, k + 1, Len(ms)))
  <2>1. TAKE p
  <2> DEFINE f == [i \in 1 .. k |-> ms[i]]
             g == [i \in 1 .. Len(ms) - k |-> ms[i + k]]
  <2>2. p \in Prompts(SubSeq(ms, 1, k)) <=> \E i \in 1 .. k : IsPrompt(ms[i]) /\ ms[i].p = p
    <3>1. p \in Prompts(f) <=> \E i \in DOMAIN f : IsPrompt(f[i]) /\ f[i].p = p
      BY PromptsIs
    <3>2. QED
      BY <1>1, <3>1
  <2>3. p \in Prompts(SubSeq(ms, k + 1, Len(ms))) <=> \E i \in 1 .. Len(ms) - k : IsPrompt(ms[i + k]) /\ ms[i + k].p = p
    <3>1. p \in Prompts(g) <=> \E i \in DOMAIN g : IsPrompt(g[i]) /\ g[i].p = p
      BY PromptsIs
    <3>2. QED
      BY <1>1, <3>1
  <2>4. p \in Prompts(ms) <=> \E i \in 1 .. Len(ms) : IsPrompt(ms[i]) /\ ms[i].p = p
    BY <1>1, PromptsIs
  <2>5. QED
    BY <1>1, <1>2, <1>3, <2>2, <2>3, <2>4
<1>5. QED
  BY <1>1, <1>4 DEF Once
-----------------------------------------------------------------------------
(* What the runner makes of a claim's answer and of a prompt. *)

\* The runner leaves the connection and the copy of the log alone.
Same(x, y) ==
  /\ y.n = x.n /\ y.status = x.status /\ y.entries = x.entries /\ y.synced = x.synced
  /\ y.torn = x.torn /\ y.fold = x.fold

\* What a runner sends, none of whose summaries reach beyond f.
Says(ms, f) ==
  \A i \in DOMAIN ms : /\ ms[i].t \in {"append", "claim", "release", "steer"}
                       /\ ms[i].t = "append" => ms[i].through <= f

\* The runner goes from x to y, given the prompts of I: it keeps what it has, sends it
\* on or drops it.
Conserves(x, I, y) ==
  /\ Held(y) \cup Prompts(y.out) \subseteq Held(x) \cup I
  /\ Held(x) \cup I \cup x.dropped \subseteq Held(y) \cup Prompts(y.out) \cup y.dropped
  /\ Held(y) \cap Prompts(y.out) = {}
  /\ Once(y.out)

Runs(x, I, y, f) ==
  /\ y \in TabState /\ Same(x, y) /\ Tidy(y) /\ Says(y.out, f) /\ Conserves(x, I, y)
  /\ x.status # "open" => y.out = <<>>

\* Nothing else of a prompt is said.
Quiet(x, y, f) ==
  /\ y.out \in Seq(ToServer) /\ Prompts(y.out) = Prompts(x.out)
  /\ Once(x.out) => Once(y.out)
  /\ x.status # "open" => y.out = x.out
  /\ Says(x.out, f) => Says(y.out, f)

LEMMA SaysMore ==
  ASSUME NEW ms \in Seq(ToServer), NEW m \in ToServer, NEW f,
         m.t \in {"append", "claim", "release", "steer"}, m.t = "append" => m.through <= f, Says(ms, f)
  PROVE  Says(Append(ms, m), f)
BY DEF Says

LEMMA Messages ==
  /\ [t |-> "release"] \in ToServer /\ [t |-> "claim"] \in ToServer /\ [t |-> "clear"] \in ToServer
  /\ \A n \in 0 .. MaxSeq : [t |-> "append", through |-> n] \in ToServer /\ [t |-> "attach", after |-> n] \in ToServer
  /\ \A p \in Prompt : [t |-> "steer", p |-> p] \in ToServer
  /\ \A n \in Seqs : [t |-> "history", before |-> n] \in ToServer
BY DEF ToServer

\* A prompt is the only one that a tab sends.
LEMMA OnlyPrompt ==
  ASSUME NEW o \in Seq(ToServer), NEW m \in ToServer, IsPrompt(m), m.t = "steer", NEW f,
         Prompts(o) = {}, Once(o), Says(o, f)
  PROVE  /\ Append(o, m) \in Seq(ToServer) /\ Once(Append(o, m)) /\ Says(Append(o, m), f)
         /\ Prompts(Append(o, m)) = {m.p}
<1>1. Says(Append(o, m), f)
  <2>1. m.t \in {"append", "claim", "release", "steer"} /\ (m.t = "append" => m.through <= f)
    OBVIOUS
  <2>2. QED
    BY <2>1, SaysMore
<1>2. /\ Prompts(Append(o, m)) = Prompts(o) \cup (IF IsPrompt(m) THEN {m.p} ELSE {})
      /\ Once(o) /\ (IsPrompt(m) => m.p \notin Prompts(o)) => Once(Append(o, m))
  BY PromptsOfAppend
<1>3. QED
  BY <1>1, <1>2

LEMMA SendIs ==
  ASSUME NEW x \in TabState, NEW m \in ToServer
  PROVE  /\ Send(x, m) \in TabState
         /\ Send(x, m) = [x EXCEPT !.out = Send(x, m).out]
         /\ Send(x, m).out = IF x.status = "open" THEN Append(x.out, m) ELSE x.out
<1>1. x.out \in Seq(ToServer) /\ Append(x.out, m) \in Seq(ToServer)
  BY DEF TabState
<1>2. CASE x.status = "open"
  <2>1. Send(x, m) = [x EXCEPT !.out = Append(@, m)]
    BY <1>2 DEF Send
  <2>2. QED
    BY <1>1, <1>2, <2>1 DEF TabState
<1>3. CASE x.status # "open"
  BY <1>3 DEF Send, TabState
<1>4. QED
  BY <1>2, <1>3

LEMMA QuietSend ==
  ASSUME NEW x \in TabState, NEW m \in ToServer, NEW f, ~IsPrompt(m),
         m.t \in {"append", "claim", "release"}, m.t = "append" => m.through <= f
  PROVE  Quiet(x, Send(x, m), f)
<1>1. x.out \in Seq(ToServer) /\ Append(x.out, m) \in Seq(ToServer)
  BY DEF TabState
<1>2. Quiet(x, x, f)
  BY <1>1 DEF Quiet
<1>3. /\ Prompts(Append(x.out, m)) = Prompts(x.out)
      /\ Once(x.out) => Once(Append(x.out, m))
      /\ Says(x.out, f) => Says(Append(x.out, m), f)
  <2>1. /\ Prompts(Append(x.out, m)) = Prompts(x.out) \cup (IF IsPrompt(m) THEN {m.p} ELSE {})
        /\ Once(x.out) /\ (IsPrompt(m) => m.p \notin Prompts(x.out)) => Once(Append(x.out, m))
    BY <1>1, PromptsOfAppend
  <2>2. Says(x.out, f) => Says(Append(x.out, m), f)
    BY <1>1, SaysMore
  <2>3. QED
    BY <2>1, <2>2
<1>4. QED
  BY <1>1, <1>2, <1>3, SendIs DEF Quiet

LEMMA AppendEntryIs ==
  ASSUME NEW x \in TabState, NEW n \in 0 .. MaxSeq, NEW f \in Nat, n <= f
  PROVE  LET y == AppendEntry(x, n)
         IN /\ y \in TabState /\ Quiet(x, y, f) /\ Same(x, y)
            /\ y.stage = x.stage /\ y.text = x.text /\ y.queue = x.queue /\ y.took = x.took
            /\ y.dropped = x.dropped /\ y.claiming = x.claiming
<1> DEFINE m == [t |-> "append", through |-> n]
           s == Send(x, m)
<1>1. m \in ToServer /\ ~IsPrompt(m) /\ m.t = "append" /\ m.through = n
  BY Messages DEF IsPrompt
<1> HIDE DEF m
<1>2. /\ s \in TabState /\ Quiet(x, s, f)
      /\ s = [x EXCEPT !.out = s.out]
  BY <1>1, SendIs, QuietSend
<1> HIDE DEF s
<1>3. /\ Same(x, s) /\ s.stage = x.stage /\ s.text = x.text /\ s.queue = x.queue /\ s.took = x.took
      /\ s.dropped = x.dropped /\ s.claiming = x.claiming /\ s.out = s.out
  BY <1>2 DEF Same, TabState
<1>4. CASE x.status = "open"
  <2> DEFINE y == [s EXCEPT !.appends = @ + 1]
  <2>1. AppendEntry(x, n) = y
    BY <1>4 DEF AppendEntry, s, m
  <2>2. /\ y \in TabState /\ y.n = s.n /\ y.status = s.status /\ y.entries = s.entries
        /\ y.synced = s.synced /\ y.torn = s.torn /\ y.fold = s.fold
        /\ y.stage = s.stage /\ y.text = s.text /\ y.queue = s.queue /\ y.took = s.took
        /\ y.dropped = s.dropped /\ y.claiming = s.claiming /\ y.out = s.out
    <3>1. s \in TabState /\ s.appends \in Nat /\ s.appends + 1 \in Nat
      BY <1>2 DEF TabState
    <3>2. QED
      BY <3>1 DEF TabState
  <2> HIDE DEF y
  <2>3. QED
    BY <1>2, <1>3, <2>1, <2>2 DEF Same, Quiet
<1>5. CASE x.status # "open"
  BY <1>5 DEF AppendEntry, Same, Quiet, TabState
<1>6. QED
  BY <1>4, <1>5

LEMMA ReleaseIs ==
  ASSUME NEW x \in TabState, NEW f
  PROVE  LET y == Release(x)
         IN /\ y \in TabState /\ Quiet(x, y, f)
            /\ y = [x EXCEPT !.out = y.out]
<1> DEFINE m == [t |-> "release"]
<1>1. m \in ToServer /\ ~IsPrompt(m) /\ m.t = "release"
  BY Messages DEF IsPrompt
<1>2. Quiet(x, x, f) /\ x = [x EXCEPT !.out = x.out]
  BY DEF Quiet, TabState
<1>3. Release(x) = IF IsRunner(x) THEN Send(x, m) ELSE x
  BY DEF Release
<1> HIDE DEF m
<1>4. Send(x, m) \in TabState /\ Quiet(x, Send(x, m), f) /\ Send(x, m) = [x EXCEPT !.out = Send(x, m).out]
  BY <1>1, SendIs, QuietSend
<1>5. QED
  BY <1>2, <1>3, <1>4

LEMMA FinishIs ==
  ASSUME NEW x \in TabState, NEW f
  PROVE  LET y == Finish(x)
         IN /\ y \in TabState /\ Quiet(x, y, f) /\ Same(x, y)
            /\ y.stage = "idle" /\ y.text = {} /\ y.queue = x.queue /\ y.took = x.took
            /\ y.dropped = x.dropped /\ y.claiming = x.claiming
<1> DEFINE r == Release(x)
           y == [r EXCEPT !.stage = "idle", !.text = {}]
<1>1. r \in TabState /\ Quiet(x, r, f) /\ r = [x EXCEPT !.out = r.out]
  BY ReleaseIs
<1>2. Finish(x) = y
  BY DEF Finish
<1> HIDE DEF r
<1>3. Same(x, r) /\ r.queue = x.queue /\ r.took = x.took /\ r.dropped = x.dropped /\ r.claiming = x.claiming
  BY <1>1 DEF Same, TabState
<1>4. /\ y \in TabState /\ y.n = r.n /\ y.status = r.status /\ y.entries = r.entries
      /\ y.synced = r.synced /\ y.torn = r.torn /\ y.fold = r.fold
      /\ y.stage = "idle" /\ y.text = {} /\ y.queue = r.queue /\ y.took = r.took
      /\ y.dropped = r.dropped /\ y.claiming = r.claiming /\ y.out = r.out
  BY <1>1 DEF TabState, Stage
<1> HIDE DEF y
<1>5. QED
  BY <1>1, <1>2, <1>3, <1>4 DEF Same, Quiet

LEMMA StartTurnIs ==
  ASSUME NEW x \in TabState, NEW f \in Nat
  PROVE  LET y == StartTurn(x)
         IN /\ y \in TabState /\ Quiet(x, y, f) /\ Same(x, y)
            /\ y.stage = "turn" /\ y.text = {} /\ y.queue = x.queue /\ y.took = x.took \cup x.text
            /\ y.dropped = x.dropped /\ y.claiming = x.claiming
<1> DEFINE s == [x EXCEPT !.stage = "turn", !.took = @ \cup x.text, !.text = {}]
           y == AppendEntry(s, 0)
<1>1. /\ s \in TabState /\ Same(x, s) /\ s.out = x.out /\ s.stage = "turn" /\ s.text = {} /\ s.queue = x.queue
      /\ s.took = x.took \cup x.text /\ s.dropped = x.dropped /\ s.claiming = x.claiming
  BY DEF TabState, Stage, Same
<1>2. StartTurn(x) = y
  BY DEF StartTurn
<1> HIDE DEF s
<1>3. /\ y \in TabState /\ Quiet(s, y, f) /\ Same(s, y)
      /\ y.stage = s.stage /\ y.text = s.text /\ y.queue = s.queue /\ y.took = s.took
      /\ y.dropped = s.dropped /\ y.claiming = s.claiming
  BY <1>1, AppendEntryIs, BoundAssumption
<1> HIDE DEF y
<1>4. QED
  BY <1>1, <1>2, <1>3 DEF Same, Quiet

LEMMA GiveUpIs ==
  ASSUME NEW x \in TabState, x.out = <<>>, NEW p \in Prompt, x.text = {p}, NEW f
  PROVE  LET y == GiveUp(x)
         IN /\ y \in TabState /\ y.out \in Seq(ToServer) /\ Once(y.out) /\ Says(y.out, f) /\ Same(x, y)
            /\ y.stage = "idle" /\ y.text = {} /\ y.queue = x.queue /\ y.took = x.took
            /\ y.claiming = x.claiming
            /\ \/ Prompts(y.out) = {p} /\ y.dropped = x.dropped
               \/ Prompts(y.out) = {} /\ y.dropped = x.dropped \cup {p}
            /\ x.status # "open" => y.out = <<>>
<1> DEFINE m == [t |-> "steer", p |-> p]
           s == IF x.status = "open" THEN Send(x, m) ELSE [x EXCEPT !.dropped = @ \cup x.text]
           y == Finish(s)
<1>1. m \in ToServer /\ IsPrompt(m) /\ m.p = p /\ m.t = "steer"
  BY Messages DEF IsPrompt
<1>2. GiveUp(x) = y
  <2>1. (CHOOSE q \in x.text : TRUE) = p
    OBVIOUS
  <2>2. QED
    BY <2>1 DEF GiveUp
<1> HIDE DEF m
<1>3. /\ s \in TabState /\ Same(x, s) /\ s.queue = x.queue /\ s.took = x.took /\ s.claiming = x.claiming
      /\ s.out = IF x.status = "open" THEN Append(x.out, m) ELSE x.out
      /\ s.dropped = IF x.status = "open" THEN x.dropped ELSE x.dropped \cup {p}
  <2>1. CASE x.status = "open"
    <3>1. Send(x, m) \in TabState /\ Send(x, m) = [x EXCEPT !.out = Send(x, m).out] /\ Send(x, m).out = Append(x.out, m)
      BY <1>1, <2>1, SendIs
    <3>2. QED
      BY <2>1, <3>1 DEF Same, TabState
  <2>2. CASE x.status # "open"
    BY <2>2 DEF Same, TabState
  <2>3. QED
    BY <2>1, <2>2
<1> HIDE DEF s
<1>4. /\ s.out \in Seq(ToServer) /\ Once(s.out) /\ Says(s.out, f)
      /\ Prompts(s.out) = IF x.status = "open" THEN {p} ELSE {}
  <2>1. x.out \in Seq(ToServer) /\ Says(x.out, f) /\ Once(x.out) /\ Prompts(x.out) = {}
    BY PromptsOfNone DEF Says, TabState
  <2>2. /\ Append(x.out, m) \in Seq(ToServer) /\ Once(Append(x.out, m)) /\ Says(Append(x.out, m), f)
        /\ Prompts(Append(x.out, m)) = {m.p}
    BY <1>1, <2>1, OnlyPrompt
  <2>3. QED
    BY <1>1, <1>3, <2>1, <2>2
<1>5. /\ y \in TabState /\ Quiet(s, y, f) /\ Same(s, y)
      /\ y.stage = "idle" /\ y.text = {} /\ y.queue = s.queue /\ y.took = s.took
      /\ y.dropped = s.dropped /\ y.claiming = s.claiming
  BY <1>3, FinishIs
<1> HIDE DEF y
<1>6. QED
  BY <1>2, <1>3, <1>4, <1>5 DEF Same, Quiet

LEMMA ClaimedRuns ==
  ASSUME NEW x \in TabState, x.out = <<>>, Tidy(x), NEW granted \in BOOLEAN, NEW f \in Nat
  PROVE  Runs(x, {}, Claimed(x, granted), f)
<1>1. CASE ~x.claiming
  BY <1>1, PromptsOfNone DEF Claimed, Runs, Same, Says, Conserves
<1>2. CASE x.claiming
  <2> DEFINE z == [x EXCEPT !.claiming = FALSE]
  <2>1. PICK p \in Prompt : x.text = {p}
    BY <1>2 DEF Tidy
  <2>2. /\ z \in TabState /\ Same(x, z) /\ z.out = <<>> /\ z.text = {p} /\ z.queue = x.queue
        /\ z.took = x.took /\ z.dropped = x.dropped /\ ~z.claiming
    BY <2>1 DEF TabState, Same
  <2>3. Claimed(x, granted) = IF granted THEN StartTurn(z) ELSE GiveUp(z)
    BY <1>2 DEF Claimed
  <2>4. p \notin x.queue \cup x.took
    BY <2>1 DEF Tidy
  <2> HIDE DEF z
  <2>5. CASE granted
    <3> DEFINE y == StartTurn(z)
    <3>1. /\ y \in TabState /\ Quiet(z, y, f) /\ Same(z, y)
          /\ y.stage = "turn" /\ y.text = {} /\ y.queue = z.queue /\ y.took = z.took \cup z.text
          /\ y.dropped = z.dropped /\ y.claiming = z.claiming
      BY <2>2, StartTurnIs
    <3> HIDE DEF y
    <3>2. Prompts(y.out) = {} /\ Once(y.out) /\ Says(y.out, f)
      <4>1. Says(z.out, f) /\ Once(z.out) /\ Prompts(z.out) = {}
        BY <2>2, PromptsOfNone DEF Says
      <4>2. QED
        BY <3>1, <4>1 DEF Quiet
    <3>3. Conserves(x, {}, y)
      BY <2>1, <2>2, <3>1, <3>2 DEF Conserves, Held
    <3>4. Tidy(y) /\ Same(x, y)
      BY <2>2, <3>1 DEF Tidy, Same
    <3>5. x.status # "open" => y.out = <<>>
      BY <2>2, <3>1 DEF Same, Quiet
    <3>6. QED
      BY <2>3, <2>5, <3>1, <3>2, <3>3, <3>4, <3>5 DEF Runs, y
  <2>6. CASE ~granted
    <3> DEFINE y == GiveUp(z)
    <3>1. /\ y \in TabState /\ y.out \in Seq(ToServer) /\ Once(y.out) /\ Says(y.out, f) /\ Same(z, y)
          /\ y.stage = "idle" /\ y.text = {} /\ y.queue = z.queue /\ y.took = z.took
          /\ y.claiming = z.claiming
          /\ \/ Prompts(y.out) = {p} /\ y.dropped = z.dropped
             \/ Prompts(y.out) = {} /\ y.dropped = z.dropped \cup {p}
          /\ z.status # "open" => y.out = <<>>
      BY <2>2, GiveUpIs
    <3> HIDE DEF y
    <3>2. Conserves(x, {}, y)
      BY <2>1, <2>2, <2>4, <3>1 DEF Conserves, Held
    <3>3. Tidy(y) /\ Same(x, y)
      BY <2>2, <3>1 DEF Tidy, Same
    <3>4. x.status # "open" => y.out = <<>>
      BY <2>2, <3>1 DEF Same
    <3>5. QED
      BY <2>3, <2>6, <3>1, <3>2, <3>3, <3>4 DEF Runs, y
  <2>7. QED
    BY <2>5, <2>6
<1>3. QED
  BY <1>1, <1>2

LEMMA RunRuns ==
  ASSUME NEW x \in TabState, x.out = <<>>, Tidy(x), NEW p \in Prompt, p \notin Held(x), NEW f \in Nat
  PROVE  Runs(x, {p}, Run(x, p), f)
<1>1. CASE x.stage # "idle"
  <2> DEFINE y == [x EXCEPT !.queue = @ \cup {p}]
  <2>1. /\ y \in TabState /\ Same(x, y) /\ y.out = <<>> /\ y.stage = x.stage /\ y.text = x.text
        /\ y.queue = x.queue \cup {p} /\ y.took = x.took /\ y.dropped = x.dropped /\ y.claiming = x.claiming
    BY DEF TabState, Same
  <2>2. Run(x, p) = y
    BY <1>1 DEF Run
  <2> HIDE DEF y
  <2>3. Conserves(x, {p}, y) /\ Says(y.out, f)
    BY <2>1, PromptsOfNone DEF Conserves, Held, Says
  <2>4. Tidy(y)
    BY <2>1 DEF Tidy, Held
  <2>5. QED
    BY <2>1, <2>2, <2>3, <2>4 DEF Runs
<1>2. CASE x.stage = "idle"
  <2> DEFINE z == [x EXCEPT !.stage = "claiming", !.text = {p}]
  <2>1. /\ z \in TabState /\ Same(x, z) /\ z.out = <<>> /\ z.text = {p} /\ z.queue = x.queue
        /\ z.took = x.took /\ z.dropped = x.dropped /\ z.claiming = x.claiming /\ z.stage = "claiming"
    BY DEF TabState, Same, Stage
  <2>2. ~x.claiming /\ x.text = {} /\ Held(x) = x.queue \cup x.took
    BY <1>2 DEF Tidy, Held
  <2>3. Says(z.out, f) /\ Once(z.out) /\ Prompts(z.out) = {}
    BY <2>1, PromptsOfNone DEF Says
  <2>4. Run(x, p) = CASE IsRunner(z) -> StartTurn(z)
                      [] ~IsRunner(z) /\ z.status = "open" ->
                           [Send(z, [t |-> "claim"]) EXCEPT !.claiming = TRUE]
                      [] OTHER -> GiveUp(z)
    BY <1>2 DEF Run
  <2> HIDE DEF z
  <2>5. CASE IsRunner(z)
    <3> DEFINE y == StartTurn(z)
    <3>1. /\ y \in TabState /\ Quiet(z, y, f) /\ Same(z, y)
          /\ y.stage = "turn" /\ y.text = {} /\ y.queue = z.queue /\ y.took = z.took \cup z.text
          /\ y.dropped = z.dropped /\ y.claiming = z.claiming
      BY <2>1, StartTurnIs
    <3>2. Run(x, p) = y
      BY <2>4, <2>5
    <3> HIDE DEF y
    <3>3. Prompts(y.out) = {} /\ Once(y.out) /\ Says(y.out, f)
      BY <2>3, <3>1 DEF Quiet
    <3>4. Conserves(x, {p}, y)
      BY <2>1, <2>2, <3>1, <3>3 DEF Conserves, Held
    <3>5. Tidy(y) /\ Same(x, y)
      BY <2>1, <2>2, <3>1 DEF Tidy, Same
    <3>6. x.status # "open" => y.out = <<>>
      BY <2>1, <3>1 DEF Same, Quiet
    <3>7. QED
      BY <3>1, <3>2, <3>3, <3>4, <3>5, <3>6 DEF Runs
  <2>6. CASE ~IsRunner(z) /\ z.status = "open"
    <3> DEFINE m == [t |-> "claim"]
               s == Send(z, m)
               y == [s EXCEPT !.claiming = TRUE]
    <3>1. m \in ToServer /\ ~IsPrompt(m) /\ m.t = "claim"
      BY Messages DEF IsPrompt
    <3>2. Run(x, p) = y
      BY <2>4, <2>6
    <3> HIDE DEF m
    <3>3. s \in TabState /\ s = [z EXCEPT !.out = s.out] /\ Quiet(z, s, f)
      BY <2>1, <3>1, SendIs, QuietSend
    <3> HIDE DEF s
    <3>4. /\ s.n = z.n /\ s.status = z.status /\ s.entries = z.entries /\ s.synced = z.synced
          /\ s.torn = z.torn /\ s.fold = z.fold /\ s.stage = "claiming" /\ s.text = {p} /\ s.queue = x.queue
          /\ s.took = x.took /\ s.dropped = x.dropped
      BY <2>1, <3>3 DEF TabState
    <3>5. /\ y \in TabState /\ Same(z, y) /\ y.out = s.out /\ y.stage = "claiming" /\ y.text = {p}
          /\ y.queue = x.queue /\ y.took = x.took /\ y.dropped = x.dropped /\ y.claiming
      BY <3>3, <3>4 DEF TabState, Same
    <3> HIDE DEF y
    <3>6. Prompts(y.out) = {} /\ Once(y.out) /\ Says(y.out, f)
      BY <2>3, <3>3, <3>5 DEF Quiet
    <3>7. Conserves(x, {p}, y)
      BY <2>2, <3>5, <3>6 DEF Conserves, Held
    <3>8. Tidy(y)
      BY <2>2, <3>5 DEF Tidy
    <3>9. Same(x, y)
      BY <2>1, <3>5 DEF Same
    <3>10. x.status = "open"
      BY <2>1, <2>6 DEF Same
    <3>11. QED
      BY <3>2, <3>5, <3>6, <3>7, <3>8, <3>9, <3>10 DEF Runs
  <2>7. CASE ~IsRunner(z) /\ z.status # "open"
    <3> DEFINE y == GiveUp(z)
    <3>1. /\ y \in TabState /\ y.out \in Seq(ToServer) /\ Once(y.out) /\ Says(y.out, f) /\ Same(z, y)
          /\ y.stage = "idle" /\ y.text = {} /\ y.queue = z.queue /\ y.took = z.took
          /\ y.claiming = z.claiming
          /\ \/ Prompts(y.out) = {p} /\ y.dropped = z.dropped
             \/ Prompts(y.out) = {} /\ y.dropped = z.dropped \cup {p}
          /\ z.status # "open" => y.out = <<>>
      BY <2>1, GiveUpIs
    <3>2. Run(x, p) = y
      BY <2>4, <2>7
    <3> HIDE DEF y
    <3>3. Conserves(x, {p}, y)
      BY <2>1, <2>2, <3>1 DEF Conserves, Held
    <3>4. Tidy(y) /\ Same(x, y)
      BY <2>1, <2>2, <3>1 DEF Tidy, Same
    <3>5. x.status # "open" => y.out = <<>>
      BY <2>1, <3>1 DEF Same
    <3>6. QED
      BY <3>1, <3>2, <3>3, <3>4, <3>5 DEF Runs
  <2>8. QED
    BY <2>5, <2>6, <2>7
<1>3. QED
  BY <1>1, <1>2

LEMMA AskRuns ==
  ASSUME NEW x \in TabState, x.out = <<>>, Tidy(x), NEW p \in Prompt, p \notin Held(x), NEW f \in Nat
  PROVE  Runs(x, {p}, Ask(x, p), f)
<1> DEFINE m == [t |-> "steer", p |-> p]
           y == Send(x, m)
<1>1. m \in ToServer /\ IsPrompt(m) /\ m.p = p /\ m.t = "steer"
  BY Messages DEF IsPrompt
<1>2. Ask(x, p) = IF x.runner # None /\ x.runner # x.me /\ x.status = "open" THEN y ELSE Run(x, p)
  BY DEF Ask
<1> HIDE DEF m
<1>3. CASE x.runner # None /\ x.runner # x.me /\ x.status = "open"
  <2>1. y \in TabState /\ y = [x EXCEPT !.out = y.out] /\ y.out = Append(x.out, m)
    BY <1>1, <1>3, SendIs
  <2> HIDE DEF y
  <2>2. /\ Same(x, y) /\ y.stage = x.stage /\ y.text = x.text /\ y.queue = x.queue /\ y.took = x.took
        /\ y.dropped = x.dropped /\ y.claiming = x.claiming
    BY <2>1 DEF Same, TabState
  <2>3. Prompts(y.out) = {p} /\ Once(y.out) /\ Says(y.out, f)
    <3>1. x.out \in Seq(ToServer) /\ Prompts(x.out) = {} /\ Once(x.out) /\ Says(x.out, f)
      BY PromptsOfNone DEF TabState, Says
    <3>2. Prompts(Append(x.out, m)) = {m.p} /\ Once(Append(x.out, m)) /\ Says(Append(x.out, m), f)
      BY <1>1, <3>1, OnlyPrompt
    <3>3. QED
      BY <1>1, <2>1, <3>2
  <2>4. Conserves(x, {p}, y) /\ Tidy(y)
    BY <2>2, <2>3 DEF Conserves, Held, Tidy
  <2>5. QED
    BY <1>2, <1>3, <2>1, <2>2, <2>3, <2>4 DEF Runs
<1>4. CASE ~(x.runner # None /\ x.runner # x.me /\ x.status = "open")
  BY <1>2, <1>4, RunRuns
<1>5. QED
  BY <1>3, <1>4
-----------------------------------------------------------------------------
(* What a tab makes of a message. *)

Given(m) == IF IsPrompt(m) THEN {m.p} ELSE {}

\* The tab goes from x to y by reading m.
Reads(x, m, y, f) ==
  /\ y \in TabState /\ Tidy(y) /\ Says(y.out, f) /\ Conserves(x, Given(m), y)
  /\ y.n = x.n /\ y.status = x.status /\ y.torn = x.torn /\ y.fold = x.fold
  /\ y.entries = {e \in x.entries \cup Shows(m) : e.seq > ClearsTo(m)}
  /\ y.synced = (x.synced \/ m.t = "synced")

\* A message whose handler leaves the runner as it is.
LEMMA PlainRead ==
  ASSUME NEW x \in TabState, x.out = <<>>, Tidy(x), NEW m, ~IsPrompt(m), NEW f, NEW y \in TabState,
         y.n = x.n, y.status = x.status, y.torn = x.torn, y.fold = x.fold,
         y.stage = x.stage, y.text = x.text, y.queue = x.queue, y.took = x.took, y.dropped = x.dropped,
         y.claiming = x.claiming, y.out = x.out,
         y.entries = {e \in x.entries \cup Shows(m) : e.seq > ClearsTo(m)},
         y.synced = (x.synced \/ m.t = "synced")
  PROVE  Reads(x, m, y, f)
<1>1. Conserves(x, Given(m), y)
  BY PromptsOfNone DEF Conserves, Given, Held
<1>2. Tidy(y) /\ Says(y.out, f)
  BY DEF Tidy, Says
<1>3. QED
  BY <1>1, <1>2 DEF Reads

\* One that changes nothing of the copy.
LEMMA NoChange ==
  ASSUME NEW x \in TabState, NEW m, Shows(m) = {}, ClearsTo(m) = 0
  PROVE  x.entries = {e \in x.entries \cup Shows(m) : e.seq > ClearsTo(m)}
<1>1. \A e \in x.entries : e.seq > 0
  BY BoundAssumption DEF TabState, Entry, Seqs
<1>2. QED
  BY <1>1

LEMMA HandledReads ==
  ASSUME NEW x \in TabState, x.out = <<>>, Tidy(x), NEW m \in ToTab, Given(m) \cap Held(x) = {},
         NEW c \in Conn, NEW f \in Nat
  PROVE  Reads(x, m, Handled(x, m, c), f)
<1> DEFINE y == Handled(x, m, c)
<1>0. x.entries \in SUBSET Entry /\ x.synced \in BOOLEAN /\ \A e \in Entry : e.seq \in Seqs /\ e.seq > 0
  BY BoundAssumption DEF TabState, Entry, Seqs
<1>1. CASE m.t = "hello"
  <2> DEFINE z == [x EXCEPT !.me = c, !.runner = m.runner, !.clearedThrough = m.cleared,
                            !.entries = {e \in @ : e.seq > m.cleared}]
  <2>1. y = z
    BY <1>1 DEF Handled, OnHello
  <2>2. m.runner \in Conn \cup {None} /\ m.cleared \in 0 .. MaxSeq
    BY <1>1, ToTabFields
  <2>3. {e \in x.entries : e.seq > m.cleared} \in SUBSET Entry
    BY <1>0
  <2>4. /\ z \in TabState /\ z.n = x.n /\ z.status = x.status /\ z.torn = x.torn /\ z.fold = x.fold
        /\ z.stage = x.stage /\ z.text = x.text /\ z.queue = x.queue /\ z.took = x.took /\ z.dropped = x.dropped
        /\ z.claiming = x.claiming /\ z.out = x.out /\ z.synced = x.synced
        /\ z.entries = {e \in x.entries : e.seq > m.cleared}
    BY <2>2, <2>3 DEF TabState
  <2>5. Shows(m) = {} /\ ClearsTo(m) = m.cleared /\ ~IsPrompt(m) /\ m.t # "synced"
    BY <1>1 DEF Shows, ClearsTo, IsPrompt
  <2> HIDE DEF z, y
  <2>6. z.entries = {e \in x.entries \cup Shows(m) : e.seq > ClearsTo(m)} /\ z.synced = (x.synced \/ m.t = "synced")
    BY <1>0, <2>4, <2>5
  <2>7. QED
    BY <2>1, <2>4, <2>5, <2>6, PlainRead DEF y
<1>2. CASE m.t = "entries"
  <2> DEFINE es == x.entries \cup m.entries
             early == IF m.initial /\ x.entries = {} THEN es # {} /\ Least(Seqnos(es)) > x.clearedThrough + 1
                      ELSE x.hasEarlier
             z == [x EXCEPT !.entries = es, !.hasEarlier = early]
  <2>1. y = z
    BY <1>2 DEF Handled, OnEntries
  <2>2. es \in SUBSET Entry /\ early \in BOOLEAN
    BY <1>0, <1>2, ToTabFields DEF TabState
  <2> HIDE DEF early
  <2>4. /\ z \in TabState /\ z.n = x.n /\ z.status = x.status /\ z.torn = x.torn /\ z.fold = x.fold
        /\ z.stage = x.stage /\ z.text = x.text /\ z.queue = x.queue /\ z.took = x.took /\ z.dropped = x.dropped
        /\ z.claiming = x.claiming /\ z.out = x.out /\ z.synced = x.synced
        /\ z.entries = x.entries \cup m.entries
    BY <2>2 DEF TabState
  <2>5. Shows(m) = m.entries /\ ClearsTo(m) = 0 /\ ~IsPrompt(m) /\ m.t # "synced"
    BY <1>2 DEF Shows, ClearsTo, IsPrompt
  <2>6. z.entries = {e \in x.entries \cup Shows(m) : e.seq > ClearsTo(m)} /\ z.synced = (x.synced \/ m.t = "synced")
    BY <1>0, <2>2, <2>4, <2>5
  <2> HIDE DEF z, y
  <2>7. QED
    BY <2>1, <2>4, <2>5, <2>6, PlainRead DEF y
<1>3. CASE m.t = "history"
  <2> DEFINE es == x.entries \cup m.entries
             z == [x EXCEPT !.loading = FALSE, !.entries = @ \cup m.entries, !.hasEarlier = m.more]
  <2>1. y = z
    BY <1>3 DEF Handled
  <2>2. es \in SUBSET Entry /\ m.more \in BOOLEAN
    BY <1>0, <1>3, ToTabFields
  <2>4. /\ z \in TabState /\ z.n = x.n /\ z.status = x.status /\ z.torn = x.torn /\ z.fold = x.fold
        /\ z.stage = x.stage /\ z.text = x.text /\ z.queue = x.queue /\ z.took = x.took /\ z.dropped = x.dropped
        /\ z.claiming = x.claiming /\ z.out = x.out /\ z.synced = x.synced
        /\ z.entries = x.entries \cup m.entries
    BY <2>2 DEF TabState
  <2>5. Shows(m) = m.entries /\ ClearsTo(m) = 0 /\ ~IsPrompt(m) /\ m.t # "synced"
    BY <1>3 DEF Shows, ClearsTo, IsPrompt
  <2>6. z.entries = {e \in x.entries \cup Shows(m) : e.seq > ClearsTo(m)} /\ z.synced = (x.synced \/ m.t = "synced")
    BY <1>0, <2>2, <2>4, <2>5
  <2> HIDE DEF z, y
  <2>7. QED
    BY <2>1, <2>4, <2>5, <2>6, PlainRead DEF y
<1>4. CASE m.t \in {"synced", "appended", "clearFailed"}
  <2>1. Shows(m) = {} /\ ClearsTo(m) = 0 /\ ~IsPrompt(m)
    BY <1>4 DEF Shows, ClearsTo, IsPrompt
  <2>2. x.appends \in Nat /\ (x.appends # 0 => x.appends - 1 \in Nat)
    BY DEF TabState
  <2>3. y = CASE m.t = "synced" -> [x EXCEPT !.synced = TRUE]
              [] m.t = "appended" -> [x EXCEPT !.appends = IF @ = 0 THEN 0 ELSE @ - 1]
              [] m.t = "clearFailed" -> [x EXCEPT !.clearing = FALSE]
    BY <1>4 DEF Handled
  <2>4. /\ y \in TabState /\ y.n = x.n /\ y.status = x.status /\ y.torn = x.torn /\ y.fold = x.fold
        /\ y.stage = x.stage /\ y.text = x.text /\ y.queue = x.queue /\ y.took = x.took /\ y.dropped = x.dropped
        /\ y.claiming = x.claiming /\ y.out = x.out /\ y.entries = x.entries
        /\ y.synced = (x.synced \/ m.t = "synced")
    <3> HIDE DEF y
    <3>1. CASE m.t = "synced"
      BY <2>3, <3>1 DEF TabState
    <3>2. CASE m.t = "appended"
      BY <1>0, <2>2, <2>3, <3>2 DEF TabState
    <3>3. CASE m.t = "clearFailed"
      BY <1>0, <2>3, <3>3 DEF TabState
    <3>4. QED
      BY <1>4, <3>1, <3>2, <3>3
  <2> HIDE DEF y
  <2>5. y.entries = {e \in x.entries \cup Shows(m) : e.seq > ClearsTo(m)}
    BY <2>1, <2>4, NoChange
  <2>6. QED
    BY <2>1, <2>4, <2>5, PlainRead DEF y
<1>5. CASE m.t = "cleared"
  <2> DEFINE z == [x EXCEPT !.entries = {e \in @ : e.seq > m.through}, !.hasEarlier = FALSE,
                            !.clearing = FALSE, !.clearedThrough = m.through]
  <2>1. y = z
    BY <1>5 DEF Handled, OnCleared
  <2>2. m.through \in 0 .. MaxSeq
    BY <1>5, ToTabFields
  <2>3. {e \in x.entries : e.seq > m.through} \in SUBSET Entry
    BY <1>0
  <2>4. /\ z \in TabState /\ z.n = x.n /\ z.status = x.status /\ z.torn = x.torn /\ z.fold = x.fold
        /\ z.stage = x.stage /\ z.text = x.text /\ z.queue = x.queue /\ z.took = x.took /\ z.dropped = x.dropped
        /\ z.claiming = x.claiming /\ z.out = x.out /\ z.synced = x.synced
        /\ z.entries = {e \in x.entries : e.seq > m.through}
    BY <2>2, <2>3 DEF TabState
  <2>5. Shows(m) = {} /\ ClearsTo(m) = m.through /\ ~IsPrompt(m) /\ m.t # "synced"
    BY <1>5 DEF Shows, ClearsTo, IsPrompt
  <2> HIDE DEF z, y
  <2>6. z.entries = {e \in x.entries \cup Shows(m) : e.seq > ClearsTo(m)} /\ z.synced = (x.synced \/ m.t = "synced")
    BY <1>0, <2>4, <2>5
  <2>7. QED
    BY <2>1, <2>4, <2>5, <2>6, PlainRead DEF y
<1>6. CASE m.t = "runner"
  <2> DEFINE z == [x EXCEPT !.runner = m.runner]
             granted == m.runner # None /\ m.runner = z.me
  <2>1. y = Claimed(z, granted)
    <3>1. z.me = x.me
      BY DEF TabState
    <3>2. QED
      BY <1>6, <3>1 DEF Handled, OnRunner
  <2>2. /\ z \in TabState /\ Same(x, z) /\ z.out = <<>> /\ Tidy(z) /\ Held(z) = Held(x) /\ z.dropped = x.dropped
    BY <1>6, ToTabFields DEF TabState, Same, Tidy, Held
  <2>3. Shows(m) = {} /\ ClearsTo(m) = 0 /\ Given(m) = {} /\ m.t # "synced"
    BY <1>6 DEF Shows, ClearsTo, IsPrompt, Given
  <2>3a. granted \in BOOLEAN
    OBVIOUS
  <2> HIDE DEF z, y, granted
  <2>4. Runs(z, {}, y, f)
    BY <2>1, <2>2, <2>3a, ClaimedRuns
  <2>5. x.entries = {e \in x.entries \cup Shows(m) : e.seq > ClearsTo(m)}
    BY <2>3, NoChange
  <2>6. y.synced = (x.synced \/ m.t = "synced")
    BY <1>0, <2>2, <2>3, <2>4 DEF Runs, Same
  <2>7. Reads(x, m, y, f)
    BY <2>2, <2>3, <2>4, <2>5, <2>6 DEF Reads, Runs, Same, Conserves
  <2>8. QED
    BY <2>7 DEF y
<1>7. CASE m.t \in {"steer", "noRunner"}
  <2>1. y = Run(x, m.p)
    BY <1>7 DEF Handled
  <2>2. Shows(m) = {} /\ ClearsTo(m) = 0 /\ Given(m) = {m.p} /\ m.p \in Prompt /\ m.t # "synced"
    BY <1>7, ToTabFields DEF Shows, ClearsTo, IsPrompt, Given
  <2> HIDE DEF y
  <2>3. Runs(x, {m.p}, y, f)
    BY <2>1, <2>2, RunRuns
  <2>4. x.entries = {e \in x.entries \cup Shows(m) : e.seq > ClearsTo(m)}
    BY <2>2, NoChange
  <2>5. y.synced = (x.synced \/ m.t = "synced")
    BY <1>0, <2>2, <2>3 DEF Runs, Same
  <2>6. Reads(x, m, y, f)
    BY <2>2, <2>3, <2>4, <2>5 DEF Reads, Runs, Same
  <2>7. QED
    BY <2>6 DEF y
<1>8. QED
  BY <1>1, <1>2, <1>3, <1>4, <1>5, <1>6, <1>7, ToTabFields
-----------------------------------------------------------------------------
(* A step takes prompts from one place to another. *)

LEMMA InIs ==
  /\ \A t \in Tab : In(<<"held", t>>) = Held(tab[t]) /\ In(<<"toTab", t>>) = Prompts(toTab[t])
  /\ \A c \in Conn : In(<<"toServer", c>>) = Prompts(toServer[c])
  /\ \A t \in Tab : In(<<"held", t>>)' = Held(tab'[t]) /\ In(<<"toTab", t>>)' = Prompts(toTab'[t])
  /\ \A c \in Conn : In(<<"toServer", c>>)' = Prompts(toServer'[c])
BY DEF In

LEMMA Places ==
  /\ \A t \in Tab : <<"held", t>> \in Place /\ <<"toTab", t>> \in Place
  /\ \A c \in Conn : <<"toServer", c>> \in Place
  /\ \A b \in Place : \/ \E t \in Tab : b = <<"held", t>> \/ b = <<"toTab", t>>
                      \/ \E c \in Conn : b = <<"toServer", c>>
BY DEF Place

\* Of places that share nothing, some share out what they have, and what is new.
LEMMA SharedOut ==
  ASSUME NEW B, NEW f, NEW g, NEW G \in SUBSET B, NEW N,
         \A a, b \in B : a # b => f[a] \cap f[b] = {},
         \A b \in B : f[b] \cap N = {},
         \A b \in B \ G : g[b] = f[b],
         \A b \in G : \A p \in g[b] : p \in N \/ \E a \in G : p \in f[a],
         \A a, b \in G : a # b => g[a] \cap g[b] = {}
  PROVE  \A a, b \in B : a # b => g[a] \cap g[b] = {}
<1>1. SUFFICES ASSUME NEW a \in B, NEW b \in B, a # b, NEW p, p \in g[a], p \in g[b] PROVE FALSE
  OBVIOUS
<1>2. CASE a \in G /\ b \in G
  BY <1>1, <1>2
<1>3. CASE a \notin G /\ b \notin G
  BY <1>1, <1>3
<1>4. CASE a \in G /\ b \notin G
  <2>1. p \in f[b]
    BY <1>1, <1>4
  <2>2. p \in N \/ \E d \in G : p \in f[d]
    BY <1>1, <1>4
  <2>3. QED
    BY <1>4, <2>1, <2>2
<1>5. CASE a \notin G /\ b \in G
  <2>1. p \in f[a]
    BY <1>1, <1>5
  <2>2. p \in N \/ \E d \in G : p \in f[d]
    BY <1>1, <1>5
  <2>3. QED
    BY <1>5, <2>1, <2>2
<1>6. QED
  BY <1>2, <1>3, <1>4, <1>5

\* What a step that concerns a tab and a connection has to share out.
Pool(t, c, N) == Held(tab[t]) \cup Prompts(toTab[t]) \cup Prompts(toServer[c]) \cup N

\* A step that concerns a tab, what is on its way to it and what is on its way on a
\* connection; N is asked in it.
LEMMA GroupStep ==
  ASSUME TypeOK, PromptInv, NEW t \in Tab, NEW c \in Conn,
         NEW z \in TabState, tab' = [tab EXCEPT ![t] = z], z.out = <<>>, Tidy(z),
         NEW ms, toTab' = [toTab EXCEPT ![t] = ms], Once(ms),
         NEW q, toServer' = [toServer EXCEPT ![c] = q], Once(q),
         NEW N, asked' = asked \cup N, N \cap asked = {},
         Held(z) \cup Prompts(ms) \cup Prompts(q) \subseteq Pool(t, c, N),
         Held(z) \cap Prompts(ms) = {}, Held(z) \cap Prompts(q) = {}, Prompts(ms) \cap Prompts(q) = {},
         lost \subseteq lost',
         Pool(t, c, N) \cup tab[t].dropped \subseteq Held(z) \cup Prompts(ms) \cup Prompts(q) \cup z.dropped \cup lost'
  PROVE  PromptInv'
<1>1. tab \in [Tab -> TabState] /\ toTab \in [Tab -> Seq(ToTab)] /\ toServer \in [Conn -> Seq(ToServer)]
  BY DEF TypeOK
<1>2. /\ tab'[t] = z /\ \A s \in Tab : s # t => tab'[s] = tab[s]
      /\ toTab'[t] = ms /\ \A s \in Tab : s # t => toTab'[s] = toTab[s]
      /\ toServer'[c] = q /\ \A d \in Conn : d # c => toServer'[d] = toServer[d]
  BY <1>1
<1> DEFINE h == <<"held", t>>
           w == <<"toTab", t>>
           r == <<"toServer", c>>
           f == [b \in Place |-> In(b)]
           g == [b \in Place |-> In(b)']
           K == Held(tab[t]) \cup Prompts(toTab[t]) \cup Prompts(toServer[c]) \cup N
<1>0. /\ Held(z) \subseteq K /\ Prompts(ms) \subseteq K /\ Prompts(q) \subseteq K
      /\ K \cup tab[t].dropped \subseteq Held(z) \cup Prompts(ms) \cup Prompts(q) \cup z.dropped \cup lost'
  BY DEF Pool
<1>3. /\ h \in Place /\ w \in Place /\ r \in Place /\ h # w /\ h # r /\ w # r
      /\ In(h) = Held(tab[t]) /\ In(w) = Prompts(toTab[t]) /\ In(r) = Prompts(toServer[c])
      /\ In(h)' = Held(z) /\ In(w)' = Prompts(ms) /\ In(r)' = Prompts(q)
  BY <1>2, InIs, Places
<1>4. \A b \in Place \ {h, w, r} : In(b)' = In(b)
  <2>1. TAKE b \in Place \ {h, w, r}
  <2>2. CASE \E s \in Tab : b = <<"held", s>>
    <3>1. PICK s \in Tab : b = <<"held", s>>
      BY <2>2
    <3>2. s # t
      BY <2>1, <3>1
    <3>3. In(<<"held", s>>) = Held(tab[s]) /\ In(<<"held", s>>)' = Held(tab'[s])
      BY InIs
    <3>4. QED
      BY <1>2, <3>1, <3>2, <3>3
  <2>3. CASE \E s \in Tab : b = <<"toTab", s>>
    <3>1. PICK s \in Tab : b = <<"toTab", s>>
      BY <2>3
    <3>2. s # t
      BY <2>1, <3>1
    <3>3. In(<<"toTab", s>>) = Prompts(toTab[s]) /\ In(<<"toTab", s>>)' = Prompts(toTab'[s])
      BY InIs
    <3>4. QED
      BY <1>2, <3>1, <3>2, <3>3
  <2>4. CASE \E d \in Conn : b = <<"toServer", d>>
    <3>1. PICK d \in Conn : b = <<"toServer", d>>
      BY <2>4
    <3>2. d # c
      BY <2>1, <3>1
    <3>3. QED
      BY <1>2, <3>1, <3>2, InIs
  <2>5. QED
    BY <2>2, <2>3, <2>4, Places
<1>5. (\A a, b \in Place : a # b => In(a) \cap In(b) = {}) /\ \A b \in Place : In(b) \subseteq asked
  BY DEF PromptInv, Apart, Asked
<1> HIDE DEF h, w, r
<1>6. Apart'
  <2>1. \A a, b \in Place : a # b => f[a] \cap f[b] = {}
    BY <1>5
  <2>2. \A b \in Place : f[b] \cap N = {}
    BY <1>5
  <2>3. \A b \in Place \ {h, w, r} : g[b] = f[b]
    BY <1>4
  <2>4. f[h] = Held(tab[t]) /\ f[w] = Prompts(toTab[t]) /\ f[r] = Prompts(toServer[c])
    BY <1>3
  <2>5. g[h] = Held(z) /\ g[w] = Prompts(ms) /\ g[r] = Prompts(q)
    BY <1>3
  <2> HIDE DEF f, g
  <2>6. \A b \in {h, w, r} : \A p \in g[b] : p \in N \/ \E a \in {h, w, r} : p \in f[a]
    <3>1. TAKE b \in {h, w, r}
    <3>2. TAKE p \in g[b]
    <3>3. p \in K
      BY <1>0, <2>5
    <3>4. p \in N \/ p \in f[h] \/ p \in f[w] \/ p \in f[r]
      BY <2>4, <3>3
    <3>5. QED
      BY <3>4
  <2>7. \A a, b \in {h, w, r} : a # b => g[a] \cap g[b] = {}
    BY <2>5
  <2>8. {h, w, r} \in SUBSET Place
    BY <1>3
  <2>9. \A a, b \in Place : a # b => g[a] \cap g[b] = {}
    BY <2>1, <2>2, <2>3, <2>6, <2>7, <2>8, SharedOut
  <2>10. \A a, b \in Place : a # b => In(a)' \cap In(b)' = {}
    BY <2>9 DEF g
  <2>11. QED
    BY <2>10 DEF Apart, Place
<1>7. K \subseteq asked' /\ Held(z) \subseteq K /\ Prompts(ms) \subseteq K /\ Prompts(q) \subseteq K
  BY <1>0, <1>3, <1>5
<1>8. Asked'
  <2>1. \A b \in Place : In(b)' \subseteq asked'
    BY <1>3, <1>4, <1>5, <1>7
  <2>2. QED
    BY <2>1 DEF Asked, Place
<1>9. AllOnce' /\ AllTidy'
  BY <1>1, <1>2 DEF PromptInv, AllOnce, AllTidy
<1>10. NoneVanish'
  <2>1. SUFFICES ASSUME NEW p \in asked', p \notin lost', \A s \in Tab : p \notin tab'[s].dropped
                 PROVE  \E b \in Place : p \in In(b)'
    BY DEF NoneVanish, Everywhere, Dropped, Place
  <2>2. CASE p \in K \cup tab[t].dropped
    <3>1. p \in Held(z) \cup Prompts(ms) \cup Prompts(q)
      BY <1>0, <1>2, <2>1, <2>2
    <3>2. QED
      BY <1>3, <3>1
  <2>3. CASE p \notin K \cup tab[t].dropped
    <3>1. p \in asked /\ p \notin lost
      BY <2>1, <2>3
    <3>2. p \in Everywhere \/ p \in Dropped
      BY <3>1 DEF PromptInv, NoneVanish
    <3>3. p \notin Dropped
      BY <1>2, <2>1, <2>3 DEF Dropped
    <3>4. PICK b \in Place : p \in In(b)
      BY <3>2, <3>3 DEF Everywhere
    <3>5. b \notin {h, w, r}
      BY <1>3, <2>3, <3>4
    <3>6. QED
      BY <1>4, <3>4, <3>5
  <2>4. QED
    BY <2>2, <2>3
<1>11. QED
  BY <1>6, <1>8, <1>9, <1>10 DEF PromptInv

\* A step that moves no prompt.
LEMMA NoPromptMoves ==
  ASSUME TypeOK, PromptInv, UNCHANGED <<tab, asked, lost>>,
         \A t \in Tab : Prompts(toTab'[t]) = Prompts(toTab[t]) /\ Once(toTab'[t]),
         \A c \in Conn : Prompts(toServer'[c]) = Prompts(toServer[c]) /\ Once(toServer'[c])
  PROVE  PromptInv'
<1>1. \A b \in Place : In(b)' = In(b)
  <2>1. TAKE b \in Place
  <2>2. CASE \E s \in Tab : b = <<"held", s>>
    <3>1. PICK s \in Tab : b = <<"held", s>>
      BY <2>2
    <3>2. In(<<"held", s>>)' = In(<<"held", s>>)
      BY InIs
    <3>3. QED
      BY <3>1, <3>2
  <2>3. CASE \E s \in Tab : b = <<"toTab", s>>
    <3>1. PICK s \in Tab : b = <<"toTab", s>>
      BY <2>3
    <3>2. In(<<"toTab", s>>)' = Prompts(toTab'[s]) /\ In(<<"toTab", s>>) = Prompts(toTab[s])
      BY InIs
    <3>3. Prompts(toTab'[s]) = Prompts(toTab[s])
      OBVIOUS
    <3>4. QED
      BY <3>1, <3>2, <3>3
  <2>4. CASE \E d \in Conn : b = <<"toServer", d>>
    <3>1. PICK d \in Conn : b = <<"toServer", d>>
      BY <2>4
    <3>2. In(<<"toServer", d>>)' = Prompts(toServer'[d]) /\ In(<<"toServer", d>>) = Prompts(toServer[d])
      BY InIs
    <3>3. Prompts(toServer'[d]) = Prompts(toServer[d])
      OBVIOUS
    <3>4. QED
      BY <3>1, <3>2, <3>3
  <2>5. QED
    BY <2>2, <2>3, <2>4, Places
<1>2. Apart' /\ Asked'
  BY <1>1 DEF PromptInv, Apart, Asked, Place
<1>3. AllOnce' /\ AllTidy'
  BY DEF PromptInv, AllOnce, AllTidy
<1>4. NoneVanish'
  <2>1. \A p : p \in Everywhere => p \in Everywhere'
    BY <1>1 DEF Everywhere, Place
  <2>2. Dropped' = Dropped
    BY DEF Dropped
  <2>3. QED
    BY <2>1, <2>2 DEF PromptInv, NoneVanish
<1>5. QED
  BY <1>2, <1>3, <1>4 DEF PromptInv

\* What has been sent is no longer to be.
LEMMA Emptied ==
  ASSUME NEW y \in TabState
  PROVE  LET z == [y EXCEPT !.out = <<>>]
         IN /\ z \in TabState /\ z.out = <<>> /\ Held(z) = Held(y) /\ z.dropped = y.dropped
            /\ (Tidy(y) => Tidy(z)) /\ y.out \in Seq(ToServer)
            /\ Same(y, z)
<1> DEFINE z == [y EXCEPT !.out = <<>>]
<1>1. /\ z.out = <<>> /\ z.text = y.text /\ z.queue = y.queue /\ z.took = y.took
      /\ z.dropped = y.dropped /\ z.claiming = y.claiming /\ z.stage = y.stage /\ y.out \in Seq(ToServer)
      /\ Same(y, z)
  BY DEF TabState, Same
<1>1a. z \in TabState
  <2> DEFINE none == <<>>
  <2>1. none \in Seq(ToServer)
    OBVIOUS
  <2>2. z = [y EXCEPT !.out = none]
    OBVIOUS
  <2> HIDE DEF none, z
  <2>3. QED
    BY <2>1, <2>2 DEF TabState
<1> HIDE DEF z
<1>2. Held(z) = Held(y) /\ (Tidy(y) => Tidy(z))
  BY <1>1 DEF Held, Tidy
<1>3. QED
  BY <1>1, <1>1a, <1>2 DEF z

\* A tab becomes y, given the prompts of J by what it read and those of N by its user.
LEMMA TabBecomes ==
  ASSUME TypeOK, PromptInv, NEW t \in Tab, NEW y \in TabState, Becomes(t, y),
         y.out = <<>> \/ Present(t) \in Conn, Tidy(y),
         NEW ms \in Seq(ToTab), toTab' = [toTab EXCEPT ![t] = ms], Once(ms),
         NEW J, Prompts(toTab[t]) = Prompts(ms) \cup J, J \cap Prompts(ms) = {},
         NEW N, asked' = asked \cup N, N \cap asked = {},
         lost \subseteq lost', Conserves(tab[t], J \cup N, y)
  PROVE  /\ tab' \in [Tab -> TabState] /\ toServer' \in [Conn -> Seq(ToServer)]
         /\ toTab' \in [Tab -> Seq(ToTab)] /\ PromptInv'
<1> DEFINE z == [y EXCEPT !.out = <<>>]
<1>1. tab \in [Tab -> TabState] /\ toTab \in [Tab -> Seq(ToTab)] /\ toServer \in [Conn -> Seq(ToServer)]
  BY DEF TypeOK
<1>2. /\ z \in TabState /\ z.out = <<>> /\ Held(z) = Held(y) /\ z.dropped = y.dropped
      /\ Tidy(z) /\ y.out \in Seq(ToServer)
  BY Emptied
<1>3. /\ tab' = [tab EXCEPT ![t] = z]
      /\ toServer' = IF y.out = <<>> THEN toServer ELSE [toServer EXCEPT ![Present(t)] = @ \o y.out]
  BY DEF Becomes
<1> HIDE DEF z
<1>4. PICK c \in Conn : y.out = <<>> \/ c = Present(t)
  <2>1. <<t, 1>> \in Conn
    BY BoundAssumption DEF Conn
  <2>2. QED
    BY <2>1
<1> DEFINE q == IF y.out = <<>> THEN toServer[c] ELSE toServer[c] \o y.out
<1>5. q \in Seq(ToServer) /\ toServer' = [toServer EXCEPT ![c] = q]
  <2>1. toServer[c] \in Seq(ToServer)
    BY <1>1
  <2>2. CASE y.out = <<>>
    BY <1>1, <1>3, <2>1, <2>2
  <2>3. CASE y.out # <<>>
    <3>1. toServer[c] \o y.out \in Seq(ToServer)
      BY <1>2, <2>1
    <3>2. Present(t) = c
      BY <1>4, <2>3
    <3>3. toServer' = [toServer EXCEPT ![c] = toServer[c] \o y.out]
      BY <1>3, <2>3, <3>2
    <3>4. QED
      BY <2>3, <3>1, <3>3
  <2>4. QED
    BY <2>2, <2>3
<1>6. /\ Held(tab[t]) \subseteq asked /\ Prompts(toTab[t]) \subseteq asked /\ Prompts(toServer[c]) \subseteq asked
      /\ Held(tab[t]) \cap Prompts(toTab[t]) = {} /\ Held(tab[t]) \cap Prompts(toServer[c]) = {}
      /\ Prompts(toTab[t]) \cap Prompts(toServer[c]) = {}
  <2>1. <<"held", t>> \in Place /\ <<"toTab", t>> \in Place /\ <<"toServer", c>> \in Place
    BY Places
  <2>2. /\ In(<<"held", t>>) = Held(tab[t]) /\ In(<<"toTab", t>>) = Prompts(toTab[t])
        /\ In(<<"toServer", c>>) = Prompts(toServer[c])
    BY InIs
  <2>3. <<"held", t>> # <<"toTab", t>> /\ <<"held", t>> # <<"toServer", c>> /\ <<"toTab", t>> # <<"toServer", c>>
    OBVIOUS
  <2>4. QED
    BY <2>1, <2>2, <2>3 DEF PromptInv, Asked, Apart
<1>7. /\ Held(y) \cup Prompts(y.out) \subseteq Held(tab[t]) \cup J \cup N
      /\ Held(tab[t]) \cup J \cup N \cup tab[t].dropped \subseteq Held(y) \cup Prompts(y.out) \cup y.dropped
      /\ Held(y) \cap Prompts(y.out) = {} /\ Once(y.out)
  BY DEF Conserves
<1>8. Prompts(q) = Prompts(toServer[c]) \cup Prompts(y.out) /\ Once(q)
  <2>1. toServer[c] \in Seq(ToServer) /\ Once(toServer[c])
    BY <1>1 DEF PromptInv, AllOnce
  <2>2. Prompts(toServer[c]) \cap Prompts(y.out) = {}
    BY <1>6, <1>7
  <2>3. CASE y.out = <<>>
    BY <2>1, <2>3, PromptsOfNone
  <2>4. CASE y.out # <<>>
    <3>1. /\ Prompts(toServer[c] \o y.out) = Prompts(toServer[c]) \cup Prompts(y.out)
          /\ Once(toServer[c] \o y.out)
      BY <1>2, <1>7, <2>1, <2>2, PromptsOfJoin
    <3>2. QED
      BY <2>4, <3>1
  <2>5. QED
    BY <2>3, <2>4
<1> HIDE DEF q
<1>9. /\ Held(z) \cup Prompts(ms) \cup Prompts(q) \subseteq Pool(t, c, N)
      /\ Held(z) \cap Prompts(ms) = {} /\ Held(z) \cap Prompts(q) = {} /\ Prompts(ms) \cap Prompts(q) = {}
      /\ Pool(t, c, N) \cup tab[t].dropped \subseteq Held(z) \cup Prompts(ms) \cup Prompts(q) \cup z.dropped \cup lost'
  BY <1>2, <1>6, <1>7, <1>8 DEF Pool
<1>10. PromptInv'
  BY <1>2, <1>3, <1>5, <1>8, <1>9, GroupStep
<1>11. QED
  BY <1>1, <1>2, <1>3, <1>5, <1>10
-----------------------------------------------------------------------------
(* What a tab will have read. *)

LEMMA UptoIs ==
  ASSUME NEW es, NEW ms, NEW j, NEW e
  PROVE  e \in Upto(es, ms, j) <=> e \in es \/ \E i \in 1 .. j : e \in Shows(ms[i])
BY DEF Upto

\* Messages that are put at the end are read last.
LEMMA UptoJoin ==
  ASSUME NEW es, NEW ms \in Seq(ToTab), NEW ns \in Seq(ToTab)
  PROVE  /\ \A j \in 0 .. Len(ms) : Upto(es, ms \o ns, j) = Upto(es, ms, j)
         /\ \A j \in 0 .. Len(ns) : Upto(es, ms \o ns, Len(ms) + j) = Upto(es, ms, Len(ms)) \cup Upto({}, ns, j)
<1>1. /\ Len(ms) \in Nat /\ Len(ns) \in Nat
      /\ \A i \in 1 .. Len(ms) : (ms \o ns)[i] = ms[i]
      /\ \A i \in 1 .. Len(ns) : (ms \o ns)[Len(ms) + i] = ns[i]
  OBVIOUS
<1>2. ASSUME NEW j \in 0 .. Len(ms) PROVE Upto(es, ms \o ns, j) = Upto(es, ms, j)
  <2>1. \A i \in 1 .. j : (ms \o ns)[i] = ms[i]
    BY <1>1
  <2>2. \A e : e \in Upto(es, ms \o ns, j) <=> e \in Upto(es, ms, j)
    <3>1. TAKE e
    <3>2. e \in Upto(es, ms \o ns, j) <=> e \in es \/ \E i \in 1 .. j : e \in Shows((ms \o ns)[i])
      BY UptoIs
    <3>3. e \in Upto(es, ms, j) <=> e \in es \/ \E i \in 1 .. j : e \in Shows(ms[i])
      BY UptoIs
    <3>4. \A i \in 1 .. j : Shows((ms \o ns)[i]) = Shows(ms[i])
      BY <2>1
    <3>5. QED
      BY <3>2, <3>3, <3>4
  <2>3. QED
    BY <2>2
<1>3. ASSUME NEW j \in 0 .. Len(ns)
      PROVE  Upto(es, ms \o ns, Len(ms) + j) = Upto(es, ms, Len(ms)) \cup Upto({}, ns, j)
  <2>1. \A e : e \in Upto(es, ms \o ns, Len(ms) + j) <=> e \in Upto(es, ms, Len(ms)) \cup Upto({}, ns, j)
    <3>1. TAKE e
    <3>2. e \in Upto(es, ms \o ns, Len(ms) + j) <=> e \in es \/ \E i \in 1 .. Len(ms) + j : e \in Shows((ms \o ns)[i])
      BY UptoIs
    <3>3. e \in Upto(es, ms, Len(ms)) <=> e \in es \/ \E i \in 1 .. Len(ms) : e \in Shows(ms[i])
      BY UptoIs
    <3>4. e \in Upto({}, ns, j) <=> e \in {} \/ \E i \in 1 .. j : e \in Shows(ns[i])
      BY UptoIs
    <3>5. \A i \in 1 .. Len(ms) : Shows((ms \o ns)[i]) = Shows(ms[i])
      BY <1>1
    <3>6. \A i \in 1 .. j : Shows((ms \o ns)[Len(ms) + i]) = Shows(ns[i]) /\ Len(ms) + i \in 1 .. Len(ms) + j
      BY <1>1
    <3>7. \A i \in 1 .. Len(ms) + j : i \in 1 .. Len(ms) \/ (i - Len(ms) \in 1 .. j /\ Len(ms) + (i - Len(ms)) = i)
      BY <1>1
    <3>8. \A i \in 1 .. Len(ms) : i \in 1 .. Len(ms) + j
      BY <1>1
    <3>9. (\E i \in 1 .. Len(ms) + j : e \in Shows((ms \o ns)[i]))
            <=> (\E i \in 1 .. Len(ms) : e \in Shows(ms[i])) \/ (\E i \in 1 .. j : e \in Shows(ns[i]))
      BY <3>5, <3>6, <3>7, <3>8
    <3>10. QED
      BY <3>2, <3>3, <3>4, <3>9
  <2>2. QED
    BY <2>1
<1>4. QED
  BY <1>2, <1>3

\* Reading a message takes the rest one nearer, and only what it clears is lost.
LEMMA UptoTail ==
  ASSUME NEW es, NEW ms \in Seq(ToTab), ms # <<>>, NEW j \in 0 .. Len(ms) - 1,
         NEW kept, kept = {e \in es \cup Shows(Head(ms)) : e.seq > ClearsTo(Head(ms))}
  PROVE  /\ Upto(kept, Tail(ms), j) \subseteq Upto(es, ms, j + 1)
         /\ \A e \in Upto(es, ms, j + 1) : e.seq > ClearsTo(Head(ms)) => e \in Upto(kept, Tail(ms), j)
<1>1. /\ Len(ms) \in Nat \ {0} /\ Head(ms) = ms[1] /\ Len(Tail(ms)) = Len(ms) - 1
      /\ \A i \in 1 .. Len(ms) - 1 : Tail(ms)[i] = ms[i + 1]
  OBVIOUS
<1>2. \A i \in 1 .. j : Shows(Tail(ms)[i]) = Shows(ms[i + 1]) /\ i + 1 \in 1 .. j + 1
  BY <1>1
<1>3. \A i \in 1 .. j + 1 : i # 1 => i - 1 \in 1 .. j /\ (i - 1) + 1 = i
  BY <1>1
<1>4. 1 \in 1 .. j + 1
  BY <1>1
<1>5. ASSUME NEW e
      PROVE  /\ e \in Upto(kept, Tail(ms), j) => e \in Upto(es, ms, j + 1)
             /\ e \in Upto(es, ms, j + 1) /\ e.seq > ClearsTo(Head(ms)) => e \in Upto(kept, Tail(ms), j)
  <2>1. e \in Upto(kept, Tail(ms), j) <=> e \in kept \/ \E i \in 1 .. j : e \in Shows(Tail(ms)[i])
    BY UptoIs
  <2>2. e \in Upto(es, ms, j + 1) <=> e \in es \/ \E i \in 1 .. j + 1 : e \in Shows(ms[i])
    BY UptoIs
  <2>3. (\E i \in 1 .. j + 1 : e \in Shows(ms[i]))
          <=> e \in Shows(Head(ms)) \/ \E i \in 1 .. j : e \in Shows(Tail(ms)[i])
    BY <1>1, <1>2, <1>3, <1>4
  <2>4. QED
    BY <2>1, <2>2, <2>3
<1>6. QED
  BY <1>5

\* What a tab shows and will show.
LEMMA CopiedIs ==
  ASSUME NEW es \in SUBSET Entry, NEW ms \in Seq(ToTab)
  PROVE  /\ Copied(es, ms) \in SUBSET Entry /\ es \subseteq Copied(es, ms)
         /\ \A i \in DOMAIN ms : Shows(ms[i]) \subseteq Copied(es, ms)
         /\ \A e : e \in Copied(es, ms) <=> e \in es \/ \E i \in DOMAIN ms : e \in Shows(ms[i])
         /\ \A j \in 0 .. Len(ms) : es \subseteq Upto(es, ms, j) /\ Upto(es, ms, j) \subseteq Copied(es, ms)
         /\ Upto(es, ms, 0) = es
<1>1. DOMAIN ms = 1 .. Len(ms) /\ Len(ms) \in Nat /\ \A i \in 1 .. Len(ms) : ms[i] \in ToTab
  OBVIOUS
<1>2. \A i \in 1 .. Len(ms) : Shows(ms[i]) \subseteq Entry
  BY <1>1, ToTabFields DEF Shows
<1>3. \A e : e \in Copied(es, ms) <=> e \in es \/ \E i \in 1 .. Len(ms) : e \in Shows(ms[i])
  BY UptoIs DEF Copied
<1>4. ASSUME NEW j \in 0 .. Len(ms), NEW e \in Upto(es, ms, j) PROVE e \in Copied(es, ms)
  <2>1. e \in es \/ \E i \in 1 .. j : e \in Shows(ms[i])
    BY <1>4, UptoIs
  <2>2. \A i \in 1 .. j : i \in 1 .. Len(ms)
    BY <1>1
  <2>3. QED
    BY <1>3, <2>1, <2>2
<1>5. Upto(es, ms, 0) = es
  BY DEF Upto
<1>6. \A j \in 0 .. Len(ms) : es \subseteq Upto(es, ms, j)
  BY UptoIs
<1>7. QED
  BY <1>1, <1>2, <1>3, <1>4, <1>5, <1>6

LEMMA DbFields ==
  ASSUME NEW d \in Db
  PROVE  /\ \A e \in Entry : e.seq \in 1 .. MaxSeq /\ e.seq \in Nat /\ e.seq > 0 /\ e.through \in 0 .. MaxSeq
         /\ d.log \in SUBSET Entry /\ d.last \in 0 .. MaxSeq /\ d.cleared \in 0 .. MaxSeq
         /\ d.last \in Nat /\ d.cleared \in Nat
BY BoundAssumption DEF Db, Entry, Seqs
-----------------------------------------------------------------------------
(* What the tab does leaves its copy whole. *)

\* Whatever a tab sends but its attach.
Sayable(d, es, m) == m.t # "attach" /\ (m.t = "history" => Marks(d, es, m.before))

\* A tab that goes on with the copy it has; of what it has sent some may have been read.
LEMMA SoundActs ==
  ASSUME NEW d, NEW x, NEW y, NEW ms, NEW q, NEW r,
         TabSound(d, x, ms, q), y.status = x.status, y.entries = x.entries, y.synced = x.synced, y.torn = x.torn,
         y.fold <= d.last, x.status = "connecting" => r = q,
         x.status = "open" =>
           \A i \in DOMAIN r : (\E j \in DOMAIN q : q[j] = r[i]) \/ Sayable(d, x.entries, r[i])
  PROVE  TabSound(d, y, ms, r)
<1>1. Attaching(y, r) => Attaching(x, q)
  BY DEF Attaching, Sayable
<1>2. ASSUME x.status = "open", Whole(d, x, ms, q), NEW i \in DOMAIN r
      PROVE  /\ r[i].t = "attach" => WholeThrough(d, x.entries, ms, r[i].after)
             /\ r[i].t = "history" => Marks(d, x.entries, r[i].before)
  BY <1>2 DEF Whole, Sayable
<1>3. Whole(d, x, ms, q) => Whole(d, y, ms, r)
  BY <1>2 DEF Whole
<1>4. QED
  BY <1>1, <1>3 DEF TabSound, Unsynced

\* onopen: the tab attaches after its last entry.
LEMMA SoundOpened ==
  ASSUME NEW d, NEW x, NEW y, NEW ms, NEW q, NEW r, NEW m,
         TabSound(d, x, ms, q), x.status = "connecting",
         y.status = "open", y.entries = x.entries, ~y.synced, y.torn = x.torn, y.fold = x.fold,
         m.t = "attach", m.after = Largest(Seqnos(x.entries)), \A i \in DOMAIN r : r[i] = m
  PROVE  TabSound(d, y, ms, r)
<1>1. Unsynced(x, ms) /\ Unsynced(y, ms)
  BY DEF TabSound, Attaching, Unsynced
<1>2. Whole(d, x, ms, q) => Whole(d, y, ms, r)
  BY <1>1 DEF Whole, Unsynced
<1>3. QED
  BY <1>1, <1>2 DEF TabSound

\* onclose: there is no hole in the copy of a tab that was synced, nor in any that
\* was not torn.
LEMMA SoundClosed ==
  ASSUME NEW d \in Db, NEW x \in TabState, NEW y, NEW ms \in Seq(ToTab), NEW q, NEW r,
         TabSound(d, x, ms, q), y.status = "closed", y.entries = x.entries, ~y.synced, y.fold = x.fold,
         ~y.torn => ~x.torn /\ (x.synced \/ NoHole(d, x.entries)), x.synced => x.status = "open"
  PROVE  TabSound(d, y, <<>>, r)
<1>1. x.entries \in SUBSET Entry
  BY DEF TabState
<1>2. Copied(x.entries, ms) \in SUBSET Entry /\ x.entries \subseteq Copied(x.entries, ms) /\ Upto(x.entries, ms, 0) = x.entries
  BY <1>1, CopiedIs
<1>3. Copied(x.entries, <<>>) = x.entries
  BY DEF Copied, Upto
<1>4. Known(d, Copied(x.entries, <<>>))
  BY <1>2, <1>3 DEF TabSound, Known
<1>5. ASSUME ~y.torn PROVE NoHole(d, x.entries)
  <2>1. CASE x.synced
    <3>1. WholeFrom(d, x.entries, ms, 0)
      BY <1>5, <2>1 DEF TabSound, Whole
    <3>2. 0 \in 0 .. Len(ms)
      OBVIOUS
    <3>3. QED
      BY <1>2, <3>1, <3>2 DEF WholeFrom
  <2>2. QED
    BY <1>5, <2>1
<1>6. QED
  BY <1>4, <1>5 DEF TabSound, Whole, Attaching

\* Connect: what was cleared meanwhile is told by the hello, and what the tab lacks of
\* what it had heard is older than what it has.
LEMMA SoundConnect ==
  ASSUME NEW d \in Db, LogSound(d), NEW x \in TabState, NEW y, NEW ms, NEW q, NEW m \in ToTab,
         TabSound(d, x, ms, q), x.status = "closed",
         y.status = "connecting", y.entries = x.entries, y.synced = x.synced, y.torn = x.torn, y.fold = x.fold,
         m.t = "hello", m.cleared = d.cleared
  PROVE  TabSound(d, y, <<m>>, <<>>)
<1> DEFINE es == x.entries
           a == Largest(Seqnos(es))
<1>1. es \in SUBSET Entry /\ d.cleared \in 0 .. MaxSeq /\ \A e \in Entry : e.seq \in 1 .. MaxSeq
  BY DbFields DEF TabState
<1>2. /\ ms = <<>> /\ ~x.synced /\ Known(d, Copied(es, ms)) /\ x.fold <= d.last
      /\ ~x.torn => NoHole(d, es)
  BY DEF TabSound, Whole
<1>3. Shows(m) = {} /\ ClearsTo(m) = d.cleared
  BY DEF Shows, ClearsTo
<1> DEFINE ns == <<m>>
<1>4. Len(ns) = 1 /\ DOMAIN ns = {1} /\ ns[1] = m /\ ns \in Seq(ToTab)
  OBVIOUS
<1> HIDE DEF ns
<1>5. Copied(es, <<>>) = es /\ Copied(es, ns) = es
  <2>1. \A e : e \in Copied(es, ns) <=> e \in es
    BY <1>1, <1>3, <1>4, CopiedIs
  <2>2. QED
    BY <2>1 DEF Copied, Upto
<1>6. Told(d, es, ns)
  <2>1. \A e \in es : e.seq > d.cleared \/ d.cleared >= e.seq
    BY <1>1
  <2>2. QED
    BY <1>3, <1>4, <2>1 DEF Told
<1>7. ASSUME ~x.torn PROVE WholeThrough(d, es, ns, a)
  <2>1. Seqnos(es) \in SUBSET (0 .. MaxSeq) /\ \A e \in es : e.seq \in Seqnos(es)
    BY <1>1 DEF Seqnos
  <2>2. a \in 0 .. MaxSeq /\ a \in Seqnos(es) \cup {0} /\ \A n \in Seqnos(es) : n <= a
    BY <2>1, LargestIs
  <2> HIDE DEF a
  <2>3. a = 0 \/ Marks(d, es, a)
    BY <2>2 DEF Marks, Seqnos
  <2>4. ASSUME NEW e \in d.log \ es, a = 0 \/ e.seq <= a, NEW f \in es, ~(f.seq > e.seq) PROVE FALSE
    <3>1. d.log \in SUBSET Entry /\ f.seq \in 1 .. MaxSeq /\ e.seq \in 1 .. MaxSeq
      BY <1>1, <2>4, DbFields
    <3>2. f.seq \in Seqnos(es) /\ a >= f.seq /\ a # 0
      BY <2>1, <2>2, <2>4, <3>1
    <3>3. PICK g \in es : g.seq = a
      BY <2>2, <3>2 DEF Seqnos
    <3>4. g.seq \in 1 .. MaxSeq
      BY <1>1
    <3>5. \A h \in es : h.seq # e.seq
      BY <1>1, <1>2, <1>5, <2>4, <3>1 DEF Known, LogSound
    <3>6. f.seq < e.seq /\ e.seq < g.seq
      BY <2>2, <2>4, <3>1, <3>2, <3>3, <3>4, <3>5
    <3>7. QED
      BY <1>2, <1>7, <2>4, <3>6 DEF NoHole
  <2>5. QED
    BY <1>5, <2>3, <2>4 DEF WholeThrough, Missing, Below
<1>8. /\ Unsynced(y, ns) /\ \A i \in DOMAIN ns : ClearsTo(ns[i]) <= d.cleared
      /\ Known(d, Copied(es, ns)) /\ y.fold <= d.last
  BY <1>1, <1>2, <1>3, <1>4, <1>5 DEF Unsynced
<1>9. ~y.torn => Whole(d, y, ns, <<>>)
  BY <1>7 DEF Whole
<1>10. QED
  BY <1>6, <1>8, <1>9 DEF TabSound, ns
-----------------------------------------------------------------------------
(* What a tab reads leaves its copy whole. *)

LEMMA TailIs ==
  ASSUME NEW S, NEW ms \in Seq(S), ms # <<>>
  PROVE  /\ Tail(ms) \in Seq(S) /\ Head(ms) \in S /\ Len(ms) \in Nat \ {0} /\ Len(Tail(ms)) = Len(ms) - 1
         /\ DOMAIN ms = 1 .. Len(ms) /\ DOMAIN Tail(ms) = 1 .. Len(ms) - 1
         /\ \A i \in 1 .. Len(ms) - 1 : Tail(ms)[i] = ms[i + 1] /\ i + 1 \in 1 .. Len(ms)
         /\ \A i \in 1 .. Len(ms) : i # 1 => i - 1 \in 1 .. Len(ms) - 1 /\ Tail(ms)[i - 1] = ms[i]
         /\ 1 \in 1 .. Len(ms) /\ Head(ms) = ms[1]
OBVIOUS

LEMMA SoundRead ==
  ASSUME NEW d \in Db, LogSound(d), NEW x \in TabState, NEW y, NEW ms \in Seq(ToTab), ms # <<>>, NEW q,
         TabSound(d, x, ms, q), x.status = "open",
         y.status = x.status, y.torn = x.torn, y.fold = x.fold,
         y.entries = {e \in x.entries \cup Shows(Head(ms)) : e.seq > ClearsTo(Head(ms))},
         y.synced = (x.synced \/ Head(ms).t = "synced")
  PROVE  TabSound(d, y, Tail(ms), q)
<1> DEFINE m == Head(ms)
           ns == Tail(ms)
           es == x.entries
           fs == y.entries
           n == Len(ms)
<1>1. /\ ns \in Seq(ToTab) /\ m \in ToTab /\ n \in Nat \ {0} /\ Len(ns) = n - 1
      /\ DOMAIN ms = 1 .. n /\ DOMAIN ns = 1 .. n - 1
      /\ \A i \in 1 .. n - 1 : ns[i] = ms[i + 1] /\ i + 1 \in 1 .. n
      /\ \A i \in 1 .. n : i # 1 => i - 1 \in 1 .. n - 1 /\ ns[i - 1] = ms[i]
      /\ 1 \in 1 .. n /\ m = ms[1]
  BY TailIs
<1>2. es \in SUBSET Entry /\ Shows(m) \in SUBSET Entry /\ fs \in SUBSET Entry
  BY <1>1, ToTabFields DEF TabState, Shows
<1>3. fs = {e \in es \cup Shows(m) : e.seq > ClearsTo(m)}
  OBVIOUS
<1>4. /\ Known(d, Copied(es, ms)) /\ \A i \in 1 .. n : ClearsTo(ms[i]) <= d.cleared
      /\ Told(d, es, ms) /\ (Attaching(x, q) => Unsynced(x, ms)) /\ (~x.torn => Whole(d, x, ms, q))
  BY <1>1 DEF TabSound
<1>5. ASSUME NEW j \in 0 .. n - 1
      PROVE  /\ Upto(fs, ns, j) \subseteq Upto(es, ms, j + 1)
             /\ \A e \in Upto(es, ms, j + 1) : e.seq > ClearsTo(m) => e \in Upto(fs, ns, j)
  BY <1>1, <1>3, UptoTail
<1> HIDE DEF m, ns, fs, n
<1>6. ClearsTo(m) <= d.cleared /\ ClearsTo(m) \in Nat /\ d.cleared \in Nat
  BY <1>1, <1>4, ToTabFields, DbFields, BoundAssumption DEF ClearsTo
<1>7. /\ \A e \in d.log : e \in Entry /\ e.seq > ClearsTo(m)
      /\ \A e \in Entry : e.seq \in Nat
  <2>1. \A e \in d.log : e \in Entry /\ d.cleared < e.seq /\ e.seq \in Nat
    BY DbFields DEF LogSound
  <2>2. QED
    BY <1>6, <2>1, DbFields
<1>8. ASSUME NEW j \in 0 .. n - 1
      PROVE  \A e \in d.log : e \in Upto(fs, ns, j) <=> e \in Upto(es, ms, j + 1)
  BY <1>5, <1>7
<1>9. Copied(fs, ns) \subseteq Copied(es, ms) /\ Missing(d, fs, ns) = Missing(d, es, ms)
  <2>1. n - 1 \in 0 .. n - 1 /\ (n - 1) + 1 = n
    BY <1>1
  <2>2. Copied(fs, ns) = Upto(fs, ns, n - 1) /\ Copied(es, ms) = Upto(es, ms, n)
    BY <1>1 DEF Copied, n
  <2>3. QED
    BY <1>5, <1>8, <2>1, <2>2 DEF Missing
<1>10. Known(d, Copied(fs, ns))
  BY <1>4, <1>9 DEF Known
<1>11. \A i \in DOMAIN ns : ClearsTo(ns[i]) <= d.cleared
  BY <1>1, <1>4
<1>12. Told(d, fs, ns)
  <2>1. ASSUME NEW e \in fs, ~(e.seq > d.cleared) PROVE \E k \in DOMAIN ns : ClearsTo(ns[k]) >= e.seq
    <3>1. e \in es \cup Shows(m) /\ e.seq > ClearsTo(m) /\ e.seq \in Nat
      BY <1>2, <1>3, <1>7, <2>1
    <3>2. PICK k \in 1 .. n : ClearsTo(ms[k]) >= e.seq
      BY <1>1, <1>4, <2>1, <3>1 DEF Told
    <3>3. k # 1
      BY <1>1, <1>6, <3>1, <3>2
    <3>4. QED
      BY <1>1, <3>2, <3>3
  <2>2. ASSUME NEW i \in DOMAIN ns, NEW e \in Shows(ns[i]), ~(e.seq > d.cleared)
        PROVE  \E k \in DOMAIN ns : k > i /\ ClearsTo(ns[k]) >= e.seq
    <3>1. i \in 1 .. n - 1 /\ ns[i] = ms[i + 1] /\ i + 1 \in DOMAIN ms
      BY <1>1
    <3>2. PICK k \in 1 .. n : k > i + 1 /\ ClearsTo(ms[k]) >= e.seq
      BY <1>1, <1>4, <2>2, <3>1 DEF Told
    <3>3. k # 1 /\ k - 1 > i
      BY <1>1, <3>1, <3>2
    <3>4. QED
      BY <1>1, <3>2, <3>3
  <2>3. QED
    BY <2>1, <2>2 DEF Told
<1>13. Attaching(y, q) => Unsynced(y, ns)
  <2>1. Attaching(y, q) => Unsynced(x, ms)
    BY <1>4 DEF Attaching
  <2>2. ASSUME Unsynced(x, ms) PROVE Unsynced(y, ns)
    <3>1. m.t # "synced" /\ ~x.synced /\ \A k \in 1 .. n : ms[k].t \notin {"synced", "history"}
      BY <1>1, <2>2 DEF Unsynced
    <3>2. \A k \in DOMAIN ns : ns[k].t \notin {"synced", "history"}
      BY <1>1, <3>1
    <3>3. ~y.synced
      BY <3>1 DEF m
    <3>4. QED
      BY <3>2, <3>3 DEF Unsynced
  <2>3. QED
    BY <2>1, <2>2
<1>14. ASSUME NEW a, Marks(d, es, a) PROVE Marks(d, fs, a)
  <2>1. \A f \in es : f.seq > ClearsTo(m) => f \in fs
    BY <1>3
  <2>2. \A f \in es : ~(f.seq > ClearsTo(m)) => f.seq <= d.cleared
    BY <1>2, <1>6, <1>7
  <2>3. QED
    BY <1>14, <2>1, <2>2 DEF Marks
<1>14a. ASSUME NEW a, WholeThrough(d, es, ms, a) PROVE WholeThrough(d, fs, ns, a)
  BY <1>9, <1>14, <1>14a DEF WholeThrough, Below
<1>15. ASSUME NEW k \in 0 .. n - 1, WholeFrom(d, es, ms, k + 1) PROVE WholeFrom(d, fs, ns, k)
  <2>1. \A e \in Missing(d, fs, ns) : Below(Copied(fs, ns), e)
    BY <1>9, <1>15 DEF WholeFrom, Below
  <2>2. ASSUME NEW j \in k .. Len(ns)
        PROVE  /\ NoHole(d, Upto(fs, ns, j))
               /\ Missing(d, fs, ns) # {} => Upto(fs, ns, j) \cap d.log # {}
    <3>1. j \in 0 .. n - 1 /\ j + 1 \in k + 1 .. Len(ms)
      BY <1>1, <2>2 DEF n
    <3>2. /\ NoHole(d, Upto(es, ms, j + 1))
          /\ Missing(d, es, ms) # {} => Upto(es, ms, j + 1) \cap d.log # {}
      BY <1>15, <3>1 DEF WholeFrom
    <3>3. NoHole(d, Upto(fs, ns, j))
      BY <1>5, <1>8, <3>1, <3>2 DEF NoHole
    <3>4. QED
      BY <1>8, <1>9, <3>1, <3>2, <3>3
  <2>3. QED
    BY <2>1, <2>2 DEF WholeFrom
<1>16. ASSUME ~y.torn PROVE Whole(d, y, ns, q)
  <2>1. Whole(d, x, ms, q)
    BY <1>4, <1>16
  <2>2. ASSUME NEW i \in DOMAIN q
        PROVE  /\ q[i].t = "attach" => WholeThrough(d, fs, ns, q[i].after)
               /\ q[i].t = "history" => Marks(d, fs, q[i].before)
    BY <1>14, <1>14a, <2>1, <2>2 DEF Whole
  <2>3. ASSUME y.synced PROVE WholeFrom(d, fs, ns, 0)
    <3>1. CASE x.synced
      <4>1. WholeFrom(d, es, ms, 0)
        BY <2>1, <3>1 DEF Whole
      <4>2. WholeFrom(d, es, ms, 1)
        BY <1>1, <4>1 DEF WholeFrom
      <4>3. QED
        BY <1>1, <1>15, <4>2
    <3>2. CASE m.t = "synced"
      <4>1. WholeFrom(d, es, ms, 1)
        BY <1>1, <2>1, <3>2 DEF Whole
      <4>2. QED
        BY <1>1, <1>15, <4>1
    <3>3. QED
      BY <2>3, <3>1, <3>2 DEF m
  <2>4. ASSUME NEW k \in DOMAIN ns, ns[k].t = "synced" PROVE WholeFrom(d, fs, ns, k)
    <3>1. k \in 1 .. n - 1 /\ k + 1 \in DOMAIN ms /\ ms[k + 1].t = "synced"
      BY <1>1, <2>4
    <3>2. WholeFrom(d, es, ms, k + 1)
      BY <2>1, <3>1 DEF Whole
    <3>3. k \in 0 .. n - 1
      BY <1>1, <3>1
    <3>4. QED
      BY <1>15, <3>2, <3>3
  <2>5. QED
    BY <2>2, <2>3, <2>4 DEF Whole, fs
<1>17. QED
  BY <1>10, <1>11, <1>12, <1>13, <1>16 DEF TabSound, fs, ns
-----------------------------------------------------------------------------
(* What the server posts leaves the copies whole. *)

LEMMA JoinIs ==
  ASSUME NEW S, NEW ms \in Seq(S), NEW ns \in Seq(S)
  PROVE  /\ ms \o ns \in Seq(S) /\ Len(ms) \in Nat /\ Len(ns) \in Nat /\ Len(ms \o ns) = Len(ms) + Len(ns)
         /\ DOMAIN ms = 1 .. Len(ms) /\ DOMAIN ns = 1 .. Len(ns) /\ DOMAIN (ms \o ns) = 1 .. Len(ms) + Len(ns)
         /\ \A i \in 1 .. Len(ms) : i \in 1 .. Len(ms) + Len(ns) /\ (ms \o ns)[i] = ms[i]
         /\ \A i \in 1 .. Len(ns) : Len(ms) + i \in 1 .. Len(ms) + Len(ns) /\ (ms \o ns)[Len(ms) + i] = ns[i]
         /\ \A i \in 1 .. Len(ms) + Len(ns) : i > Len(ms) => i - Len(ms) \in 1 .. Len(ns) /\ (ms \o ns)[i] = ns[i - Len(ms)]
OBVIOUS

\* The copy of one who is sent more.
LEMMA CopiedJoin ==
  ASSUME NEW es \in SUBSET Entry, NEW ms \in Seq(ToTab), NEW ns \in Seq(ToTab)
  PROVE  /\ \A j \in 0 .. Len(ms) : Upto(es, ms \o ns, j) = Upto(es, ms, j)
         /\ \A j \in 0 .. Len(ns) : /\ Copied(es, ms) \subseteq Upto(es, ms \o ns, Len(ms) + j)
                                    /\ Upto(es, ms \o ns, Len(ms) + j) \subseteq Copied(es, ms) \cup Copied({}, ns)
         /\ Copied(es, ms \o ns) = Copied(es, ms) \cup Copied({}, ns)
<1>1. Len(ms \o ns) = Len(ms) + Len(ns) /\ Len(ns) \in Nat /\ Len(ms) \in Nat
  BY JoinIs
<1>2. /\ \A j \in 0 .. Len(ms) : Upto(es, ms \o ns, j) = Upto(es, ms, j)
      /\ \A j \in 0 .. Len(ns) : Upto(es, ms \o ns, Len(ms) + j) = Upto(es, ms, Len(ms)) \cup Upto({}, ns, j)
  BY UptoJoin
<1>3. \A j \in 0 .. Len(ns) : Upto({}, ns, j) \subseteq Copied({}, ns)
  BY CopiedIs
<1>4. Len(ns) \in 0 .. Len(ns)
  BY <1>1
<1>5. QED
  BY <1>1, <1>2, <1>3, <1>4 DEF Copied

\* What was told stays told.
LEMMA ToldJoin ==
  ASSUME NEW d \in Db, NEW es, NEW ms \in Seq(ToTab), NEW ns \in Seq(ToTab), Told(d, es, ms),
         \A e \in Copied({}, ns) : e.seq > d.cleared
  PROVE  Told(d, es, ms \o ns)
<1>1. /\ Len(ms) \in Nat /\ Len(ns) \in Nat
      /\ DOMAIN ms = 1 .. Len(ms) /\ DOMAIN ns = 1 .. Len(ns) /\ DOMAIN (ms \o ns) = 1 .. Len(ms) + Len(ns)
      /\ \A i \in 1 .. Len(ms) : i \in 1 .. Len(ms) + Len(ns) /\ (ms \o ns)[i] = ms[i]
      /\ \A i \in 1 .. Len(ms) + Len(ns) : i > Len(ms) => i - Len(ms) \in 1 .. Len(ns) /\ (ms \o ns)[i] = ns[i - Len(ms)]
  BY JoinIs
<1>2. \A e \in es : e.seq > d.cleared \/ \E k \in DOMAIN (ms \o ns) : ClearsTo((ms \o ns)[k]) >= e.seq
  BY <1>1 DEF Told
<1>3. ASSUME NEW i \in DOMAIN (ms \o ns), NEW e \in Shows((ms \o ns)[i])
      PROVE  e.seq > d.cleared \/ \E k \in DOMAIN (ms \o ns) : k > i /\ ClearsTo((ms \o ns)[k]) >= e.seq
  <2>1. CASE i \in 1 .. Len(ms)
    BY <1>1, <1>3, <2>1 DEF Told
  <2>2. CASE i > Len(ms)
    <3>1. i - Len(ms) \in 1 .. Len(ns) /\ e \in Shows(ns[i - Len(ms)])
      BY <1>1, <1>3, <2>2
    <3>2. e \in Copied({}, ns)
      BY <3>1, UptoIs DEF Copied
    <3>3. QED
      BY <3>2
  <2>3. QED
    BY <1>1, <1>3, <2>1, <2>2
<1>4. QED
  BY <1>2, <1>3 DEF Told

\* A new entry, the one of N if any, is told to everybody connected.
LEMMA SoundPosts ==
  ASSUME NEW d \in Db, NEW dd \in Db, LogSound(d), NEW N \in SUBSET Entry, dd.log = d.log \cup N,
         dd.cleared = d.cleared, d.last <= dd.last, \A e \in N : d.last < e.seq /\ e.seq <= dd.last,
         \A e, f \in N : e = f,
         NEW x \in TabState, NEW ms \in Seq(ToTab), NEW ns \in Seq(ToTab), NEW q,
         \A i \in DOMAIN ns : ns[i].t \notin {"hello", "cleared", "synced", "history"},
         Copied({}, ns) = N, x.status # "closed", TabSound(d, x, ms, q)
  PROVE  TabSound(dd, x, ms \o ns, q)
<1> DEFINE es == x.entries
           ks == ms \o ns
           copy == Copied(es, ms)
           kopy == Copied(es, ks)
<1>1. es \in SUBSET Entry
  BY DEF TabState
<1>2. /\ Len(ms) \in Nat /\ Len(ns) \in Nat /\ Len(ks) = Len(ms) + Len(ns)
      /\ DOMAIN ms = 1 .. Len(ms) /\ DOMAIN ns = 1 .. Len(ns) /\ DOMAIN ks = 1 .. Len(ms) + Len(ns)
      /\ \A i \in 1 .. Len(ms) : i \in 1 .. Len(ms) + Len(ns) /\ ks[i] = ms[i]
      /\ \A i \in 1 .. Len(ms) + Len(ns) : i > Len(ms) => i - Len(ms) \in 1 .. Len(ns) /\ ks[i] = ns[i - Len(ms)]
  BY JoinIs
<1>3. /\ \A j \in 0 .. Len(ms) : Upto(es, ks, j) = Upto(es, ms, j)
      /\ \A j \in 0 .. Len(ns) : /\ copy \subseteq Upto(es, ks, Len(ms) + j)
                                 /\ Upto(es, ks, Len(ms) + j) \subseteq copy \cup N
      /\ kopy = copy \cup N
  <2>1. /\ \A j \in 0 .. Len(ms) : Upto(es, ks, j) = Upto(es, ms, j)
        /\ \A j \in 0 .. Len(ns) : /\ copy \subseteq Upto(es, ks, Len(ms) + j)
                                   /\ Upto(es, ks, Len(ms) + j) \subseteq copy \cup Copied({}, ns)
        /\ kopy = copy \cup Copied({}, ns)
    BY ONLY <1>1, CopiedJoin, ms \in Seq(ToTab), ns \in Seq(ToTab)
  <2> HIDE DEF es, ks, copy, kopy
  <2>2. QED
    BY <2>1
<1>4. /\ copy \in SUBSET Entry /\ \A j \in 0 .. Len(ms) : Upto(es, ms, j) \subseteq copy
  BY <1>1, CopiedIs
<1>5. /\ Known(d, copy) /\ \A i \in DOMAIN ms : ClearsTo(ms[i]) <= d.cleared
      /\ Told(d, es, ms) /\ (Attaching(x, q) => Unsynced(x, ms)) /\ (~x.torn => Whole(d, x, ms, q))
      /\ x.fold <= d.last
  BY DEF TabSound
<1>5a. Told(dd, es, ks)
  <2>1. \A e \in Copied({}, ns) : e.seq > d.cleared
    <3>1. \A e \in N : e.seq \in Nat /\ d.last < e.seq
      BY DbFields
    <3>2. QED
      BY <3>1, DbFields DEF LogSound
  <2>2. Told(d, es, ks)
    BY <1>5, <2>1, ToldJoin
  <2>3. QED
    BY <2>2 DEF Told
<1> HIDE DEF es, ks, copy, kopy
<1>6. /\ d.last \in Nat /\ dd.last \in Nat /\ d.cleared \in Nat /\ d.cleared <= d.last
      /\ \A e \in Entry : e.seq \in Nat
      /\ d.log \in SUBSET Entry
  BY DbFields DEF LogSound
<1>7. Known(dd, kopy)
  BY <1>3, <1>4, <1>5, <1>6 DEF Known
<1>8. \A i \in DOMAIN ks : ClearsTo(ks[i]) <= dd.cleared
  <2>1. \A i \in DOMAIN ns : ClearsTo(ns[i]) = 0
    BY DEF ClearsTo
  <2>2. ASSUME NEW i \in DOMAIN ks PROVE ClearsTo(ks[i]) <= dd.cleared
    <3>1. CASE i \in DOMAIN ms
      BY <1>2, <1>5, <3>1
    <3>2. CASE i > Len(ms)
      <4>1. i - Len(ms) \in DOMAIN ns /\ ks[i] = ns[i - Len(ms)]
        BY <1>2, <2>2, <3>2
      <4>2. ClearsTo(ks[i]) = 0
        BY <2>1, <4>1
      <4>3. QED
        BY <1>6, <4>2
    <3>3. QED
      BY <1>2, <2>2, <3>1, <3>2
  <2>3. QED
    BY <2>2
<1>9. Attaching(x, q) => Unsynced(x, ks)
  <2>1. ASSUME Unsynced(x, ms), NEW i \in DOMAIN ks PROVE ks[i].t \notin {"synced", "history"}
    <3>1. CASE i \in DOMAIN ms
      BY <1>2, <2>1, <3>1 DEF Unsynced
    <3>2. CASE i > Len(ms)
      <4>1. i - Len(ms) \in DOMAIN ns /\ ks[i] = ns[i - Len(ms)]
        BY <1>2, <2>1, <3>2
      <4>2. QED
        BY <4>1
    <3>3. QED
      BY <1>2, <2>1, <3>1, <3>2
  <2>2. QED
    BY <1>5, <2>1 DEF Unsynced
<1>10. Missing(dd, es, ks) = Missing(d, es, ms)
  <2>1. \A e \in N : e \in kopy
    BY <1>3
  <2>2. \A e \in d.log : e \in N => FALSE
    BY <1>6 DEF LogSound
  <2>3. QED
    BY <1>3, <2>1, <2>2 DEF Missing, copy, kopy
<1>11. ASSUME NEW e \in Missing(d, es, ms) PROVE Below(copy, e) => Below(kopy, e)
  <2>1. e \in d.log /\ e.seq <= d.last
    BY <1>11 DEF Missing, LogSound
  <2>2. \A f \in N : f.seq > e.seq
    BY <1>6, <2>1
  <2>3. QED
    BY <1>3, <2>2 DEF Below
<1>12. ASSUME NEW a, WholeThrough(d, es, ms, a) PROVE WholeThrough(dd, es, ks, a)
  BY <1>10, <1>11, <1>12 DEF WholeThrough, Marks, copy, kopy
<1>13. ASSUME NEW k \in 0 .. Len(ms), WholeFrom(d, es, ms, k) PROVE WholeFrom(dd, es, ks, k)
  <2>1. \A e \in Missing(d, es, ms) : Below(copy, e) /\ Below(kopy, e)
    BY <1>11, <1>13 DEF WholeFrom, copy
  <2>2. ASSUME NEW j \in k .. Len(ks)
        PROVE  /\ NoHole(dd, Upto(es, ks, j))
               /\ Missing(dd, es, ks) # {} => Upto(es, ks, j) \cap dd.log # {}
    <3>1. CASE j <= Len(ms)
      <4>1. j \in k .. Len(ms) /\ Upto(es, ks, j) = Upto(es, ms, j) /\ Upto(es, ms, j) \subseteq copy
        BY <1>2, <1>3, <1>4, <2>2, <3>1
      <4>2. NoHole(d, Upto(es, ms, j)) /\ (Missing(d, es, ms) # {} => Upto(es, ms, j) \cap d.log # {})
        BY <1>13, <4>1 DEF WholeFrom
      <4>3. ASSUME NEW e \in N, NEW g \in Upto(es, ms, j), e.seq < g.seq PROVE FALSE
        <5>1. g \in Entry /\ g.seq <= d.last
          BY <1>4, <1>5, <4>1, <4>3 DEF Known
        <5>2. QED
          BY <1>6, <4>3, <5>1
      <4>4. NoHole(dd, Upto(es, ms, j))
        BY <4>2, <4>3 DEF NoHole
      <4>5. QED
        BY <1>10, <4>1, <4>2, <4>4
    <3>2. CASE j > Len(ms)
      <4>1. j - Len(ms) \in 0 .. Len(ns) /\ Len(ms) + (j - Len(ms)) = j
        BY <1>2, <2>2, <3>2
      <4>2. copy \subseteq Upto(es, ks, j) /\ Upto(es, ks, j) \subseteq copy \cup N
        BY <1>3, <4>1
      <4>3. Len(ms) \in k .. Len(ms) /\ Upto(es, ms, Len(ms)) = copy
        BY <1>2 DEF Copied, copy
      <4>4. Missing(d, es, ms) # {} => copy \cap d.log # {}
        BY <1>13, <4>3 DEF WholeFrom
      <4>5. ASSUME NEW e \in dd.log \ Upto(es, ks, j), NEW f \in Upto(es, ks, j), NEW g \in Upto(es, ks, j),
                   f.seq < e.seq, e.seq < g.seq
            PROVE  FALSE
        <5>1. CASE e \in N
          <6>1. g \in N
            <7>1. g \in copy => g \in Entry /\ g.seq <= d.last
              BY <1>4, <1>5 DEF Known
            <7>2. QED
              BY <1>6, <4>2, <4>5, <5>1, <7>1
          <6>2. QED
            BY <4>5, <5>1, <6>1
        <5>2. CASE e \in Missing(d, es, ms)
          <6>1. Below(kopy, e) /\ f \in kopy /\ f \in Entry /\ e \in Entry
            BY <1>3, <1>4, <1>6, <2>1, <4>2, <5>2 DEF Missing
          <6>2. QED
            BY <1>6, <4>5, <6>1 DEF Below
        <5>3. QED
          BY <4>2, <4>5, <5>1, <5>2 DEF Missing, copy
      <4>6. QED
        BY <1>10, <4>2, <4>4, <4>5 DEF NoHole
    <3>3. QED
      BY <1>2, <2>2, <3>1, <3>2
  <2>3. QED
    BY <1>10, <2>1, <2>2 DEF WholeFrom, kopy
<1>14. ASSUME ~x.torn PROVE Whole(dd, x, ks, q)
  <2>1. Whole(d, x, ms, q)
    BY <1>5, <1>14
  <2>2. x.status = "connecting" => WholeThrough(dd, es, ks, Largest(Seqnos(es)))
    BY <1>12, <2>1 DEF Whole, es
  <2>3. ASSUME x.status = "open", NEW i \in DOMAIN q
        PROVE  /\ q[i].t = "attach" => WholeThrough(dd, es, ks, q[i].after)
               /\ q[i].t = "history" => Marks(dd, es, q[i].before)
    BY <1>12, <2>1, <2>3 DEF Whole, Marks, es
  <2>4. ASSUME x.status = "open", x.synced PROVE WholeFrom(dd, es, ks, 0)
    <3>1. WholeFrom(d, es, ms, 0) /\ 0 \in 0 .. Len(ms)
      BY <1>2, <2>1, <2>4 DEF Whole, es
    <3>2. QED
      BY <1>13, <3>1
  <2>5. ASSUME x.status = "open", NEW k \in DOMAIN ks, ks[k].t = "synced" PROVE WholeFrom(dd, es, ks, k)
    <3>1. k \in DOMAIN ms /\ ms[k].t = "synced" /\ k \in 0 .. Len(ms)
      BY <1>2, <2>5
    <3>2. WholeFrom(d, es, ms, k)
      BY <2>1, <2>5, <3>1 DEF Whole, es
    <3>3. QED
      BY <1>13, <3>1, <3>2
  <2>6. QED
    BY <2>2, <2>3, <2>4, <2>5 DEF Whole, es
<1>14a. x.fold <= dd.last
  BY <1>5, <1>6, BoundAssumption DEF TabState
<1>15. QED
  BY <1>5a, <1>14a, <1>7, <1>8, <1>9, <1>14 DEF TabSound, es, ks, kopy

\* A tab that is away hears nothing of them, and has no hole by them.
LEMMA SoundAway ==
  ASSUME NEW d \in Db, NEW dd \in Db, LogSound(d), NEW N \in SUBSET Entry, dd.log = d.log \cup N,
         dd.cleared = d.cleared, d.last <= dd.last, \A e \in N : d.last < e.seq,
         NEW x \in TabState, NEW ms, NEW q, x.status = "closed", TabSound(d, x, ms, q)
  PROVE  TabSound(dd, x, ms, q)
<1>1. /\ ms = <<>> /\ ~x.synced /\ Known(d, Copied(x.entries, ms)) /\ x.fold <= d.last
      /\ ~x.torn => NoHole(d, x.entries)
  BY DEF TabSound, Whole
<1>2. /\ d.last \in Nat /\ dd.last \in Nat /\ x.entries \in SUBSET Entry /\ \A e \in Entry : e.seq \in Nat
      /\ Copied(x.entries, ms) = x.entries
  <2>1. Copied(x.entries, <<>>) = x.entries
    BY DEF Copied, Upto
  <2>2. QED
    BY <1>1, <2>1, DbFields DEF TabState
<1>3. \A e \in x.entries : e.seq <= d.last /\ e.seq \in Nat
  BY <1>1, <1>2 DEF Known
<1>4. Known(dd, Copied(x.entries, ms))
  BY <1>1, <1>2, <1>3 DEF Known
<1>5. NoHole(d, x.entries) => NoHole(dd, x.entries)
  <2>1. \A e \in N, g \in x.entries : ~(e.seq < g.seq)
    BY <1>2, <1>3
  <2>2. QED
    BY <2>1 DEF NoHole
<1>6. x.fold <= dd.last
  BY <1>1, <1>2, BoundAssumption DEF TabState
<1>7. QED
  BY <1>1, <1>4, <1>5, <1>6 DEF TabSound, Whole, Attaching
-----------------------------------------------------------------------------
(* A clear, a page of the history, and the replay leave the copies whole. *)

LEMMA JoinOne ==
  ASSUME NEW S, NEW ms \in Seq(S), NEW m \in S
  PROVE  /\ ms \o <<m>> \in Seq(S) /\ Len(ms) \in Nat /\ Len(ms \o <<m>>) = Len(ms) + 1
         /\ DOMAIN ms = 1 .. Len(ms) /\ DOMAIN (ms \o <<m>>) = 1 .. Len(ms) + 1
         /\ \A i \in 1 .. Len(ms) : i \in 1 .. Len(ms) + 1 /\ (ms \o <<m>>)[i] = ms[i]
         /\ (ms \o <<m>>)[Len(ms) + 1] = m
         /\ \A i \in 1 .. Len(ms) + 1 : i \in 1 .. Len(ms) \/ i = Len(ms) + 1
<1> DEFINE ns == <<m>>
<1>1. ns \in Seq(S) /\ Len(ns) = 1 /\ ns[1] = m
  OBVIOUS
<1> HIDE DEF ns
<1>2. QED
  BY <1>1 DEF ns

LEMMA CopiedOne ==
  ASSUME NEW es \in SUBSET Entry, NEW ms \in Seq(ToTab), NEW m \in ToTab
  PROVE  /\ Copied(es, ms \o <<m>>) = Copied(es, ms) \cup Shows(m)
         /\ \A j \in 0 .. Len(ms) : Upto(es, ms \o <<m>>, j) = Upto(es, ms, j)
         /\ \A d \in Db : Told(d, es, ms) /\ (\A e \in Shows(m) : e.seq > d.cleared) => Told(d, es, ms \o <<m>>)
<1> DEFINE ns == <<m>>
<1>1. ns \in Seq(ToTab) /\ Len(ns) = 1 /\ DOMAIN ns = {1} /\ 1 .. 1 = {1} /\ ns[1] = m
  OBVIOUS
<1> HIDE DEF ns
<1>2. Copied({}, ns) = Shows(m)
  <2>1. \A e : e \in Copied({}, ns) <=> e \in {} \/ \E i \in DOMAIN ns : e \in Shows(ns[i])
    BY <1>1, UptoIs DEF Copied
  <2>2. QED
    BY <1>1, <2>1
<1>3. /\ Copied(es, ms \o ns) = Copied(es, ms) \cup Copied({}, ns)
      /\ \A j \in 0 .. Len(ms) : Upto(es, ms \o ns, j) = Upto(es, ms, j)
  BY <1>1, CopiedJoin
<1>4. \A d \in Db : Told(d, es, ms) /\ (\A e \in Shows(m) : e.seq > d.cleared) => Told(d, es, ms \o ns)
  BY <1>1, <1>2, ToldJoin
<1>5. QED
  BY <1>2, <1>3, <1>4 DEF ns

LEMMA SoundCleared ==
  ASSUME NEW d \in Db, NEW dd \in Db, LogSound(d), dd.log = {}, dd.last = d.last,
         d.cleared <= dd.cleared, \A e \in d.log : e.seq <= dd.cleared,
         NEW x \in TabState, NEW ms \in Seq(ToTab), NEW q, TabSound(d, x, ms, q),
         x.status = "open" => q \in Seq(ToServer), NEW m \in ToTab, m.t = "cleared", m.through = dd.cleared
  PROVE  IF x.status = "closed" THEN TabSound(dd, x, ms, q) ELSE TabSound(dd, x, ms \o <<m>>, q)
<1> DEFINE es == x.entries
           ks == ms \o <<m>>
<1>1. es \in SUBSET Entry
  BY DEF TabState
<1>2. Shows(m) = {} /\ ClearsTo(m) = dd.cleared
  BY DEF Shows, ClearsTo
<1>3. Copied(es, ks) = Copied(es, ms) /\ Copied(es, ms) \in SUBSET Entry /\ es \subseteq Copied(es, ms)
  <2>1. Copied(es, ks) = Copied(es, ms) \cup Shows(m)
    BY <1>1, CopiedOne
  <2>2. QED
    BY <1>1, <1>2, <2>1, CopiedIs
<1>4. /\ Known(d, Copied(es, ms)) /\ \A i \in DOMAIN ms : ClearsTo(ms[i]) <= d.cleared
      /\ (Attaching(x, q) => Unsynced(x, ms)) /\ (~x.torn => Whole(d, x, ms, q))
      /\ x.fold <= dd.last /\ (x.status = "closed" => ms = <<>> /\ ~x.synced) /\ (x.status = "connecting" => q = <<>>)
  BY DEF TabSound
<1>5. /\ d.cleared \in Nat /\ dd.cleared \in Nat /\ \A e \in Entry : e.seq \in Nat
  BY DbFields
<1>6. \A e \in Copied(es, ms) : e.seq <= dd.cleared
  BY <1>3, <1>4, <1>5 DEF Known
<1>7. Known(dd, Copied(es, ms))
  BY <1>3, <1>4, <1>5, <1>6 DEF Known
<1>8. \A S : NoHole(dd, S)
  BY DEF NoHole
<1>9. CASE x.status = "closed"
  <2>1. \A i \in DOMAIN ms : ClearsTo(ms[i]) <= dd.cleared
    BY <1>4, <1>9
  <2>2. QED
    BY <1>4, <1>7, <1>8, <1>9, <2>1 DEF TabSound, Whole, Attaching
<1>10. CASE x.status # "closed"
  <2>1. /\ ks \in Seq(ToTab) /\ Len(ms) \in Nat /\ DOMAIN ms = 1 .. Len(ms) /\ DOMAIN ks = 1 .. Len(ms) + 1
        /\ \A i \in 1 .. Len(ms) : i \in 1 .. Len(ms) + 1 /\ ks[i] = ms[i]
        /\ ks[Len(ms) + 1] = m
        /\ \A i \in 1 .. Len(ms) + 1 : i \in 1 .. Len(ms) \/ i = Len(ms) + 1
    BY JoinOne
  <2> HIDE DEF ks
  <2>2. \A i \in DOMAIN ks : ClearsTo(ks[i]) <= dd.cleared
    <3>1. TAKE i \in DOMAIN ks
    <3>2. CASE i = Len(ms) + 1
      BY <1>2, <1>5, <2>1, <3>2
    <3>3. CASE i \in 1 .. Len(ms)
      <4>1. ms[i] \in ToTab /\ ClearsTo(ms[i]) \in Nat /\ ClearsTo(ms[i]) <= d.cleared
        BY <1>4, <2>1, <3>3, ToTabFields, BoundAssumption DEF ClearsTo
      <4>2. QED
        BY <1>5, <2>1, <3>3, <4>1
    <3>4. QED
      BY <2>1, <3>1, <3>2, <3>3
  <2>3. Told(dd, es, ks)
    <3>1. Len(ms) + 1 \in DOMAIN ks /\ \A e \in Copied(es, ms) : ClearsTo(ks[Len(ms) + 1]) >= e.seq
      BY <1>2, <1>3, <1>5, <1>6, <2>1
    <3>2. \A i \in DOMAIN ms : Shows(ms[i]) \subseteq Copied(es, ms)
      BY <1>1, CopiedIs
    <3>3. ASSUME NEW i \in DOMAIN ks, NEW e \in Shows(ks[i]) PROVE Len(ms) + 1 > i /\ e \in Copied(es, ms)
      BY <1>2, <2>1, <3>2, <3>3
    <3>4. QED
      BY <1>3, <3>1, <3>3 DEF Told
  <2>4. Attaching(x, q) => Unsynced(x, ks)
    BY <1>4, <2>1 DEF Unsynced
  <2>5. Missing(dd, es, ks) = {}
    BY DEF Missing
  <2>6. \A a \in Nat : Marks(d, es, a) => Marks(dd, es, a)
    BY <1>5 DEF Marks
  <2>7. ASSUME NEW a \in Nat, WholeThrough(d, es, ms, a) PROVE WholeThrough(dd, es, ks, a)
    BY <2>5, <2>6, <2>7 DEF WholeThrough
  <2>8. \A k : WholeFrom(dd, es, ks, k)
    BY <1>8, <2>5 DEF WholeFrom
  <2>9. ASSUME ~x.torn PROVE Whole(dd, x, ks, q)
    <3>1. Whole(d, x, ms, q)
      BY <1>4, <2>9
    <3>2. Largest(Seqnos(es)) \in Nat
      <4>1. Seqnos(es) \in SUBSET (0 .. MaxSeq)
        BY <1>1, DbFields DEF Seqnos
      <4>2. QED
        BY <4>1, LargestIs, BoundAssumption
    <3>3. x.status = "connecting" => WholeThrough(dd, es, ks, Largest(Seqnos(es)))
      BY <2>7, <3>1, <3>2 DEF Whole
    <3>4. ASSUME x.status = "open", NEW i \in DOMAIN q
          PROVE  /\ q[i].t = "attach" => WholeThrough(dd, es, ks, q[i].after)
                 /\ q[i].t = "history" => Marks(dd, es, q[i].before)
      <4>1. /\ q[i].t = "attach" => q[i].after \in Nat
            /\ q[i].t = "history" => q[i].before \in Nat
        <5>1. q[i] \in ToServer
          BY <3>4
        <5>2. QED
          BY <5>1, ToServerFields, BoundAssumption DEF Seqs
      <4>2. QED
        BY <2>6, <2>7, <3>1, <3>4, <4>1 DEF Whole
    <3>5. QED
      BY <1>10, <2>8, <3>3, <3>4 DEF Whole
  <2>10. TabSound(dd, x, ks, q)
    BY <1>3, <1>4, <1>7, <1>10, <2>2, <2>3, <2>4, <2>9 DEF TabSound
  <2>11. QED
    BY <1>10, <2>10 DEF ks
<1>11. QED
  BY <1>9, <1>10

\* A page of the history is all that the tab lacks.
LEMMA SoundHistory ==
  ASSUME NEW d \in Db, LogSound(d), NEW x \in TabState, NEW ms \in Seq(ToTab), NEW q \in Seq(ToServer), q # <<>>,
         TabSound(d, x, ms, q), x.status = "open", Head(q).t = "history",
         \A i \in DOMAIN q : q[i].t = "attach" => i = 1,
         NEW m \in ToTab, m.t = "history", m.entries = {e \in d.log : e.seq < Head(q).before}
  PROVE  TabSound(d, x, ms \o <<m>>, Tail(q))
<1> DEFINE es == x.entries
           ks == ms \o <<m>>
           r == Tail(q)
           b == Head(q).before
<1>1. es \in SUBSET Entry
  BY DEF TabState
<1>2. Shows(m) = {e \in d.log : e.seq < b} /\ ClearsTo(m) = 0
  BY DEF Shows, ClearsTo
<1>3. /\ ks \in Seq(ToTab) /\ Len(ms) \in Nat /\ Len(ks) = Len(ms) + 1
      /\ DOMAIN ms = 1 .. Len(ms) /\ DOMAIN ks = 1 .. Len(ms) + 1
      /\ \A i \in 1 .. Len(ms) : i \in 1 .. Len(ms) + 1 /\ ks[i] = ms[i]
      /\ ks[Len(ms) + 1] = m
      /\ \A i \in 1 .. Len(ms) + 1 : i \in 1 .. Len(ms) \/ i = Len(ms) + 1
  BY JoinOne
<1>4. /\ Head(q) \in ToServer /\ Head(q) = q[1] /\ 1 \in DOMAIN q
      /\ \A i \in DOMAIN r : i + 1 \in DOMAIN q /\ i + 1 # 1 /\ r[i] = q[i + 1] /\ r[i].t # "attach"
  <2>1. /\ Head(q) \in ToServer /\ Head(q) = q[1] /\ 1 \in DOMAIN q
        /\ \A i \in DOMAIN r : i + 1 \in DOMAIN q /\ r[i] = q[i + 1] /\ i \in Nat /\ i # 0
    BY TailIs
  <2>2. QED
    BY <2>1
<1>5. /\ Copied(es, ks) = Copied(es, ms) \cup Shows(m) /\ Copied(es, ms) \in SUBSET Entry
      /\ es \subseteq Copied(es, ms)
      /\ \A j \in 0 .. Len(ms) : Upto(es, ks, j) = Upto(es, ms, j)
  <2>1. /\ Copied(es, ks) = Copied(es, ms) \cup Shows(m)
        /\ \A j \in 0 .. Len(ms) : Upto(es, ks, j) = Upto(es, ms, j)
    BY <1>1, CopiedOne
  <2> HIDE DEF es, ks
  <2>2. QED
    BY <1>1, <2>1, CopiedIs
<1>6. /\ Known(d, Copied(es, ms)) /\ \A i \in DOMAIN ms : ClearsTo(ms[i]) <= d.cleared
      /\ Told(d, es, ms) /\ (~x.torn => Whole(d, x, ms, q))
      /\ x.fold <= d.last
  BY DEF TabSound
<1>7. /\ b \in Nat /\ d.cleared \in Nat /\ \A e \in Entry : e.seq \in Nat
      /\ \A e \in d.log : e \in Entry /\ e.seq > d.cleared /\ e.seq <= d.last
  <2>1. b \in Nat
    BY <1>4, ToServerFields, BoundAssumption DEF Seqs
  <2>2. QED
    BY <2>1, DbFields DEF LogSound
<1> HIDE DEF ks, r, b
<1>8. Known(d, Copied(es, ks))
  BY <1>2, <1>5, <1>6, <1>7 DEF Known
<1>9. \A i \in DOMAIN ks : ClearsTo(ks[i]) <= d.cleared
  BY <1>2, <1>3, <1>6, <1>7
<1>10. Told(d, es, ks)
  BY <1>1, <1>2, <1>6, <1>7, CopiedOne DEF ks
<1>11. ~Attaching(x, r)
  BY <1>4 DEF Attaching
<1>12. ASSUME NEW k \in 0 .. Len(ms), WholeFrom(d, es, ms, k), Marks(d, es, b) PROVE WholeFrom(d, es, ks, k)
  <2>1. CASE b <= d.cleared
    <3>1. Shows(m) = {}
      BY <1>2, <1>7, <2>1
    <3>2. Copied(es, ks) = Copied(es, ms) /\ Missing(d, es, ks) = Missing(d, es, ms)
      BY <1>5, <3>1 DEF Missing
    <3>3. Upto(es, ms, Len(ms)) = Copied(es, ms) /\ Upto(es, ks, Len(ms) + 1) = Copied(es, ks)
      BY <1>3 DEF Copied
    <3>4. ASSUME NEW j \in k .. Len(ks)
          PROVE  NoHole(d, Upto(es, ks, j)) /\ (Missing(d, es, ms) # {} => Upto(es, ks, j) \cap d.log # {})
      <4>1. CASE j \in k .. Len(ms)
        BY <1>3, <1>5, <1>12, <4>1 DEF WholeFrom
      <4>2. CASE j = Len(ms) + 1
        <5>1. Upto(es, ks, j) = Upto(es, ms, Len(ms)) /\ Len(ms) \in k .. Len(ms)
          BY <1>3, <3>2, <3>3, <4>2
        <5>2. QED
          BY <1>12, <5>1 DEF WholeFrom
      <4>3. QED
        BY <1>3, <3>4, <4>1, <4>2
    <3>5. QED
      BY <1>12, <3>2, <3>4 DEF WholeFrom
  <2>2. CASE ~(b <= d.cleared)
    <3>1. PICK f \in es : f.seq = b
      BY <1>12, <2>2 DEF Marks
    <3>2. \A e \in Missing(d, es, ms) : e.seq < b
      BY <1>5, <1>7, <1>12, <3>1 DEF WholeFrom, Below
    <3>3. Missing(d, es, ks) = {}
      BY <1>2, <1>5, <3>2 DEF Missing
    <3>4. ASSUME NEW j \in k .. Len(ks) PROVE NoHole(d, Upto(es, ks, j))
      <4>1. CASE j \in k .. Len(ms)
        BY <1>3, <1>5, <1>12, <4>1 DEF WholeFrom
      <4>2. CASE j = Len(ms) + 1
        <5>1. Upto(es, ks, j) = Copied(es, ks)
          BY <1>3, <4>2 DEF Copied
        <5>2. QED
          BY <3>3, <5>1 DEF Missing, NoHole
      <4>3. QED
        BY <1>3, <3>4, <4>1, <4>2
    <3>5. QED
      BY <3>3, <3>4 DEF WholeFrom
  <2>3. QED
    BY <2>1, <2>2
<1>13. ASSUME ~x.torn PROVE Whole(d, x, ks, r)
  <2>1. Whole(d, x, ms, q)
    BY <1>6, <1>13
  <2>2. Marks(d, es, b) /\ \A i \in DOMAIN r : r[i].t = "history" => Marks(d, es, r[i].before)
    BY <1>4, <2>1 DEF Whole, b
  <2>3. x.synced => WholeFrom(d, es, ks, 0)
    <3>1. 0 \in 0 .. Len(ms)
      BY <1>3
    <3>2. QED
      BY <1>12, <2>1, <2>2, <3>1 DEF Whole
  <2>4. ASSUME NEW k \in DOMAIN ks, ks[k].t = "synced" PROVE WholeFrom(d, es, ks, k)
    <3>1. k \in DOMAIN ms /\ k \in 0 .. Len(ms) /\ ms[k].t = "synced"
      BY <1>3, <2>4
    <3>2. WholeFrom(d, es, ms, k)
      BY <2>1, <3>1 DEF Whole
    <3>3. QED
      BY <1>12, <2>2, <3>1, <3>2
  <2>5. QED
    BY <1>4, <2>2, <2>3, <2>4 DEF Whole
<1>14. TabSound(d, x, ks, r)
  BY <1>6, <1>8, <1>9, <1>10, <1>11, <1>13 DEF TabSound
<1>15. QED
  BY <1>14 DEF ks, r

\* What attach replays: what follows an entry, or the latest compaction and what
\* follows the entries that it stands for.
LEMMA ReplayIs ==
  ASSUME NEW d \in Db, db = d, LogSound(d), NEW a \in 0 .. MaxSeq
  PROVE  /\ Replay(a) \subseteq d.log
         /\ a > 0 => Replay(a) = {e \in d.log : e.seq > a}
         /\ a = 0 => \A e \in d.log \ Replay(a) : \A f \in Replay(a) : f.seq > e.seq
         /\ a = 0 /\ d.log # {} => Replay(a) # {}
<1> DEFINE folds == {e \in d.log : e.through > 0}
           last == CHOOSE e \in folds : \A f \in folds : f.seq <= e.seq
<1>1. Replay(a) = CASE a > 0 -> {e \in d.log : e.seq > a}
                    [] a = 0 /\ folds # {} -> {last} \cup {e \in d.log : e.seq > last.through}
                    [] OTHER -> d.log
  BY DEF Replay
<1>2. folds \in SUBSET Entry /\ folds \subseteq d.log /\ \A e \in d.log : e.seq \in Nat /\ e.through \in Nat /\ e.through < e.seq
  BY DbFields, BoundAssumption DEF LogSound
<1>3. folds # {} => last \in folds
  <2> HIDE DEF folds
  <2>1. QED
    BY <1>2, LatestFold
<1>4. a > 0 \/ a = 0
  BY BoundAssumption
<1> HIDE DEF folds, last
<1>5. CASE a > 0
  BY <1>1, <1>5
<1>6. CASE a = 0 /\ folds # {}
  <2>1. Replay(a) = {last} \cup {e \in d.log : e.seq > last.through} /\ last \in d.log
    BY <1>1, <1>2, <1>3, <1>6
  <2>2. ASSUME NEW e \in d.log \ Replay(a), NEW f \in Replay(a) PROVE f.seq > e.seq
    <3>1. e.seq <= last.through /\ last.through < f.seq
      BY <1>2, <2>1, <2>2
    <3>2. QED
      BY <1>2, <2>1, <2>2, <3>1
  <2>3. QED
    BY <1>6, <2>1, <2>2
<1>7. CASE a = 0 /\ folds = {}
  BY <1>1, <1>7
<1>8. QED
  BY <1>4, <1>5, <1>6, <1>7

\* ks, what is on its way once the server has read the attach: what was, the rows and
\* the end of the replay.
LEMMA SoundAttach ==
  ASSUME NEW d \in Db, db = d, LogSound(d), NEW x \in TabState, NEW ms \in Seq(ToTab),
         NEW q \in Seq(ToServer), q # <<>>,
         TabSound(d, x, ms, q), x.status = "open", Head(q).t = "attach",
         \A i \in DOMAIN q : q[i].t = "attach" => i = 1,
         NEW ks \in Seq(ToTab), Copied(x.entries, ks) = Copied(x.entries, ms) \cup Replay(Head(q).after),
         Told(d, x.entries, ks), \A i \in DOMAIN ks : ClearsTo(ks[i]) <= d.cleared,
         Unsynced(x, ms) => \A i \in DOMAIN ks : ks[i].t = "synced" => i = Len(ks)
  PROVE  TabSound(d, x, ks, Tail(q))
<1> DEFINE es == x.entries
           r == Tail(q)
           a == Head(q).after
           copy == Copied(es, ms)
           kopy == Copied(es, ks)
           rows == Replay(a)
<1>1. es \in SUBSET Entry
  BY DEF TabState
<1>2. /\ Head(q) \in ToServer /\ Head(q) = q[1] /\ 1 \in DOMAIN q
      /\ \A i \in DOMAIN r : i + 1 \in DOMAIN q /\ r[i] = q[i + 1] /\ r[i].t # "attach"
  <2>1. /\ Head(q) \in ToServer /\ Head(q) = q[1] /\ 1 \in DOMAIN q
        /\ \A i \in DOMAIN r : i + 1 \in DOMAIN q /\ r[i] = q[i + 1] /\ i \in Nat /\ i # 0
    BY TailIs
  <2>2. QED
    BY <2>1
<1>3. /\ Known(d, copy) /\ (~x.torn => Whole(d, x, ms, q)) /\ x.fold <= d.last /\ Unsynced(x, ms)
  BY <1>2 DEF TabSound, Attaching
<1>4. /\ a \in 0 .. MaxSeq /\ a \in Nat /\ d.cleared \in Nat /\ \A e \in Entry : e.seq \in Nat
      /\ \A e \in d.log : e \in Entry /\ e.seq > d.cleared /\ e.seq <= d.last
  <2>1. a \in 0 .. MaxSeq
    BY <1>2, ToServerFields
  <2>2. QED
    BY <2>1, DbFields, BoundAssumption DEF LogSound
<1>5. /\ rows \subseteq d.log
      /\ a > 0 => rows = {e \in d.log : e.seq > a}
      /\ a = 0 => \A e \in d.log \ rows : \A f \in rows : f.seq > e.seq
      /\ a = 0 /\ d.log # {} => rows # {}
  BY <1>4, ReplayIs
<1>6. kopy = copy \cup rows /\ es \subseteq copy /\ copy \in SUBSET Entry
  BY <1>1, CopiedIs
<1>7. /\ Told(d, es, ks) /\ \A i \in DOMAIN ks : ClearsTo(ks[i]) <= d.cleared
      /\ \A i \in DOMAIN ks : ks[i].t = "synced" => i = Len(ks)
  BY <1>3
<1> HIDE DEF r, a, copy, kopy, rows
<1>8. Known(d, kopy)
  BY <1>3, <1>4, <1>5, <1>6 DEF Known
<1>9. ASSUME ~x.torn PROVE Whole(d, x, ks, r)
  <2>1. Whole(d, x, ms, q)
    BY <1>3, <1>9
  <2>2. WholeThrough(d, es, ms, a) /\ \A i \in DOMAIN r : r[i].t = "history" => Marks(d, es, r[i].before)
    BY <1>2, <2>1 DEF Whole, a
  <2>3. ASSUME NEW e \in Missing(d, es, ks)
        PROVE  Below(kopy, e) /\ kopy \cap d.log # {}
    <3>1. e \in d.log /\ e \notin copy /\ e \notin rows /\ e \in Missing(d, es, ms)
      BY <1>6, <2>3 DEF Missing, copy, kopy
    <3>2. a = 0 \/ e.seq <= a
      BY <1>4, <1>5, <3>1
    <3>3. Below(copy, e)
      BY <2>2, <3>1, <3>2 DEF WholeThrough, copy
    <3>4. \A f \in rows : f.seq > e.seq
      BY <1>4, <1>5, <3>1, <3>2
    <3>5. kopy \cap d.log # {}
      <4>1. CASE a = 0
        BY <1>5, <1>6, <3>1, <4>1
      <4>2. CASE a # 0
        <5>1. a > d.cleared
          BY <1>4, <3>1, <3>2, <4>2
        <5>2. PICK f \in es : f.seq = a
          BY <1>4, <2>2, <4>2, <5>1 DEF WholeThrough, Marks
        <5>3. QED
          BY <1>3, <1>6, <5>1, <5>2 DEF Known
      <4>3. QED
        BY <4>1, <4>2
    <3>6. QED
      BY <1>6, <3>3, <3>4, <3>5 DEF Below
  <2>4. NoHole(d, kopy)
    <3>1. \A e \in d.log \ kopy : e \in Missing(d, es, ks)
      BY DEF Missing, kopy
    <3>2. ASSUME NEW e \in d.log \ kopy, NEW f \in kopy, f.seq < e.seq PROVE FALSE
      <4>1. f \in Entry /\ f.seq > e.seq
        BY <1>4, <1>5, <1>6, <2>3, <3>1, <3>2 DEF Below
      <4>2. QED
        BY <1>4, <3>2, <4>1
    <3>3. QED
      BY <3>2 DEF NoHole
  <2>5. ASSUME NEW k \in DOMAIN ks, ks[k].t = "synced" PROVE WholeFrom(d, es, ks, k)
    <3>1. k = Len(ks) /\ Len(ks) \in Nat
      BY <1>7, <2>5
    <3>2. \A j \in k .. Len(ks) : Upto(es, ks, j) = kopy
      BY <3>1 DEF Copied, kopy
    <3>3. QED
      BY <2>3, <2>4, <3>2 DEF WholeFrom, kopy
  <2>6. ~x.synced
    BY <1>3 DEF Unsynced
  <2>7. QED
    BY <1>2, <2>2, <2>5, <2>6 DEF Whole
<1>10. ~Attaching(x, r)
  BY <1>2 DEF Attaching
<1>11. QED
  BY <1>3, <1>7, <1>8, <1>9, <1>10 DEF TabSound, kopy, r
-----------------------------------------------------------------------------
(* The steps of a tab. *)

AssistantInv == TypeOK /\ PromptInv /\ CopyInv

LEMMA TabIs ==
  ASSUME AssistantInv, NEW t \in Tab
  PROVE  /\ tab[t] \in TabState /\ tab[t].out = <<>> /\ Tidy(tab[t]) /\ tab[t].n \in 0 .. MaxConn
         /\ tab[t].entries \in SUBSET Entry /\ tab[t].fold <= db.last
         /\ toTab[t] \in Seq(ToTab) /\ Once(toTab[t])
         /\ db \in Db /\ LogSound(db) /\ db.last \in 0 .. MaxSeq
         /\ TabSound(db, tab[t], toTab[t], toServer[Present(t)])
         /\ tab[t].status # "closed" => /\ Present(t) \in Conn /\ Present(t) \in open
                                        /\ tab[t].n > 0 /\ toServer[Present(t)] \in Seq(ToServer)
         /\ \A s \in Tab : Present(s) = Present(t) => s = t
<1>1. /\ tab[t] \in TabState /\ tab[t].out = <<>> /\ Tidy(tab[t]) /\ tab[t].n \in 0 .. MaxConn
      /\ tab[t].entries \in SUBSET Entry
      /\ toTab[t] \in Seq(ToTab) /\ Once(toTab[t])
      /\ db \in Db /\ LogSound(db)
      /\ TabSound(db, tab[t], toTab[t], toServer[Present(t)])
  BY DEF AssistantInv, TypeOK, PromptInv, CopyInv, AllTidy, AllOnce, TabState
<1>2. db.last \in 0 .. MaxSeq /\ tab[t].fold <= db.last
  BY <1>1 DEF Db, TabSound
<1>3. ASSUME tab[t].status # "closed"
      PROVE  /\ Present(t) \in Conn /\ Present(t) \in open
             /\ tab[t].n > 0 /\ toServer[Present(t)] \in Seq(ToServer)
  <2>1. Present(t) \in open /\ tab[t].n > 0
    BY <1>3 DEF AssistantInv, CopyInv, Sockets, Connected
  <2>2. Present(t) \in Conn
    BY <1>1, <2>1, BoundAssumption DEF Present, Conn
  <2>3. QED
    BY <2>1, <2>2 DEF AssistantInv, TypeOK
<1>4. \A s \in Tab : Present(s) = Present(t) => s = t
  BY DEF Present
<1>5. QED
  BY <1>1, <1>2, <1>3, <1>4

\* What becomes of a tab leaves the others' copies alone.
LEMMA OneTab ==
  ASSUME AssistantInv, NEW t \in Tab, NEW z, tab' = [tab EXCEPT ![t] = z], z.n = tab[t].n,
         z.status # "closed" => tab[t].status # "closed",
         NEW ms, toTab' = [toTab EXCEPT ![t] = ms],
         UNCHANGED <<db, open>>,
         \A c \in Conn : c # Present(t) => toServer'[c] = toServer[c],
         tab[t].status = "closed" => toServer' = toServer,
         Present(t) \in Conn =>
           \A i \in DOMAIN toServer'[Present(t)] :
             /\ toServer'[Present(t)][i].t = "append" => toServer'[Present(t)][i].through <= db.last
             /\ toServer'[Present(t)][i].t = "attach" => i = 1,
         TabSound(db, z, ms, toServer'[Present(t)])
  PROVE  CopyInv'
<1>1. /\ tab \in [Tab -> TabState] /\ toTab \in [Tab -> Seq(ToTab)] /\ tab'[t] = z /\ toTab'[t] = ms
      /\ \A s \in Tab : s # t => tab'[s] = tab[s] /\ toTab'[s] = toTab[s]
  BY DEF AssistantInv, TypeOK
<1>2. \A s \in Tab : tab'[s].n = tab[s].n /\ Present(s)' = Present(s)
  BY <1>1 DEF Present
<1>3. LogSound(db) /\ Sockets /\ Sent /\ \A s \in Tab : TabSound(db, tab[s], toTab[s], toServer[Present(s)])
  BY DEF AssistantInv, CopyInv
<1>4. Sockets'
  <2>1. \A s \in Tab : Connected(s)' => tab'[s].n > 0 /\ Present(s) \in open
    BY <1>1, <1>2, <1>3 DEF Sockets, Connected
  <2>2. ASSUME NEW c \in Conn, c[2] > tab[c[1]].n PROVE toServer'[c] = <<>>
    <3>1. c[1] \in Tab /\ c[2] \in 1 .. MaxConn /\ tab[c[1]].n \in 0 .. MaxConn
      BY <1>1 DEF Conn, TabState
    <3>2. c # Present(t)
      BY <2>2, <3>1 DEF Present
    <3>3. QED
      BY <1>3, <2>2, <3>2 DEF Sockets
  <2>3. \A c \in Conn : c[1] \in Tab
    BY DEF Conn
  <2>4. QED
    BY <1>2, <2>1, <2>2, <2>3 DEF Sockets
<1>5. Sent'
  <2>1. ASSUME NEW c \in Conn, NEW i \in DOMAIN toServer'[c]
        PROVE  /\ toServer'[c][i].t = "append" => toServer'[c][i].through <= db.last
               /\ toServer'[c][i].t = "attach" => i = 1
    <3>1. CASE c = Present(t)
      BY <2>1, <3>1
    <3>2. CASE c # Present(t)
      BY <1>3, <2>1, <3>2 DEF Sent
    <3>3. QED
      BY <3>1, <3>2
  <2>2. QED
    BY <2>1 DEF Sent
<1>6. ASSUME NEW s \in Tab PROVE TabSound(db, tab'[s], toTab'[s], toServer'[Present(s)])
  <2>1. CASE s = t
    BY <1>1, <2>1
  <2>2. CASE s # t /\ tab[s].status # "closed"
    <3>1. Present(s) \in Conn /\ Present(s) # Present(t)
      BY <2>2, TabIs
    <3>2. QED
      BY <1>1, <1>3, <2>2, <3>1
  <2>3. CASE s # t /\ tab[s].status = "closed"
    <3>1. TabSound(db, tab[s], toTab[s], toServer[Present(s)])
      BY <1>3
    <3>2. TabSound(db, tab[s], toTab[s], toServer'[Present(s)])
      <4> DEFINE x == tab[s]
                 q == toServer[Present(s)]
                 r == toServer'[Present(s)]
      <4>1. x.status = "closed" /\ x.fold <= db.last /\ TabSound(db, x, toTab[s], q)
        BY <2>3, <3>1, TabIs
      <4> HIDE DEF x, q, r
      <4>2. TabSound(db, x, toTab[s], r)
        BY <4>1, SoundActs
      <4>3. QED
        BY <4>2 DEF x, r
    <3>3. QED
      BY <1>1, <2>3, <3>2
  <2>4. QED
    BY <2>1, <2>2, <2>3
<1>7. QED
  BY <1>2, <1>3, <1>4, <1>5, <1>6 DEF CopyInv

LEMMA BecomesIs ==
  ASSUME AssistantInv, NEW t \in Tab, NEW y \in TabState, Becomes(t, y), y.status = "open" \/ y.out = <<>>,
         y.status = "open" => Present(t) \in Conn
  PROVE  /\ tab' = [tab EXCEPT ![t] = [y EXCEPT !.out = <<>>]]
         /\ \A c \in Conn : c # Present(t) => toServer'[c] = toServer[c]
         /\ y.out = <<>> => toServer' = toServer
         /\ y.status = "open" =>
              /\ toServer'[Present(t)] = toServer[Present(t)] \o y.out
              /\ \A i \in DOMAIN toServer'[Present(t)] :
                   \/ /\ i \in DOMAIN toServer[Present(t)]
                      /\ toServer'[Present(t)][i] = toServer[Present(t)][i]
                   \/ \E k \in DOMAIN y.out : toServer'[Present(t)][i] = y.out[k] /\ i = Len(toServer[Present(t)]) + k
<1>1. tab \in [Tab -> TabState] /\ toServer \in [Conn -> Seq(ToServer)] /\ y.out \in Seq(ToServer)
  BY DEF AssistantInv, TypeOK, TabState
<1>2. /\ tab' = [tab EXCEPT ![t] = [y EXCEPT !.out = <<>>]]
      /\ toServer' = IF y.out = <<>> THEN toServer ELSE [toServer EXCEPT ![Present(t)] = @ \o y.out]
  BY DEF Becomes
<1>3. \A c \in Conn : c # Present(t) => toServer'[c] = toServer[c]
  BY <1>1, <1>2
<1>4. ASSUME y.status = "open"
      PROVE  /\ toServer'[Present(t)] = toServer[Present(t)] \o y.out
             /\ \A i \in DOMAIN toServer'[Present(t)] :
                  \/ /\ i \in DOMAIN toServer[Present(t)]
                     /\ toServer'[Present(t)][i] = toServer[Present(t)][i]
                  \/ \E k \in DOMAIN y.out : toServer'[Present(t)][i] = y.out[k] /\ i = Len(toServer[Present(t)]) + k
  <2> DEFINE q == toServer[Present(t)]
             o == y.out
  <2>1. q \in Seq(ToServer) /\ o \in Seq(ToServer)
    BY <1>1, <1>4
  <2>2. toServer'[Present(t)] = q \o o
    <3>1. CASE o = <<>>
      BY <1>2, <2>1, <3>1
    <3>2. CASE o # <<>>
      BY <1>1, <1>2, <1>4, <3>2
    <3>3. QED
      BY <3>1, <3>2
  <2> HIDE DEF q, o
  <2>3. /\ DOMAIN q = 1 .. Len(q) /\ DOMAIN o = 1 .. Len(o) /\ DOMAIN (q \o o) = 1 .. Len(q) + Len(o)
        /\ \A i \in 1 .. Len(q) : i \in 1 .. Len(q) + Len(o) /\ (q \o o)[i] = q[i]
        /\ \A i \in 1 .. Len(q) + Len(o) : i > Len(q) => i - Len(q) \in 1 .. Len(o) /\ (q \o o)[i] = o[i - Len(q)]
        /\ Len(q) \in Nat
    BY <2>1, JoinIs
  <2>4. ASSUME NEW i \in DOMAIN (q \o o)
        PROVE  \/ i \in DOMAIN q /\ (q \o o)[i] = q[i]
               \/ \E k \in DOMAIN o : (q \o o)[i] = o[k] /\ i = Len(q) + k
    <3>1. CASE i <= Len(q)
      BY <2>3, <2>4, <3>1
    <3>2. CASE i > Len(q)
      <4>1. i - Len(q) \in DOMAIN o /\ (q \o o)[i] = o[i - Len(q)] /\ i = Len(q) + (i - Len(q))
        BY <2>3, <2>4, <3>2
      <4>2. QED
        BY <4>1
    <3>3. QED
      BY <2>3, <2>4, <3>1, <3>2
  <2>5. QED
    BY <2>2, <2>4 DEF q, o
<1>5. QED
  BY <1>2, <1>3, <1>4

\* A tab that keeps its connection and its copy: y is what becomes of it, given the
\* prompts of N by its user.
Keeps(t, y) ==
  /\ y.n = tab[t].n /\ y.status = tab[t].status /\ y.entries = tab[t].entries /\ y.synced = tab[t].synced
  /\ y.torn = tab[t].torn /\ y.fold <= db.last
  /\ tab[t].status # "open" => y.out = <<>>
  /\ \A i \in DOMAIN y.out : /\ Sayable(db, tab[t].entries, y.out[i])
                             /\ y.out[i].t = "append" => y.out[i].through <= db.last

LEMMA TabActs ==
  ASSUME AssistantInv, NEW t \in Tab, NEW y \in TabState, Becomes(t, y), UNCHANGED <<db, open, toTab, lost>>,
         Tidy(y), NEW N \in SUBSET Prompt, asked' = asked \cup N, N \cap asked = {}, Conserves(tab[t], N, y),
         clears' \in 0 .. MaxClear, faults' \in 0 .. MaxFault, Keeps(t, y)
  PROVE  AssistantInv'
<1> DEFINE z == [y EXCEPT !.out = <<>>]
           q == toServer[Present(t)]
           r == toServer'[Present(t)]
<1>1. /\ tab[t] \in TabState /\ toTab[t] \in Seq(ToTab) /\ Once(toTab[t])
      /\ TabSound(db, tab[t], toTab[t], q)
      /\ tab[t].status # "closed" => Present(t) \in Conn
  BY TabIs
<1>2. /\ tab' = [tab EXCEPT ![t] = z]
      /\ \A c \in Conn : c # Present(t) => toServer'[c] = toServer[c]
      /\ y.out = <<>> => toServer' = toServer
      /\ y.status = "open" =>
           \A i \in DOMAIN r :
             \/ i \in DOMAIN q /\ r[i] = q[i]
             \/ \E k \in DOMAIN y.out : r[i] = y.out[k] /\ i = Len(q) + k
  <2>1. (y.status = "open" \/ y.out = <<>>) /\ (y.status = "open" => Present(t) \in Conn)
    BY <1>1 DEF Keeps
  <2>2. QED
    BY <2>1, BecomesIs
<1>3. /\ z.n = y.n /\ z.status = y.status /\ z.entries = y.entries /\ z.synced = y.synced /\ z.torn = y.torn
      /\ z.fold = y.fold
  BY Emptied DEF Same
<1> HIDE DEF z, q, r
<1>4. y.status # "open" => r = q
  BY <1>2 DEF Keeps, q, r
<1>5. TabSound(db, z, toTab[t], r)
  <2>1. ASSUME y.status = "open", NEW i \in DOMAIN r
        PROVE  (\E j \in DOMAIN q : q[j] = r[i]) \/ Sayable(db, tab[t].entries, r[i])
    BY <1>2, <2>1 DEF Keeps
  <2>2. /\ z.status = tab[t].status /\ z.entries = tab[t].entries /\ z.synced = tab[t].synced
        /\ z.torn = tab[t].torn /\ z.fold <= db.last
    BY <1>3 DEF Keeps
  <2>3. /\ tab[t].status = "connecting" => r = q
        /\ tab[t].status = "open" =>
             \A i \in DOMAIN r : (\E j \in DOMAIN q : q[j] = r[i]) \/ Sayable(db, tab[t].entries, r[i])
    BY <1>4, <2>1 DEF Keeps
  <2>4. QED
    BY <1>1, <2>2, <2>3, SoundActs
<1>6. ASSUME Present(t) \in Conn, NEW i \in DOMAIN r
      PROVE  /\ r[i].t = "append" => r[i].through <= db.last
             /\ r[i].t = "attach" => i = 1
  <2>1. ASSUME NEW j \in DOMAIN q
        PROVE  (q[j].t = "append" => q[j].through <= db.last) /\ (q[j].t = "attach" => j = 1)
    BY <1>6, <2>1 DEF AssistantInv, CopyInv, Sent, q
  <2>2. CASE y.status = "open"
    BY <1>2, <1>6, <2>1, <2>2 DEF Keeps, Sayable
  <2>3. QED
    BY <1>4, <1>6, <2>1, <2>2
<1>7. CopyInv'
  <2>1. /\ z.n = tab[t].n /\ (z.status # "closed" => tab[t].status # "closed")
        /\ toTab' = [toTab EXCEPT ![t] = toTab[t]]
        /\ tab[t].status = "closed" => toServer' = toServer
    BY <1>2, <1>3 DEF Keeps, AssistantInv, TypeOK
  <2>2. QED
    BY <1>2, <1>5, <1>6, <2>1, OneTab DEF r
<1>8. /\ tab' \in [Tab -> TabState] /\ toServer' \in [Conn -> Seq(ToServer)]
      /\ toTab' \in [Tab -> Seq(ToTab)] /\ PromptInv'
  <2>1. TypeOK /\ PromptInv
    BY DEF AssistantInv
  <2>2. y.out = <<>> \/ Present(t) \in Conn
    BY <1>1 DEF Keeps
  <2>3. toTab' = [toTab EXCEPT ![t] = toTab[t]]
    BY <2>1 DEF TypeOK
  <2>4. /\ Prompts(toTab[t]) = Prompts(toTab[t]) \cup {} /\ {} \cap Prompts(toTab[t]) = {}
        /\ lost \subseteq lost' /\ Conserves(tab[t], {} \cup N, y)
    <3>1. {} \cup N = N
      OBVIOUS
    <3>2. QED
      BY <3>1
  <2>5. QED
    BY <1>1, <2>1, <2>2, <2>3, <2>4, TabBecomes
<1>9. TypeOK'
  BY <1>8 DEF AssistantInv, TypeOK
<1>10. QED
  BY <1>7, <1>8, <1>9 DEF AssistantInv

\* A tab that runs on keeps both.
LEMMA RunsKeeps ==
  ASSUME AssistantInv, NEW t \in Tab, NEW x, NEW I, NEW y, Same(tab[t], x), Runs(x, I, y, db.last)
  PROVE  Keeps(t, y)
<1>1. /\ Same(x, y) /\ Says(y.out, db.last) /\ (x.status # "open" => y.out = <<>>) /\ tab[t].fold <= db.last
  BY TabIs DEF Runs
<1>2. \A i \in DOMAIN y.out : /\ Sayable(db, tab[t].entries, y.out[i])
                              /\ y.out[i].t = "append" => y.out[i].through <= db.last
  BY <1>1 DEF Says, Sayable
<1>3. QED
  BY <1>1, <1>2 DEF Keeps, Same

\* A runner that says nothing of its prompts keeps those it does not drop.
LEMMA QuietConserves ==
  ASSUME NEW x, NEW y, Prompts(y.out) = {}, Once(y.out), Held(y) \subseteq Held(x),
         Held(x) \cup x.dropped \subseteq Held(y) \cup y.dropped
  PROVE  Conserves(x, {}, y)
BY DEF Conserves

\* One that says nothing of its prompts, and drops or keeps each.
LEMMA TabQuiet ==
  ASSUME AssistantInv, NEW t \in Tab, NEW x, NEW y \in TabState, Becomes(t, y), UNCHANGED <<db, open, toTab, lost, asked>>,
         clears' \in 0 .. MaxClear, faults' \in 0 .. MaxFault,
         x.out = <<>>, Quiet(x, y, db.last), y.fold <= db.last, Tidy(y),
         x.status = tab[t].status,
         y.n = tab[t].n, y.status = tab[t].status, y.entries = tab[t].entries, y.synced = tab[t].synced,
         y.torn = tab[t].torn, Held(y) \subseteq Held(tab[t]),
         Held(tab[t]) \cup tab[t].dropped \subseteq Held(y) \cup y.dropped
  PROVE  AssistantInv'
<1>1. Prompts(x.out) = {} /\ Once(x.out) /\ Says(x.out, db.last)
  BY PromptsOfNone DEF Says
<1>2. Prompts(y.out) = {} /\ Once(y.out) /\ Says(y.out, db.last) /\ (tab[t].status # "open" => y.out = <<>>)
  BY <1>1 DEF Quiet
<1>3. Keeps(t, y)
  BY <1>2 DEF Keeps, Says, Sayable
<1>4. Conserves(tab[t], {}, y)
  BY <1>2, QuietConserves
<1>5. {} \in SUBSET Prompt /\ asked' = asked \cup {} /\ {} \cap asked = {}
  OBVIOUS
<1>6. QED
  BY <1>3, <1>4, <1>5, TabActs

LEMMA TakeQueuedInv == ASSUME AssistantInv, NEW t \in Tab, TakeQueued(t) PROVE AssistantInv'
<1>1. /\ tab[t] \in TabState /\ tab[t].out = <<>> /\ Tidy(tab[t]) /\ tab[t].fold <= db.last
      /\ db.last \in 0 .. MaxSeq /\ db.last \in Nat
  BY TabIs, BoundAssumption
<1>2. PICK p \in tab[t].queue : TabOnly(t, AppendEntry([tab[t] EXCEPT !.queue = @ \ {p}, !.took = @ \cup {p}], 0))
  BY DEF TakeQueued
<1> DEFINE x == [tab[t] EXCEPT !.queue = @ \ {p}, !.took = @ \cup {p}]
           y == AppendEntry(x, 0)
<1>3. /\ x \in TabState /\ Same(tab[t], x) /\ x.out = <<>> /\ x.stage = tab[t].stage /\ x.text = tab[t].text
      /\ x.queue = tab[t].queue \ {p} /\ x.took = tab[t].took \cup {p} /\ x.dropped = tab[t].dropped
      /\ x.claiming = tab[t].claiming
  <2> DEFINE w == tab[t]
             queue == w.queue \ {p}
             took == w.took \cup {p}
  <2>1. /\ w \in TabState /\ w.out = <<>> /\ queue \in SUBSET Prompt /\ took \in SUBSET Prompt
        /\ x = [w EXCEPT !.queue = queue, !.took = took]
    BY <1>1 DEF TabState
  <2>2. w = tab[t] /\ queue = tab[t].queue \ {p} /\ took = tab[t].took \cup {p}
    OBVIOUS
  <2> HIDE DEF w, queue, took, x
  <2>3. x \in TabState
    BY <2>1 DEF TabState
  <2>4. /\ Same(w, x) /\ x.out = w.out /\ x.stage = w.stage /\ x.text = w.text
        /\ x.queue = queue /\ x.took = took /\ x.dropped = w.dropped /\ x.claiming = w.claiming
    BY <2>1 DEF TabState, Same
  <2>5. QED
    BY <2>1, <2>2, <2>3, <2>4
<1>4. TabOnly(t, y)
  BY <1>2
<1> HIDE DEF x
<1>4a. 0 \in 0 .. MaxSeq /\ 0 <= db.last
  BY <1>1, BoundAssumption
<1>5. /\ y \in TabState /\ Quiet(x, y, db.last) /\ Same(x, y)
      /\ y.stage = x.stage /\ y.text = x.text /\ y.queue = x.queue /\ y.took = x.took
      /\ y.dropped = x.dropped /\ y.claiming = x.claiming
  BY <1>1, <1>3, <1>4a, AppendEntryIs
<1> HIDE DEF y
<1>6. Becomes(t, y) /\ UNCHANGED <<db, open, toTab, lost, asked, clears, faults>>
  BY <1>4 DEF TabOnly
<1>7. Tidy(y) /\ Held(y) = Held(tab[t])
  BY <1>1, <1>3, <1>5 DEF Tidy, Held
<1>8. clears' \in 0 .. MaxClear /\ faults' \in 0 .. MaxFault
  BY <1>6 DEF AssistantInv, TypeOK
<1>9. QED
  BY <1>1, <1>3, <1>5, <1>6, <1>7, <1>8, TabQuiet DEF Same

\* The runner that has no prompt in hand ends its run.
LEMMA FinishInv ==
  ASSUME AssistantInv, NEW t \in Tab, NEW x \in TabState, Becomes(t, Finish(x)),
         UNCHANGED <<db, open, toTab, lost, asked>>, clears' \in 0 .. MaxClear, faults' \in 0 .. MaxFault,
         x.out = <<>>, ~x.claiming, x.text = {}, x.fold <= db.last,
         x.n = tab[t].n, x.status = tab[t].status, x.entries = tab[t].entries, x.synced = tab[t].synced,
         x.torn = tab[t].torn, Held(x) = Held(tab[t]), x.dropped = tab[t].dropped
  PROVE  AssistantInv'
<1> DEFINE y == Finish(x)
<1>1. /\ y \in TabState /\ Quiet(x, y, db.last) /\ Same(x, y)
      /\ y.stage = "idle" /\ y.text = {} /\ y.queue = x.queue /\ y.took = x.took
      /\ y.dropped = x.dropped /\ y.claiming = x.claiming
  BY FinishIs
<1>2. Becomes(t, y)
  OBVIOUS
<1> HIDE DEF y
<1>3. Tidy(y) /\ Held(y) = Held(x)
  BY <1>1 DEF Tidy, Held
<1>4. QED
  BY <1>1, <1>2, <1>3, TabQuiet DEF Same

\* A step that only changes what a runner waits for.
LEMMA WaitsInv ==
  ASSUME AssistantInv, NEW t \in Tab, NEW y \in TabState, Becomes(t, y),
         UNCHANGED <<db, open, toTab, lost, asked>>, clears' \in 0 .. MaxClear, faults' \in 0 .. MaxFault,
         y.out = <<>>, y.fold <= db.last, Tidy(y),
         y.n = tab[t].n, y.status = tab[t].status, y.entries = tab[t].entries, y.synced = tab[t].synced,
         y.torn = tab[t].torn, Held(y) \subseteq Held(tab[t]),
         Held(tab[t]) \cup tab[t].dropped \subseteq Held(y) \cup y.dropped
  PROVE  AssistantInv'
<1>1. y.out \in Seq(ToServer) /\ Quiet(tab[t], y, db.last) /\ tab[t].out = <<>>
  BY TabIs DEF Quiet, TabState
<1>2. QED
  BY <1>1, TabQuiet

LEMMA TurnInv ==
  ASSUME AssistantInv, NEW t \in Tab, TurnEnds(t) \/ TurnThrows(t) \/ Stop(t) \/ Folded(t)
  PROVE  AssistantInv'
<1>1. /\ tab[t] \in TabState /\ tab[t].out = <<>> /\ Tidy(tab[t]) /\ tab[t].fold <= db.last
      /\ clears \in 0 .. MaxClear /\ faults \in 0 .. MaxFault
      /\ faults < MaxFault => faults + 1 \in 0 .. MaxFault
  BY TabIs, BoundAssumption DEF AssistantInv, TypeOK
<1>2. CASE TurnEnds(t)
  <2> DEFINE y == [tab[t] EXCEPT !.stage = "saving"]
  <2>1. Becomes(t, y) /\ UNCHANGED <<db, open, toTab, lost, asked, clears, faults>> /\ tab[t].stage = "turn"
    BY <1>2 DEF TurnEnds, TabOnly
  <2>2. /\ y \in TabState /\ Same(tab[t], y) /\ y.out = <<>> /\ y.stage = "saving" /\ y.text = tab[t].text
        /\ y.queue = tab[t].queue /\ y.took = tab[t].took /\ y.dropped = tab[t].dropped
        /\ y.claiming = tab[t].claiming
    BY <1>1 DEF TabState, Stage, Same
  <2> HIDE DEF y
  <2>3. Tidy(y) /\ Held(y) = Held(tab[t])
    BY <1>1, <2>1, <2>2 DEF Tidy, Held
  <2>4. QED
    BY <1>1, <2>1, <2>2, <2>3, WaitsInv DEF Same
<1>3. CASE TurnThrows(t)
  <2>1. /\ Becomes(t, Finish(tab[t])) /\ UNCHANGED <<db, open, toTab, lost, asked, clears>>
        /\ tab[t].stage \in {"turn", "summarizing"} /\ faults' \in 0 .. MaxFault
    BY <1>1, <1>3 DEF TurnThrows, Fault
  <2>2. ~tab[t].claiming /\ tab[t].text = {}
    BY <1>1, <2>1 DEF Tidy
  <2>3. QED
    BY <1>1, <2>1, <2>2, FinishInv
<1>4. CASE Stop(t)
  <2> DEFINE y == [tab[t] EXCEPT !.dropped = @ \cup tab[t].queue, !.queue = {},
                                 !.stage = IF @ = "turn" THEN "saving" ELSE @]
  <2>1. Becomes(t, y) /\ UNCHANGED <<db, open, toTab, lost, asked, clears, faults>>
    BY <1>4 DEF Stop, TabOnly
  <2>2. /\ y \in TabState /\ Same(tab[t], y) /\ y.out = <<>> /\ y.text = tab[t].text
        /\ y.stage = (IF tab[t].stage = "turn" THEN "saving" ELSE tab[t].stage)
        /\ y.queue = {} /\ y.took = tab[t].took /\ y.dropped = tab[t].dropped \cup tab[t].queue
        /\ y.claiming = tab[t].claiming
    BY <1>1 DEF TabState, Stage, Same
  <2> HIDE DEF y
  <2>3. /\ Tidy(y) /\ Held(y) \subseteq Held(tab[t])
        /\ Held(tab[t]) \cup tab[t].dropped \subseteq Held(y) \cup y.dropped
    BY <1>1, <2>2 DEF Tidy, Held
  <2>4. QED
    BY <1>1, <2>1, <2>2, <2>3, WaitsInv DEF Same
<1>5. CASE Folded(t)
  <2>1. /\ Becomes(t, Finish(tab[t])) /\ UNCHANGED <<db, open, toTab, lost, asked, clears, faults>>
        /\ tab[t].stage = "folding"
    BY <1>5 DEF Folded, TabOnly
  <2>2. ~tab[t].claiming /\ tab[t].text = {}
    BY <1>1, <2>1 DEF Tidy
  <2>3. QED
    BY <1>1, <2>1, <2>2, FinishInv
<1>6. QED
  BY <1>2, <1>3, <1>4, <1>5

LEMMA SavedInv == ASSUME AssistantInv, NEW t \in Tab, Saved(t) PROVE AssistantInv'
<1>1. /\ tab[t] \in TabState /\ tab[t].out = <<>> /\ Tidy(tab[t]) /\ tab[t].fold <= db.last
      /\ tab[t].entries \in SUBSET Entry /\ TabSound(db, tab[t], toTab[t], toServer[Present(t)])
      /\ toTab[t] \in Seq(ToTab)
      /\ clears \in 0 .. MaxClear /\ faults \in 0 .. MaxFault
  BY TabIs DEF AssistantInv, TypeOK
<1>2. tab[t].stage = "saving" /\ ~tab[t].claiming /\ tab[t].text = {}
  BY <1>1 DEF Saved, Tidy
<1>3. CASE TabOnly(t, Finish(tab[t]))
  <2>1. Becomes(t, Finish(tab[t])) /\ UNCHANGED <<db, open, toTab, lost, asked, clears, faults>>
    BY <1>3 DEF TabOnly
  <2>2. QED
    BY <1>1, <1>2, <2>1, FinishInv
<1>4. CASE \E e \in tab[t].entries : TabOnly(t, [tab[t] EXCEPT !.stage = "summarizing", !.fold = e.seq])
  <2>1. PICK e \in tab[t].entries : TabOnly(t, [tab[t] EXCEPT !.stage = "summarizing", !.fold = e.seq])
    BY <1>4
  <2> DEFINE y == [tab[t] EXCEPT !.stage = "summarizing", !.fold = e.seq]
  <2>2. Becomes(t, y) /\ UNCHANGED <<db, open, toTab, lost, asked, clears, faults>>
    BY <2>1 DEF TabOnly
  <2>3. e.seq \in 0 .. MaxSeq
    BY <1>1, BoundAssumption DEF Entry, Seqs
  <2>4. e.seq <= db.last
    <3>1. e \in Copied(tab[t].entries, toTab[t])
      BY <1>1, CopiedIs
    <3>2. QED
      BY <1>1, <3>1 DEF TabSound, Known
  <2>5. /\ y \in TabState /\ y.out = <<>> /\ y.stage = "summarizing" /\ y.text = tab[t].text /\ y.fold = e.seq
        /\ y.queue = tab[t].queue /\ y.took = tab[t].took /\ y.dropped = tab[t].dropped
        /\ y.claiming = tab[t].claiming
        /\ y.n = tab[t].n /\ y.status = tab[t].status /\ y.entries = tab[t].entries /\ y.synced = tab[t].synced
        /\ y.torn = tab[t].torn
    BY <1>1, <2>3 DEF TabState, Stage
  <2> HIDE DEF y
  <2>6. Tidy(y) /\ Held(y) = Held(tab[t])
    BY <1>1, <1>2, <2>5 DEF Tidy, Held
  <2>7. QED
    BY <1>1, <2>2, <2>4, <2>5, <2>6, WaitsInv
<1>5. QED
  BY <1>3, <1>4 DEF Saved

LEMMA SummarizedInv == ASSUME AssistantInv, NEW t \in Tab, Summarized(t) PROVE AssistantInv'
<1> DEFINE x == [tab[t] EXCEPT !.fold = 0]
<1>1. /\ tab[t] \in TabState /\ tab[t].out = <<>> /\ Tidy(tab[t]) /\ tab[t].fold <= db.last
      /\ db.last \in 0 .. MaxSeq
      /\ clears \in 0 .. MaxClear /\ faults \in 0 .. MaxFault
  BY TabIs DEF AssistantInv, TypeOK
<1>2. tab[t].stage = "summarizing" /\ ~tab[t].claiming /\ tab[t].text = {}
  BY <1>1 DEF Summarized, Tidy
<1>2a. 0 \in 0 .. MaxSeq
  BY BoundAssumption
<1>3. /\ x \in TabState /\ x.out = <<>> /\ x.stage = "summarizing" /\ x.text = {} /\ x.fold = 0
      /\ x.queue = tab[t].queue /\ x.took = tab[t].took /\ x.dropped = tab[t].dropped
      /\ ~x.claiming
      /\ x.n = tab[t].n /\ x.status = tab[t].status /\ x.entries = tab[t].entries /\ x.synced = tab[t].synced
      /\ x.torn = tab[t].torn
  BY <1>1, <1>2, <1>2a DEF TabState, Stage
<1>4. TabOnly(t, IF x.status = "open" THEN [AppendEntry(x, tab[t].fold) EXCEPT !.stage = "folding"] ELSE Finish(x))
  BY DEF Summarized
<1> HIDE DEF x
<1>5. x.fold <= db.last /\ Held(x) = Held(tab[t])
  BY <1>1, <1>2, <1>3, BoundAssumption DEF Held
<1>6. CASE x.status = "open"
  <2> DEFINE s == AppendEntry(x, tab[t].fold)
             y == [s EXCEPT !.stage = "folding"]
  <2>1. Becomes(t, y) /\ UNCHANGED <<db, open, toTab, lost, asked, clears, faults>>
    BY <1>4, <1>6 DEF TabOnly
  <2>2. tab[t].fold \in 0 .. MaxSeq
    BY <1>1 DEF TabState
  <2>3. /\ s \in TabState /\ Quiet(x, s, db.last) /\ Same(x, s)
        /\ s.text = x.text /\ s.queue = x.queue /\ s.took = x.took
        /\ s.dropped = x.dropped /\ s.claiming = x.claiming
    BY <1>1, <1>3, <2>2, AppendEntryIs
  <2> HIDE DEF s
  <2>4. /\ y \in TabState /\ Same(s, y) /\ y.stage = "folding" /\ y.text = s.text /\ y.queue = s.queue
        /\ y.took = s.took /\ y.dropped = s.dropped /\ y.claiming = s.claiming /\ y.out = s.out
    BY <2>3 DEF TabState, Stage, Same
  <2> HIDE DEF y
  <2>5. Quiet(x, y, db.last)
    BY <2>3, <2>4 DEF Quiet
  <2>6. Tidy(y) /\ Held(y) = Held(x)
    BY <1>3, <2>3, <2>4 DEF Tidy, Held
  <2>7. QED
    BY <1>1, <1>3, <1>5, <2>1, <2>3, <2>4, <2>5, <2>6, TabQuiet DEF Same
<1>7. CASE x.status # "open"
  <2>1. Becomes(t, Finish(x)) /\ UNCHANGED <<db, open, toTab, lost, asked, clears, faults>>
    BY <1>4, <1>7 DEF TabOnly
  <2>2. QED
    BY <1>1, <1>3, <1>5, <2>1, FinishInv
<1>8. QED
  BY <1>6, <1>7

LEMMA TimeoutInv ==
  ASSUME AssistantInv, NEW t \in Tab, ClaimTimeout(t) \/ AppendTimeout(t) \/ ClearTimeout(t)
  PROVE  AssistantInv'
<1>1. /\ tab[t] \in TabState /\ tab[t].out = <<>> /\ Tidy(tab[t]) /\ tab[t].fold <= db.last
      /\ db.last \in Nat /\ clears \in 0 .. MaxClear /\ faults \in 0 .. MaxFault
      /\ faults < MaxFault => faults + 1 \in 0 .. MaxFault
  BY TabIs, BoundAssumption DEF AssistantInv, TypeOK
<1>2. CASE ClaimTimeout(t)
  <2> DEFINE y == Claimed(tab[t], FALSE)
  <2>1. Becomes(t, y) /\ UNCHANGED <<db, open, toTab, asked, lost, clears>> /\ faults' \in 0 .. MaxFault
    BY <1>1, <1>2 DEF ClaimTimeout, Fault
  <2>2. Runs(tab[t], {}, y, db.last)
    BY <1>1, ClaimedRuns
  <2> HIDE DEF y
  <2>3. Same(tab[t], tab[t])
    BY DEF Same
  <2>4. Keeps(t, y)
    BY <2>2, <2>3, RunsKeeps
  <2>5. y \in TabState /\ Tidy(y) /\ Conserves(tab[t], {}, y)
    BY <2>2 DEF Runs
  <2>6. {} \in SUBSET Prompt /\ asked' = asked \cup {} /\ {} \cap asked = {}
    BY <2>1
  <2>7. QED
    BY <1>1, <2>1, <2>4, <2>5, <2>6, TabActs
<1>3. CASE AppendTimeout(t)
  <2> DEFINE y == [tab[t] EXCEPT !.appends = 0]
  <2>1. Becomes(t, y) /\ UNCHANGED <<db, open, toTab, asked, lost, clears>> /\ faults' \in 0 .. MaxFault
    BY <1>1, <1>3 DEF AppendTimeout, Fault
  <2>2. /\ y \in TabState /\ Same(tab[t], y) /\ y.out = <<>> /\ y.text = tab[t].text /\ y.stage = tab[t].stage
        /\ y.queue = tab[t].queue /\ y.took = tab[t].took /\ y.dropped = tab[t].dropped
        /\ y.claiming = tab[t].claiming
    BY <1>1 DEF TabState, Same
  <2> HIDE DEF y
  <2>3. Tidy(y) /\ Held(y) = Held(tab[t])
    BY <1>1, <2>2 DEF Tidy, Held
  <2>4. QED
    BY <1>1, <2>1, <2>2, <2>3, WaitsInv DEF Same
<1>4. CASE ClearTimeout(t)
  <2> DEFINE y == [tab[t] EXCEPT !.clearing = FALSE]
  <2>1. Becomes(t, y) /\ UNCHANGED <<db, open, toTab, asked, lost, clears>> /\ faults' \in 0 .. MaxFault
    BY <1>1, <1>4 DEF ClearTimeout, Fault
  <2>2. /\ y \in TabState /\ Same(tab[t], y) /\ y.out = <<>> /\ y.text = tab[t].text /\ y.stage = tab[t].stage
        /\ y.queue = tab[t].queue /\ y.took = tab[t].took /\ y.dropped = tab[t].dropped
        /\ y.claiming = tab[t].claiming
    BY <1>1 DEF TabState, Same
  <2> HIDE DEF y
  <2>3. Tidy(y) /\ Held(y) = Held(tab[t])
    BY <1>1, <2>2 DEF Tidy, Held
  <2>4. QED
    BY <1>1, <2>1, <2>2, <2>3, WaitsInv DEF Same
<1>5. QED
  BY <1>2, <1>3, <1>4

LEMMA AskPromptInv == ASSUME AssistantInv, NEW t \in Tab, NEW p \in Prompt, AskPrompt(t, p) PROVE AssistantInv'
<1>1. /\ tab[t] \in TabState /\ tab[t].out = <<>> /\ Tidy(tab[t]) /\ tab[t].fold <= db.last
      /\ db.last \in Nat /\ clears \in 0 .. MaxClear /\ faults \in 0 .. MaxFault
  BY TabIs, BoundAssumption DEF AssistantInv, TypeOK
<1> DEFINE y == Ask(tab[t], p)
           N == {p}
<1>2. /\ Becomes(t, y) /\ UNCHANGED <<db, open, toTab, lost, clears, faults>>
      /\ asked' = asked \cup N /\ N \cap asked = {} /\ N \in SUBSET Prompt
  BY DEF AskPrompt
<1>3. p \notin Held(tab[t])
  <2>1. Held(tab[t]) \subseteq asked
    BY Places, InIs DEF AssistantInv, PromptInv, Asked
  <2>2. QED
    BY <1>2, <2>1
<1>4. Runs(tab[t], N, y, db.last)
  BY <1>1, <1>3, AskRuns
<1> HIDE DEF y, N
<1>5. Same(tab[t], tab[t])
  BY DEF Same
<1>6. Keeps(t, y)
  BY <1>4, <1>5, RunsKeeps
<1>7. y \in TabState /\ Tidy(y) /\ Conserves(tab[t], N, y)
  BY <1>4 DEF Runs
<1>8. clears' \in 0 .. MaxClear /\ faults' \in 0 .. MaxFault
  BY <1>1, <1>2
<1>9. QED
  BY <1>2, <1>6, <1>7, <1>8, TabActs

\* A tab asks the server for something that is no prompt.
LEMMA AsksInv ==
  ASSUME AssistantInv, NEW t \in Tab, NEW x \in TabState, NEW m \in ToServer, Becomes(t, Send(x, m)),
         UNCHANGED <<db, open, toTab, lost, asked>>, clears' \in 0 .. MaxClear, faults' \in 0 .. MaxFault,
         tab[t].status = "open", ~IsPrompt(m), m.t # "append", Sayable(db, tab[t].entries, m),
         x.out = <<>>, Same(tab[t], x), x.text = tab[t].text, x.stage = tab[t].stage,
         x.queue = tab[t].queue, x.took = tab[t].took, x.dropped = tab[t].dropped, x.claiming = tab[t].claiming
  PROVE  AssistantInv'
<1> DEFINE y == Send(x, m)
<1>1. tab[t].fold <= db.last /\ Tidy(tab[t]) /\ x.out \in Seq(ToServer)
  BY TabIs DEF TabState
<1>2. y \in TabState /\ y = [x EXCEPT !.out = y.out] /\ y.out = Append(x.out, m)
  BY SendIs DEF Same
<1>3. Becomes(t, y)
  OBVIOUS
<1> HIDE DEF y
<1>4. /\ Same(x, y) /\ y.stage = x.stage /\ y.text = x.text /\ y.queue = x.queue /\ y.took = x.took
      /\ y.dropped = x.dropped /\ y.claiming = x.claiming
  BY <1>2 DEF Same, TabState
<1>5. Prompts(y.out) = {} /\ Once(y.out) /\ DOMAIN y.out = {1} /\ y.out[1] = m
  <2>1. Prompts(x.out) = {} /\ Once(x.out) /\ Len(x.out) = 0
    BY PromptsOfNone
  <2>2. Prompts(Append(x.out, m)) = {} /\ Once(Append(x.out, m))
    <3>1. /\ Prompts(Append(x.out, m)) = Prompts(x.out) \cup (IF IsPrompt(m) THEN {m.p} ELSE {})
          /\ Once(x.out) /\ (IsPrompt(m) => m.p \notin Prompts(x.out)) => Once(Append(x.out, m))
      BY <1>1, PromptsOfAppend
    <3>2. QED
      BY <2>1, <3>1
  <2>3. DOMAIN Append(x.out, m) = {1} /\ Append(x.out, m)[1] = m
    BY <1>1, <2>1
  <2>4. QED
    BY <1>2, <2>2, <2>3
<1>6. Keeps(t, y)
  BY <1>1, <1>4, <1>5 DEF Keeps, Same
<1>7. Tidy(y) /\ Held(y) = Held(tab[t])
  BY <1>1, <1>4 DEF Tidy, Held
<1>8. Conserves(tab[t], {}, y)
  BY <1>4, <1>5, <1>7, QuietConserves
<1>9. {} \in SUBSET Prompt /\ asked' = asked \cup {} /\ {} \cap asked = {}
  OBVIOUS
<1>10. QED
  BY <1>2, <1>3, <1>6, <1>7, <1>8, <1>9, TabActs

LEMMA ClearInv == ASSUME AssistantInv, NEW t \in Tab, Clear(t) PROVE AssistantInv'
<1>1. tab[t] \in TabState /\ tab[t].out = <<>> /\ clears \in 0 .. MaxClear /\ faults \in 0 .. MaxFault
  BY TabIs DEF AssistantInv, TypeOK
<1> DEFINE x == [tab[t] EXCEPT !.clearing = TRUE]
           m == [t |-> "clear"]
<1>2. /\ Becomes(t, Send(x, m)) /\ UNCHANGED <<db, open, toTab, asked, lost, faults>> /\ tab[t].status = "open"
      /\ clears' \in 0 .. MaxClear
  BY <1>1, BoundAssumption DEF Clear
<1>3. m \in ToServer /\ ~IsPrompt(m) /\ m.t # "append" /\ Sayable(db, tab[t].entries, m)
  BY Messages DEF IsPrompt, Sayable
<1>4. /\ x \in TabState /\ Same(tab[t], x) /\ x.out = <<>> /\ x.text = tab[t].text /\ x.stage = tab[t].stage
      /\ x.queue = tab[t].queue /\ x.took = tab[t].took /\ x.dropped = tab[t].dropped
      /\ x.claiming = tab[t].claiming
  BY <1>1 DEF TabState, Same
<1> HIDE DEF x, m
<1>5. QED
  BY <1>1, <1>2, <1>3, <1>4, AsksInv

LEMMA LoadEarlierInv == ASSUME AssistantInv, NEW t \in Tab, LoadEarlier(t) PROVE AssistantInv'
<1>1. /\ tab[t] \in TabState /\ tab[t].out = <<>> /\ clears \in 0 .. MaxClear /\ faults \in 0 .. MaxFault
      /\ tab[t].entries \in SUBSET Entry
  BY TabIs DEF AssistantInv, TypeOK
<1> DEFINE x == [tab[t] EXCEPT !.loading = TRUE]
           b == Least(Seqnos(tab[t].entries))
           m == [t |-> "history", before |-> b]
<1>2. /\ Becomes(t, Send(x, m)) /\ UNCHANGED <<db, open, toTab, asked, lost, clears, faults>>
      /\ tab[t].status = "open" /\ tab[t].entries # {}
  BY DEF LoadEarlier, TabOnly
<1>3. b \in Seqs /\ Marks(db, tab[t].entries, b)
  <2>1. /\ Seqnos(tab[t].entries) \in SUBSET Nat /\ Seqnos(tab[t].entries) # {}
        /\ \A n \in Seqnos(tab[t].entries) : n \in Seqs
    BY <1>1, <1>2, BoundAssumption DEF Seqnos, Entry, Seqs
  <2>2. b \in Seqnos(tab[t].entries)
    BY <2>1, LeastIs
  <2>3. \E f \in tab[t].entries : f.seq = b
    BY <2>2 DEF Seqnos
  <2>4. QED
    BY <2>1, <2>2, <2>3 DEF Marks
<1> HIDE DEF b
<1>4. m \in ToServer /\ ~IsPrompt(m) /\ m.t # "append" /\ Sayable(db, tab[t].entries, m)
  BY <1>3, Messages DEF IsPrompt, Sayable
<1>5. /\ x \in TabState /\ Same(tab[t], x) /\ x.out = <<>> /\ x.text = tab[t].text /\ x.stage = tab[t].stage
      /\ x.queue = tab[t].queue /\ x.took = tab[t].took /\ x.dropped = tab[t].dropped
      /\ x.claiming = tab[t].claiming
  BY <1>1 DEF TabState, Same
<1> HIDE DEF x, m
<1>6. QED
  BY <1>1, <1>2, <1>4, <1>5, AsksInv

LEMMA OpenedInv == ASSUME AssistantInv, NEW t \in Tab, Opened(t) PROVE AssistantInv'
<1> DEFINE a == Largest(Seqnos(tab[t].entries))
           m == [t |-> "attach", after |-> a]
           x == [tab[t] EXCEPT !.status = "open", !.synced = FALSE]
           y == Send(x, m)
           z == [y EXCEPT !.out = <<>>]
           q == toServer[Present(t)]
           r == toServer'[Present(t)]
<1>1. /\ tab[t] \in TabState /\ tab[t].out = <<>> /\ Tidy(tab[t]) /\ tab[t].entries \in SUBSET Entry
      /\ toTab[t] \in Seq(ToTab) /\ Once(toTab[t])
      /\ TabSound(db, tab[t], toTab[t], q) /\ db \in Db
      /\ tab[t].status = "connecting" /\ Present(t) \in Conn /\ q \in Seq(ToServer)
  <2>1. tab[t].status = "connecting" /\ tab[t].status # "closed"
    BY DEF Opened
  <2>2. QED
    BY <2>1, TabIs
<1>2. TabOnly(t, y)
  BY DEF Opened
<1>3. a \in 0 .. MaxSeq
  <2>1. Seqnos(tab[t].entries) \in SUBSET (0 .. MaxSeq)
    BY <1>1, BoundAssumption DEF Seqnos, Entry, Seqs
  <2>2. QED
    BY <2>1, LargestIs
<1> HIDE DEF a
<1>4. m \in ToServer /\ m.t = "attach" /\ m.after = a /\ ~IsPrompt(m)
  BY <1>3, Messages DEF IsPrompt
<1>5. /\ x \in TabState /\ x.out = <<>> /\ x.n = tab[t].n /\ x.status = "open" /\ ~x.synced
      /\ x.entries = tab[t].entries /\ x.torn = tab[t].torn /\ x.fold = tab[t].fold
      /\ x.text = tab[t].text /\ x.stage = tab[t].stage
      /\ x.queue = tab[t].queue /\ x.took = tab[t].took /\ x.dropped = tab[t].dropped
      /\ x.claiming = tab[t].claiming
  BY <1>1 DEF TabState
<1> HIDE DEF m, x
<1>6. y \in TabState /\ y = [x EXCEPT !.out = y.out] /\ y.out = Append(x.out, m)
  BY <1>4, <1>5, SendIs
<1> HIDE DEF y
<1>7. /\ Same(x, y) /\ y.stage = x.stage /\ y.text = x.text /\ y.queue = x.queue /\ y.took = x.took
      /\ y.dropped = x.dropped /\ y.claiming = x.claiming
  BY <1>5, <1>6 DEF Same, TabState
<1>8. Prompts(y.out) = {} /\ Once(y.out) /\ y.out = <<m>> /\ DOMAIN y.out = {1} /\ y.out[1] = m
  <2>1. Prompts(x.out) = {} /\ Once(x.out) /\ Len(x.out) = 0 /\ x.out \in Seq(ToServer)
    BY <1>5, PromptsOfNone
  <2>2. /\ Prompts(Append(x.out, m)) = Prompts(x.out) \cup (IF IsPrompt(m) THEN {m.p} ELSE {})
        /\ Once(x.out) /\ (IsPrompt(m) => m.p \notin Prompts(x.out)) => Once(Append(x.out, m))
    BY <1>4, <2>1, PromptsOfAppend
  <2>3. DOMAIN Append(x.out, m) = {1} /\ Append(x.out, m)[1] = m /\ Append(x.out, m) = <<m>>
    BY <1>4, <1>5, <2>1
  <2>4. QED
    BY <1>4, <1>6, <2>1, <2>2, <2>3
<1>9. Becomes(t, y) /\ UNCHANGED <<db, open, toTab, asked, lost, clears, faults>>
  BY <1>2 DEF TabOnly
<1>10. y.status = "open" /\ y.entries = tab[t].entries /\ ~y.synced /\ y.n = tab[t].n /\ y.torn = tab[t].torn
       /\ y.fold = tab[t].fold
  BY <1>5, <1>7 DEF Same
<1>11. /\ tab' = [tab EXCEPT ![t] = z]
       /\ \A c \in Conn : c # Present(t) => toServer'[c] = toServer[c]
       /\ r = q \o y.out
  BY <1>1, <1>6, <1>9, <1>10, BecomesIs
<1>12. /\ z.n = y.n /\ z.status = y.status /\ z.entries = y.entries /\ z.synced = y.synced /\ z.torn = y.torn
       /\ z.fold = y.fold
  BY <1>6, Emptied DEF Same
<1> HIDE DEF z, q, r
<1>13. q = <<>>
  BY <1>1 DEF TabSound
<1>14. r = <<m>> /\ DOMAIN r = {1} /\ r[1] = m
  BY <1>1, <1>8, <1>11, <1>13
<1>15. TabSound(db, z, toTab[t], r)
  BY <1>1, <1>4, <1>10, <1>12, <1>14, SoundOpened DEF a
<1>16. CopyInv'
  <2>1. /\ z.n = tab[t].n /\ (z.status # "closed" => tab[t].status # "closed")
        /\ toTab' = [toTab EXCEPT ![t] = toTab[t]]
        /\ (tab[t].status = "closed" => toServer' = toServer)
    BY <1>1, <1>9, <1>10, <1>12 DEF AssistantInv, TypeOK
  <2>2. \A i \in DOMAIN r : (r[i].t = "append" => r[i].through <= db.last) /\ (r[i].t = "attach" => i = 1)
    BY <1>4, <1>14
  <2>3. QED
    BY <1>9, <1>11, <1>15, <2>1, <2>2, OneTab DEF r
<1>17. /\ tab' \in [Tab -> TabState] /\ toServer' \in [Conn -> Seq(ToServer)]
       /\ toTab' \in [Tab -> Seq(ToTab)] /\ PromptInv'
  <2>1. Tidy(y) /\ Held(y) = Held(tab[t]) /\ y.dropped = tab[t].dropped
    BY <1>1, <1>5, <1>7 DEF Tidy, Held
  <2>2. Conserves(tab[t], {}, y)
    BY <1>8, <2>1, QuietConserves
  <2>3. toTab' = [toTab EXCEPT ![t] = toTab[t]] /\ TypeOK /\ PromptInv
    BY <1>9 DEF AssistantInv, TypeOK
  <2>4. /\ Prompts(toTab[t]) = Prompts(toTab[t]) \cup {} /\ {} \cap Prompts(toTab[t]) = {}
        /\ lost \subseteq lost' /\ Conserves(tab[t], {} \cup {}, y)
        /\ asked' = asked \cup {} /\ {} \cap asked = {}
    <3>1. {} \cup {} = {}
      OBVIOUS
    <3>2. QED
      BY <1>9, <2>2, <3>1
  <2>5. QED
    BY <1>1, <1>6, <1>9, <2>1, <2>3, <2>4, TabBecomes
<1>18. TypeOK'
  BY <1>9, <1>17 DEF AssistantInv, TypeOK
<1>19. QED
  BY <1>16, <1>17, <1>18 DEF AssistantInv

LEMMA ReadInv == ASSUME AssistantInv, NEW t \in Tab, Read(t) PROVE AssistantInv'
<1> DEFINE m == Head(toTab[t])
           ns == Tail(toTab[t])
           x == tab[t]
           y == Handled(x, m, Present(t))
           z == [y EXCEPT !.out = <<>>]
           q == toServer[Present(t)]
           r == toServer'[Present(t)]
<1>1. /\ x \in TabState /\ x.out = <<>> /\ Tidy(x) /\ x.fold <= db.last
      /\ toTab[t] \in Seq(ToTab) /\ Once(toTab[t]) /\ toTab[t] # <<>>
      /\ TabSound(db, x, toTab[t], q) /\ db \in Db /\ LogSound(db) /\ db.last \in Nat
      /\ x.status = "open" /\ Present(t) \in Conn /\ q \in Seq(ToServer)
  <2>1. tab[t].status = "open" /\ tab[t].status # "closed" /\ toTab[t] # <<>>
    BY DEF Read
  <2>2. QED
    BY <2>1, TabIs, BoundAssumption
<1>2. /\ Becomes(t, y) /\ toTab' = [toTab EXCEPT ![t] = ns]
      /\ UNCHANGED <<db, open, asked, lost, clears, faults>>
  BY DEF Read
<1>3. m \in ToTab /\ ns \in Seq(ToTab)
  BY <1>1, TailIs
<1>4. /\ Prompts(toTab[t]) = Prompts(ns) \cup Given(m) /\ Given(m) \cap Prompts(ns) = {} /\ Once(ns)
  BY <1>1, PromptsOfTail DEF Given
<1>5. Given(m) \cap Held(x) = {}
  <2>1. Prompts(toTab[t]) \cap Held(x) = {}
    <3>1. <<"held", t>> \in Place /\ <<"toTab", t>> \in Place /\ <<"held", t>> # <<"toTab", t>>
      BY Places
    <3>2. In(<<"held", t>>) = Held(x) /\ In(<<"toTab", t>>) = Prompts(toTab[t])
      BY InIs
    <3>3. QED
      BY <3>1, <3>2 DEF AssistantInv, PromptInv, Apart
  <2>2. QED
    BY <1>4, <2>1
<1> HIDE DEF m, x
<1>6. Reads(x, m, y, db.last)
  BY <1>1, <1>3, <1>5, HandledReads
<1> HIDE DEF y
<1>7. y \in TabState /\ Tidy(y) /\ y.out \in Seq(ToServer) /\ y.status = "open" /\ y.n = x.n
  BY <1>1, <1>6 DEF Reads, TabState
<1>8. /\ tab' = [tab EXCEPT ![t] = z]
      /\ \A c \in Conn : c # Present(t) => toServer'[c] = toServer[c]
      /\ \A i \in DOMAIN r :
             \/ i \in DOMAIN q /\ r[i] = q[i]
             \/ \E k \in DOMAIN y.out : r[i] = y.out[k] /\ i = Len(q) + k
  BY <1>1, <1>2, <1>7, BecomesIs
<1>9. /\ z.n = y.n /\ z.status = y.status /\ z.entries = y.entries /\ z.synced = y.synced /\ z.torn = y.torn
      /\ z.fold = y.fold
  BY <1>7, Emptied DEF Same
<1> HIDE DEF z, q, r, ns
<1>10. /\ \A k \in DOMAIN y.out : /\ Sayable(db, z.entries, y.out[k])
                                  /\ y.out[k].t = "append" => y.out[k].through <= db.last
                                  /\ y.out[k].t # "attach"
  BY <1>6 DEF Reads, Says, Sayable
<1>11. TabSound(db, z, ns, r)
  <2>1. TabSound(db, z, ns, q)
    <3>1. /\ z.status = x.status /\ z.torn = x.torn /\ z.fold = x.fold
          /\ z.entries = {e \in x.entries \cup Shows(Head(toTab[t])) : e.seq > ClearsTo(Head(toTab[t]))}
          /\ z.synced = (x.synced \/ Head(toTab[t]).t = "synced")
      BY <1>6, <1>9 DEF Reads, m
    <3>2. QED
      BY <1>1, <3>1, SoundRead DEF ns
  <2>2. /\ z.fold <= db.last
        /\ z.status = "connecting" => r = q
        /\ z.status = "open" =>
             \A i \in DOMAIN r : (\E j \in DOMAIN q : q[j] = r[i]) \/ Sayable(db, z.entries, r[i])
    BY <1>1, <1>6, <1>7, <1>8, <1>9, <1>10 DEF Reads
  <2>3. QED
    BY <2>1, <2>2, SoundActs
<1>12. CopyInv'
  <2>1. /\ z.n = tab[t].n /\ (z.status # "closed" => tab[t].status # "closed")
        /\ (tab[t].status = "closed" => toServer' = toServer)
    BY <1>1, <1>7, <1>9 DEF x
  <2>2. ASSUME NEW i \in DOMAIN r
        PROVE  (r[i].t = "append" => r[i].through <= db.last) /\ (r[i].t = "attach" => i = 1)
    <3>1. ASSUME NEW j \in DOMAIN q
          PROVE  (q[j].t = "append" => q[j].through <= db.last) /\ (q[j].t = "attach" => j = 1)
      BY <1>1, <3>1 DEF AssistantInv, CopyInv, Sent, q
    <3>2. QED
      BY <1>8, <1>10, <2>2, <3>1
  <2>3. QED
    BY <1>2, <1>8, <1>11, <2>1, <2>2, OneTab DEF r
<1>13. /\ tab' \in [Tab -> TabState] /\ toServer' \in [Conn -> Seq(ToServer)]
       /\ toTab' \in [Tab -> Seq(ToTab)] /\ PromptInv'
  <2>1. Conserves(tab[t], Given(m) \cup {}, y)
    <3>1. Given(m) \cup {} = Given(m)
      OBVIOUS
    <3>2. QED
      BY <1>6, <3>1 DEF Reads, x
  <2>2. /\ lost \subseteq lost' /\ asked' = asked \cup {} /\ {} \cap asked = {} /\ TypeOK /\ PromptInv
    BY <1>2 DEF AssistantInv
  <2>3. QED
    BY <1>1, <1>2, <1>3, <1>4, <1>7, <2>1, <2>2, TabBecomes
<1>14. TypeOK'
  BY <1>2, <1>13 DEF AssistantInv, TypeOK
<1>15. QED
  BY <1>12, <1>13, <1>14 DEF AssistantInv

LEMMA ConnFinite == IsFiniteSet(Conn)
<1>1. IsFiniteSet(1 .. MaxConn)
  BY FS_Interval, BoundAssumption
<1>2. QED
  BY <1>1, TabAssumption, FS_Product DEF Conn

\* A tab that may connect has connections left.
LEMMA MayConnect ==
  ASSUME tab \in [Tab -> TabState], NEW t \in Tab,
         Cardinality({c \in Conn : c[2] <= tab[c[1]].n}) < MaxConn
  PROVE  tab[t].n + 1 \in 1 .. MaxConn
<1> DEFINE used == {c \in Conn : c[2] <= tab[c[1]].n}
           own == {t} \X (1 .. MaxConn)
<1>1. tab[t].n \in 0 .. MaxConn
  BY DEF TabState
<1>2. SUFFICES ASSUME tab[t].n = MaxConn PROVE FALSE
  BY <1>1, BoundAssumption
<1>3. own \subseteq used
  <2>1. ASSUME NEW c \in own PROVE c \in Conn /\ c[2] <= tab[c[1]].n
    <3>1. c[1] = t /\ c[2] \in 1 .. MaxConn /\ c = <<c[1], c[2]>>
      BY <2>1
    <3>2. QED
      BY <1>2, <3>1, BoundAssumption DEF Conn
  <2>2. QED
    BY <2>1
<1>4. Cardinality(own) = MaxConn
  <2>1. IsFiniteSet(1 .. MaxConn) /\ Cardinality(1 .. MaxConn) = MaxConn
    BY FS_Interval, BoundAssumption
  <2>2. IsFiniteSet({t}) /\ Cardinality({t}) = 1
    BY FS_Singleton
  <2>3. Cardinality(own) = Cardinality({t}) * Cardinality(1 .. MaxConn)
    BY <2>1, <2>2, FS_Product
  <2>4. QED
    BY <2>1, <2>2, <2>3, BoundAssumption
<1>5. IsFiniteSet(used)
  BY ConnFinite, FS_Subset
<1>6. Cardinality(own) <= Cardinality(used)
  <2> HIDE DEF own, used
  <2>1. QED
    BY <1>3, <1>5, FS_Subset
<1>7. Cardinality(used) \in Nat
  BY <1>5, FS_CardinalityType
<1>8. QED
  BY <1>4, <1>6, <1>7, BoundAssumption

\* Likewise, when nothing is asked.
LEMMA GroupMoves ==
  ASSUME TypeOK, PromptInv, NEW t \in Tab, NEW c \in Conn,
         NEW z \in TabState, tab' = [tab EXCEPT ![t] = z], z.out = <<>>, Tidy(z),
         NEW ms, toTab' = [toTab EXCEPT ![t] = ms], Once(ms),
         NEW q, toServer' = [toServer EXCEPT ![c] = q], Once(q),
         asked' = asked, lost \subseteq lost',
         NEW P, P = Held(tab[t]) \cup Prompts(toTab[t]) \cup Prompts(toServer[c]),
         Held(z) \cup Prompts(ms) \cup Prompts(q) \subseteq P,
         Held(z) \cap Prompts(ms) = {}, Held(z) \cap Prompts(q) = {}, Prompts(ms) \cap Prompts(q) = {},
         P \cup tab[t].dropped \subseteq Held(z) \cup Prompts(ms) \cup Prompts(q) \cup z.dropped \cup lost'
  PROVE  PromptInv'
<1> DEFINE N == {}
<1>1. asked' = asked \cup N /\ N \cap asked = {} /\ Pool(t, c, N) = P
  BY DEF Pool
<1> HIDE DEF N
<1>2. /\ Held(z) \cup Prompts(ms) \cup Prompts(q) \subseteq Pool(t, c, N)
      /\ Pool(t, c, N) \cup tab[t].dropped \subseteq Held(z) \cup Prompts(ms) \cup Prompts(q) \cup z.dropped \cup lost'
  BY <1>1
<1>3. QED
  BY <1>1, <1>2, GroupStep

LEMMA ConnectInv == ASSUME AssistantInv, NEW t \in Tab, Connect(t) PROVE AssistantInv'
<1> DEFINE c == <<t, tab[t].n + 1>>
           h == [t |-> "hello", runner |-> (IF db.runner \in open THEN db.runner ELSE None), cleared |-> db.cleared]
           x == tab[t]
           z == [tab[t] EXCEPT !.n = @ + 1, !.status = "connecting"]
           ms == <<h>>
<1>1. /\ x \in TabState /\ x.out = <<>> /\ Tidy(x) /\ toTab[t] \in Seq(ToTab)
      /\ TabSound(db, x, toTab[t], toServer[Present(t)]) /\ db \in Db /\ LogSound(db)
      /\ tab \in [Tab -> TabState] /\ toTab \in [Tab -> Seq(ToTab)] /\ toServer \in [Conn -> Seq(ToServer)]
      /\ x.status = "closed"
  BY TabIs DEF Connect, AssistantInv, TypeOK
<1>2. /\ tab' = [tab EXCEPT ![t].n = @ + 1, ![t].status = "connecting"]
      /\ open' = open \cup {c} /\ toTab' = [toTab EXCEPT ![t] = ms]
      /\ UNCHANGED <<db, toServer, asked, lost, clears, faults>>
      /\ Cardinality({d \in Conn : d[2] <= tab[d[1]].n}) < MaxConn
  BY DEF Connect
<1>3. x.n + 1 \in 1 .. MaxConn /\ c \in Conn
  BY <1>1, <1>2, MayConnect DEF Conn
<1>4. tab' = [tab EXCEPT ![t] = z]
  BY <1>1, <1>2
<1>5. /\ z \in TabState /\ z.out = <<>> /\ z.n = x.n + 1 /\ z.status = "connecting"
      /\ z.entries = x.entries /\ z.synced = x.synced /\ z.torn = x.torn /\ z.fold = x.fold
      /\ z.text = x.text /\ z.stage = x.stage /\ z.queue = x.queue /\ z.took = x.took /\ z.dropped = x.dropped
      /\ z.claiming = x.claiming
  <2>1. x.n + 1 \in 0 .. MaxConn
    BY <1>3, BoundAssumption
  <2> DEFINE k == x.n + 1
  <2>2. z = [x EXCEPT !.n = k, !.status = "connecting"] /\ k \in 0 .. MaxConn /\ k = x.n + 1
    BY <1>1, <2>1 DEF TabState
  <2> HIDE DEF k, z, x
  <2>3. QED
    BY <1>1, <2>2 DEF TabState
<1>6. h \in ToTab /\ h.t = "hello" /\ h.cleared = db.cleared /\ ~IsPrompt(h)
  BY <1>1 DEF ToTab, IsPrompt, Db
<1> HIDE DEF c, h, x, z
<1>7. ms \in Seq(ToTab) /\ Prompts(ms) = {} /\ Once(ms)
  <2>1. ms \in Seq(ToTab) /\ DOMAIN ms = {1} /\ ms[1] = h
    BY <1>6
  <2>2. QED
    BY <1>6, <2>1, PromptsIs DEF Once
<1> HIDE DEF ms
<1>8. /\ tab'[t] = z /\ toTab'[t] = ms
      /\ \A s \in Tab : s # t => tab'[s] = tab[s] /\ toTab'[s] = toTab[s]
  BY <1>1, <1>2, <1>4
<1>9. toServer[c] = <<>>
  <2>1. c[1] = t /\ c[2] > tab[t].n
    BY <1>1, <1>3 DEF c, x, TabState
  <2>2. QED
    BY <1>3, <2>1 DEF AssistantInv, CopyInv, Sockets
<1>10. TabSound(db, z, ms, toServer[c])
  BY <1>1, <1>5, <1>6, <1>9, SoundConnect DEF ms
<1>11. PromptInv'
  <2>1. Tidy(z) /\ Held(z) = Held(tab[t])
    BY <1>1, <1>5 DEF Tidy, Held, x
  <2>2. Prompts(toTab[t]) = {}
    <3>1. toTab[t] = <<>>
      BY <1>1 DEF TabSound
    <3>2. QED
      BY <3>1, PromptsOfNone
  <2>3. Prompts(toServer[c]) = {}
    BY <1>9, PromptsOfNone
  <2> DEFINE q == toServer[c]
             P == Held(tab[t]) \cup Prompts(toTab[t]) \cup Prompts(toServer[c])
  <2>4. /\ toServer' = [toServer EXCEPT ![c] = q] /\ Once(q) /\ Prompts(q) = {}
        /\ P = Held(tab[t]) \cup Prompts(toTab[t]) \cup Prompts(toServer[c]) /\ P = Held(tab[t])
    BY <1>1, <1>2, <1>9, <2>2, <2>3, PromptsOfNone
  <2> HIDE DEF q, P
  <2>5. /\ Held(z) \cup Prompts(ms) \cup Prompts(q) \subseteq P
        /\ P \cup tab[t].dropped \subseteq Held(z) \cup Prompts(ms) \cup Prompts(q) \cup z.dropped \cup lost'
        /\ Held(z) \cap Prompts(ms) = {} /\ Held(z) \cap Prompts(q) = {}
        /\ Prompts(ms) \cap Prompts(q) = {}
    <3>1. z.dropped = tab[t].dropped
      BY <1>5 DEF x
    <3>2. QED
      BY <1>7, <2>1, <2>4, <3>1
  <2>6. TypeOK /\ PromptInv /\ asked' = asked /\ lost \subseteq lost'
    BY <1>2 DEF AssistantInv
  <2>7. /\ z \in TabState /\ tab' = [tab EXCEPT ![t] = z] /\ z.out = <<>> /\ Tidy(z) /\ c \in Conn
        /\ toTab' = [toTab EXCEPT ![t] = ms] /\ Once(ms)
    BY <1>2, <1>3, <1>4, <1>5, <1>7, <2>1
  <2>8. /\ toServer' = [toServer EXCEPT ![c] = q] /\ Once(q)
        /\ P = Held(tab[t]) \cup Prompts(toTab[t]) \cup Prompts(toServer[c])
    BY <2>4
  <2>9. QED
    BY <2>5, <2>6, <2>7, <2>8, GroupMoves
<1>12. \A s \in Tab : Present(s)' = IF s = t THEN c ELSE Present(s)
  BY <1>5, <1>8 DEF Present, c, x
<1>13. CopyInv'
  <2>1. LogSound(db) /\ Sockets /\ Sent /\ \A s \in Tab : TabSound(db, tab[s], toTab[s], toServer[Present(s)])
    BY DEF AssistantInv, CopyInv
  <2>2. \A s \in Tab : Connected(s)' => tab'[s].n > 0 /\ Present(s)' \in open'
    <3>1. TAKE s \in Tab
    <3>2. CASE s = t
      <4>1. z.n > 0 /\ c \in open'
        BY <1>2, <1>3, <1>5
      <4>2. QED
        BY <1>8, <1>12, <3>2, <4>1
    <3>3. CASE s # t
      BY <1>2, <1>8, <1>12, <2>1, <3>3 DEF Sockets, Connected
    <3>4. QED
      BY <3>2, <3>3
  <2>3. ASSUME NEW d \in Conn, d[2] > tab'[d[1]].n PROVE toServer'[d] = <<>>
    <3>1. d[1] \in Tab /\ d[2] \in 1 .. MaxConn
      BY DEF Conn
    <3>2. d[2] > tab[d[1]].n
      <4>1. CASE d[1] = t
        <5>1. x.n \in Nat /\ d[2] \in Nat
          BY <1>1, <3>1 DEF TabState
        <5>2. d[2] > x.n + 1
          BY <1>5, <1>8, <2>3, <4>1
        <5>3. QED
          BY <4>1, <5>1, <5>2 DEF x
      <4>2. CASE d[1] # t
        BY <1>8, <2>3, <3>1, <4>2
      <4>3. QED
        BY <4>1, <4>2
    <3>3. QED
      BY <1>2, <2>1, <3>2 DEF Sockets
  <2>4. Sockets'
    BY <2>2, <2>3 DEF Sockets
  <2>5. LogSound(db)' /\ Sent'
    BY <1>2, <2>1 DEF Sent
  <2>6. ASSUME NEW s \in Tab PROVE TabSound(db', tab'[s], toTab'[s], toServer'[Present(s)'])
    BY <1>2, <1>8, <1>10, <1>12, <2>1
  <2>7. QED
    BY <2>4, <2>5, <2>6 DEF CopyInv
<1>14. TypeOK'
  <2>1. tab' \in [Tab -> TabState]
    BY <1>1, <1>4, <1>5
  <2>2. toTab' \in [Tab -> Seq(ToTab)]
    BY <1>1, <1>2, <1>7
  <2>3. QED
    BY <1>2, <1>3, <2>1, <2>2 DEF AssistantInv, TypeOK
<1>15. QED
  BY <1>11, <1>13, <1>14 DEF AssistantInv

LEMMA DisconnectInv == ASSUME AssistantInv, NEW t \in Tab, Disconnect(t) PROVE AssistantInv'
<1> DEFINE c == Present(t)
           w == tab[t]
           x == [w EXCEPT !.status = "closed", !.synced = FALSE, !.me = None, !.runner = None,
                          !.appends = 0, !.clearing = FALSE, !.loading = FALSE,
                          !.torn = @ \/ (~w.synced /\ Holed(t))]
           z == Claimed(x, FALSE)
           q == toServer[c]
<1>1. /\ w \in TabState /\ w.out = <<>> /\ Tidy(w) /\ w.fold <= db.last
      /\ toTab[t] \in Seq(ToTab) /\ Once(toTab[t])
      /\ TabSound(db, w, toTab[t], q) /\ db \in Db /\ LogSound(db) /\ db.last \in Nat
      /\ w.status # "closed" /\ c \in Conn /\ q \in Seq(ToServer)
      /\ tab \in [Tab -> TabState] /\ toTab \in [Tab -> Seq(ToTab)] /\ toServer \in [Conn -> Seq(ToServer)]
  BY TabIs, BoundAssumption DEF Disconnect, AssistantInv, TypeOK
<1>2. /\ tab' = [tab EXCEPT ![t] = z] /\ toTab' = [toTab EXCEPT ![t] = <<>>]
      /\ UNCHANGED <<db, open, asked, clears, faults>>
  BY DEF Disconnect
<1>3. PICK k \in 0 .. Len(q) :
        /\ toServer' = [toServer EXCEPT ![c] = SubSeq(q, 1, k)]
        /\ lost' = lost \cup Prompts(toTab[t]) \cup Prompts(SubSeq(q, k + 1, Len(q)))
  BY DEF Disconnect
<1>4. /\ x \in TabState /\ x.out = <<>> /\ x.n = w.n /\ x.status = "closed" /\ ~x.synced
      /\ x.entries = w.entries /\ x.torn = (w.torn \/ (~w.synced /\ Holed(t))) /\ x.fold = w.fold
      /\ x.text = w.text /\ x.stage = w.stage /\ x.queue = w.queue /\ x.took = w.took /\ x.dropped = w.dropped
      /\ x.claiming = w.claiming
  <2>1. (w.torn \/ (~w.synced /\ Holed(t))) \in BOOLEAN
    OBVIOUS
  <2> DEFINE torn == w.torn \/ (~w.synced /\ Holed(t))
  <2>2. torn \in BOOLEAN
    BY <2>1
  <2>3. x = [w EXCEPT !.status = "closed", !.synced = FALSE, !.me = None, !.runner = None,
                      !.appends = 0, !.clearing = FALSE, !.loading = FALSE, !.torn = torn]
    BY <1>1 DEF TabState
  <2>4. torn = (w.torn \/ (~w.synced /\ Holed(t)))
    OBVIOUS
  <2> HIDE DEF torn, x
  <2>5. x \in TabState
    BY <1>1, <2>2, <2>3 DEF TabState
  <2>6. /\ x.n = w.n /\ x.status = "closed" /\ ~x.synced /\ x.entries = w.entries /\ x.torn = torn
        /\ x.fold = w.fold /\ x.out = w.out
    BY <1>1, <2>3 DEF TabState
  <2>7. /\ x.text = w.text /\ x.stage = w.stage /\ x.queue = w.queue /\ x.took = w.took
        /\ x.dropped = w.dropped /\ x.claiming = w.claiming
    BY <1>1, <2>3 DEF TabState
  <2>8. QED
    BY <1>1, <2>4, <2>5, <2>6, <2>7
<1> HIDE DEF x, w, q, c
<1>5. Tidy(x)
  BY <1>1, <1>4 DEF Tidy
<1>6. Runs(x, {}, z, db.last)
  BY <1>1, <1>4, <1>5, ClaimedRuns
<1> HIDE DEF z
<1>7. /\ z \in TabState /\ Tidy(z) /\ z.out = <<>> /\ z.n = w.n /\ z.status = "closed" /\ ~z.synced
      /\ z.entries = w.entries /\ z.torn = x.torn /\ z.fold = w.fold
      /\ Held(z) \subseteq Held(w) /\ Held(w) \cup w.dropped \subseteq Held(z) \cup z.dropped
  <2>1. z.out = <<>> /\ Same(x, z) /\ Conserves(x, {}, z) /\ z \in TabState /\ Tidy(z)
    BY <1>4, <1>6 DEF Runs
  <2>2. Prompts(z.out) = {}
    BY <2>1, PromptsOfNone
  <2>3. Held(x) = Held(w)
    BY <1>4 DEF Held
  <2>4. QED
    BY <1>4, <2>1, <2>2, <2>3 DEF Same, Conserves
<1>8. /\ SubSeq(q, 1, k) \in Seq(ToServer)
      /\ \A i \in DOMAIN SubSeq(q, 1, k) : i \in DOMAIN q /\ SubSeq(q, 1, k)[i] = q[i]
  BY <1>1, <1>3
<1>9. Prompts(q) = Prompts(SubSeq(q, 1, k)) \cup Prompts(SubSeq(q, k + 1, Len(q))) /\ Once(SubSeq(q, 1, k))
  <2>1. Once(q)
    BY <1>1 DEF AssistantInv, PromptInv, AllOnce, q
  <2>2. QED
    BY <1>1, <1>3, <2>1, PromptsOfSub
<1>10. PromptInv'
  <2>1. /\ Held(w) \cap Prompts(toTab[t]) = {} /\ Held(w) \cap Prompts(q) = {}
    <3>1. <<"held", t>> \in Place /\ <<"toTab", t>> \in Place /\ <<"toServer", c>> \in Place
      BY <1>1, Places
    <3>2. /\ In(<<"held", t>>) = Held(w) /\ In(<<"toTab", t>>) = Prompts(toTab[t])
          /\ In(<<"toServer", c>>) = Prompts(q)
      BY <1>1, InIs DEF w, q
    <3>3. <<"held", t>> # <<"toTab", t>> /\ <<"held", t>> # <<"toServer", c>>
      OBVIOUS
    <3>4. QED
      BY <3>1, <3>2, <3>3 DEF AssistantInv, PromptInv, Apart
  <2>2. Prompts(<<>>) = {} /\ Once(<<>>)
    BY PromptsOfNone
  <2> DEFINE none == <<>>
             s == SubSeq(q, 1, k)
  <2>3. Prompts(none) = {} /\ Once(none) /\ toTab' = [toTab EXCEPT ![t] = none]
    BY <1>2, <2>2
  <2>4. /\ toServer' = [toServer EXCEPT ![c] = s] /\ Once(s) /\ Prompts(q) = Prompts(s) \cup Prompts(SubSeq(q, k + 1, Len(q)))
    BY <1>3, <1>9
  <2> HIDE DEF none, s
  <2> DEFINE P == Held(tab[t]) \cup Prompts(toTab[t]) \cup Prompts(toServer[c])
  <2>5. /\ P = Held(tab[t]) \cup Prompts(toTab[t]) \cup Prompts(toServer[c])
        /\ P = Held(w) \cup Prompts(toTab[t]) \cup Prompts(q)
    BY DEF w, q
  <2> HIDE DEF P
  <2>6. /\ Held(z) \cup Prompts(none) \cup Prompts(s) \subseteq P
        /\ P \cup tab[t].dropped \subseteq Held(z) \cup Prompts(none) \cup Prompts(s) \cup z.dropped \cup lost'
        /\ Held(z) \cap Prompts(none) = {} /\ Held(z) \cap Prompts(s) = {} /\ Prompts(none) \cap Prompts(s) = {}
    <3>1. w.dropped = tab[t].dropped
      BY DEF w
    <3>2. QED
      BY <1>3, <1>7, <2>1, <2>3, <2>4, <2>5, <3>1
  <2>7. TypeOK /\ PromptInv /\ asked' = asked /\ lost \subseteq lost'
    BY <1>2, <1>3 DEF AssistantInv
  <2>8. z \in TabState /\ tab' = [tab EXCEPT ![t] = z] /\ z.out = <<>> /\ Tidy(z) /\ c \in Conn
    BY <1>1, <1>2, <1>7
  <2>9. /\ P = Held(tab[t]) \cup Prompts(toTab[t]) \cup Prompts(toServer[c])
        /\ toTab' = [toTab EXCEPT ![t] = none] /\ Once(none)
        /\ toServer' = [toServer EXCEPT ![c] = s] /\ Once(s)
    BY <2>3, <2>4, <2>5
  <2>10. QED
    BY <2>6, <2>7, <2>8, <2>9, GroupMoves
<1>11. TabSound(db, z, <<>>, toServer'[c])
  <2>1. ~z.torn => ~w.torn /\ (w.synced \/ NoHole(db, w.entries))
    BY <1>4, <1>7 DEF Holed, NoHole, w
  <2>2. w.synced => w.status = "open"
    <3>1. w.status \in {"closed", "connecting", "open"}
      BY <1>1 DEF TabState
    <3>2. w.status = "connecting" => ~w.synced
      BY <1>1 DEF TabSound, Attaching, Unsynced
    <3>3. QED
      BY <1>1, <3>1, <3>2
  <2>3. QED
    BY <1>1, <1>7, <2>1, <2>2, SoundClosed
<1>12. CopyInv'
  <2>1. /\ \A d \in Conn : d # c => toServer'[d] = toServer[d]
        /\ toServer'[c] = SubSeq(q, 1, k)
    BY <1>1, <1>3
  <2>2. \A i \in DOMAIN toServer'[c] :
             /\ toServer'[c][i].t = "append" => toServer'[c][i].through <= db.last
             /\ toServer'[c][i].t = "attach" => i = 1
    <3>1. \A i \in DOMAIN q : (q[i].t = "append" => q[i].through <= db.last) /\ (q[i].t = "attach" => i = 1)
      BY <1>1 DEF AssistantInv, CopyInv, Sent, q
    <3>2. QED
      BY <1>8, <2>1, <3>1
  <2>3. /\ z.n = tab[t].n /\ (z.status # "closed" => tab[t].status # "closed")
        /\ tab[t].status = "closed" => toServer' = toServer
    BY <1>1, <1>7 DEF w
  <2>4. QED
    BY <1>2, <1>11, <2>1, <2>2, <2>3, OneTab DEF c
<1>13. TypeOK'
  <2>1. tab' \in [Tab -> TabState] /\ toServer' \in [Conn -> Seq(ToServer)]
    BY <1>1, <1>2, <1>3, <1>7, <1>8
  <2>2. toTab' \in [Tab -> Seq(ToTab)]
    BY <1>1, <1>2
  <2>3. lost' \subseteq Prompt
    <3>1. Prompts(toTab[t]) \subseteq asked /\ Prompts(q) \subseteq asked /\ asked \subseteq Prompt /\ lost \subseteq Prompt
      BY <1>1, Places, InIs DEF AssistantInv, PromptInv, Asked, TypeOK, q
    <3>2. QED
      BY <1>3, <1>9, <3>1
  <2>4. QED
    BY <1>2, <2>1, <2>2, <2>3 DEF AssistantInv, TypeOK
<1>14. QED
  BY <1>10, <1>12, <1>13 DEF AssistantInv
-----------------------------------------------------------------------------
(* Steps of the Durable Object. *)

\* Who holds the right to run is nothing to a tab's copy.
LEMMA SoundSame ==
  ASSUME NEW d, NEW dd, dd.log = d.log, dd.last = d.last, dd.cleared = d.cleared,
         NEW x, NEW ms, NEW q, TabSound(d, x, ms, q)
  PROVE  TabSound(dd, x, ms, q)
BY DEF TabSound, Known, Told, Whole, WholeThrough, WholeFrom, Missing, NoHole, Marks

\* What a tab's connection has sent, but for the first of it.
LEMMA Shorter ==
  ASSUME NEW q \in Seq(ToServer), q # <<>>
  PROVE  /\ Tail(q) \in Seq(ToServer) /\ Head(q) \in ToServer /\ Head(q) = q[1] /\ 1 \in DOMAIN q
         /\ \A i \in DOMAIN Tail(q) : i + 1 \in DOMAIN q /\ Tail(q)[i] = q[i + 1] /\ i + 1 # 1
  OBVIOUS

LEMMA SoundShorter ==
  ASSUME NEW d, NEW x, NEW ms, NEW q \in Seq(ToServer), q # <<>>, TabSound(d, x, ms, q)
  PROVE  TabSound(d, x, ms, Tail(q))
<1> DEFINE r == Tail(q)
<1>1. \A i \in DOMAIN r : \E j \in DOMAIN q : q[j] = r[i]
  BY Shorter
<1>2. x.fold <= d.last /\ (x.status = "connecting" => r = q)
  BY DEF TabSound
<1> HIDE DEF r
<1>3. TabSound(d, x, ms, r)
  BY <1>1, <1>2, SoundActs
<1>4. QED
  BY <1>3 DEF r

Trimmed(d) == toServer[d] # <<>> /\ toServer'[d] = Tail(toServer[d])

\* What is to be shown of a step of the Durable Object.
LEMMA ServerCopies ==
  ASSUME AssistantInv, tab' = tab, \A t \in Tab : Connected(t) => Present(t) \in open',
         \A d \in Conn : toServer'[d] = toServer[d] \/ Trimmed(d),
         db' \in Db, db.last <= db'.last, LogSound(db'),
         \A t \in Tab : TabSound(db', tab[t], toTab'[t], toServer'[Present(t)])
  PROVE  CopyInv'
<1>1. toServer \in [Conn -> Seq(ToServer)] /\ db \in Db
  BY DEF AssistantInv, TypeOK
<1>2. /\ \A t \in Tab : Connected(t) => tab[t].n > 0
      /\ \A c \in Conn : c[2] > tab[c[1]].n => toServer[c] = <<>>
      /\ \A c \in Conn : \A i \in DOMAIN toServer[c] :
           /\ toServer[c][i].t = "append" => toServer[c][i].through <= db.last
           /\ toServer[c][i].t = "attach" => i = 1
  BY DEF AssistantInv, CopyInv, Sockets, Sent
<1>3. Sockets'
  BY <1>2 DEF Sockets, Connected, Present, Trimmed
<1>4. ASSUME NEW c \in Conn, NEW i \in DOMAIN toServer'[c]
      PROVE  /\ toServer'[c][i].t = "append" => toServer'[c][i].through <= db'.last
             /\ toServer'[c][i].t = "attach" => i = 1
  <2>1. PICK j \in DOMAIN toServer[c] : toServer'[c][i] = toServer[c][j] /\ (j = 1 => i = 1)
    <3>1. CASE toServer'[c] = toServer[c]
      BY <1>4, <3>1
    <3>2. CASE Trimmed(c)
      <4>1. toServer[c] \in Seq(ToServer)
        BY <1>1
      <4>2. i + 1 \in DOMAIN toServer[c] /\ toServer'[c][i] = toServer[c][i + 1] /\ i + 1 # 1
        BY <1>4, <3>2, <4>1, Shorter DEF Trimmed
      <4>3. QED
        BY <4>2
    <3>3. QED
      BY <3>1, <3>2
  <2>2. toServer[c][j] \in ToServer
    BY <1>1
  <2>3. toServer[c][j].t = "append" => toServer[c][j].through \in 0 .. MaxSeq
    BY <2>2, ToServerFields
  <2>4. toServer[c][j].t = "append" => toServer[c][j].through <= db'.last
    BY <1>1, <1>2, <2>3, DbFields, BoundAssumption
  <2>5. QED
    BY <1>2, <2>1, <2>4
<1>5. Sent'
  BY <1>4 DEF Sent
<1>6. \A t \in Tab : TabSound(db, tab[t], toTab[t], toServer[Present(t)])'
  BY DEF Present
<1>7. QED
  BY <1>3, <1>5, <1>6 DEF CopyInv

\* A step of the Durable Object that reads no prompt and tells none.
LEMMA ServerPrompts ==
  ASSUME AssistantInv, UNCHANGED <<tab, asked, lost>>,
         \A d \in Conn : toServer'[d] = toServer[d] \/ (Trimmed(d) /\ ~IsPrompt(Head(toServer[d]))),
         \A t \in Tab : \/ toTab'[t] = toTab[t]
                        \/ \E ns \in Seq(ToTab) : /\ toTab'[t] = toTab[t] \o ns
                                                  /\ \A i \in DOMAIN ns : ~IsPrompt(ns[i])
  PROVE  PromptInv'
<1>1. /\ toServer \in [Conn -> Seq(ToServer)] /\ toTab \in [Tab -> Seq(ToTab)]
      /\ \A t \in Tab : Once(toTab[t])
      /\ \A c \in Conn : Once(toServer[c])
  BY DEF AssistantInv, TypeOK, PromptInv, AllOnce
<1>2. ASSUME NEW t \in Tab PROVE Prompts(toTab'[t]) = Prompts(toTab[t]) /\ Once(toTab'[t])
  <2>1. CASE toTab'[t] = toTab[t]
    BY <1>1, <2>1
  <2>2. ASSUME NEW ns \in Seq(ToTab), toTab'[t] = toTab[t] \o ns, \A i \in DOMAIN ns : ~IsPrompt(ns[i])
        PROVE  Prompts(toTab'[t]) = Prompts(toTab[t]) /\ Once(toTab'[t])
    <3>1. Prompts(ns) = {} /\ Once(ns)
      BY <2>2, PromptsIs DEF Once
    <3>2. toTab[t] \in Seq(ToTab) /\ Once(toTab[t]) /\ Prompts(toTab[t]) \cap Prompts(ns) = {}
      BY <1>1, <3>1
    <3> DEFINE w == toTab[t]
    <3>3. w \in Seq(ToTab) /\ ns \in Seq(ToTab) /\ Once(w) /\ Once(ns) /\ Prompts(w) \cap Prompts(ns) = {}
      BY <2>2, <3>1, <3>2
    <3> HIDE DEF w
    <3>4. Prompts(w \o ns) = Prompts(w) \cup Prompts(ns) /\ Once(w \o ns)
      BY <3>3, PromptsOfJoin
    <3>5. QED
      BY <2>2, <3>1, <3>4 DEF w
  <2>3. QED
    BY <2>1, <2>2
<1>3. ASSUME NEW c \in Conn PROVE Prompts(toServer'[c]) = Prompts(toServer[c]) /\ Once(toServer'[c])
  <2>1. CASE toServer'[c] = toServer[c]
    BY <1>1, <2>1
  <2>2. CASE Trimmed(c) /\ ~IsPrompt(Head(toServer[c]))
    <3>1. toServer[c] \in Seq(ToServer) /\ Once(toServer[c]) /\ toServer[c] # <<>>
      BY <1>1, <2>2 DEF Trimmed
    <3>2. /\ Prompts(toServer[c]) = Prompts(Tail(toServer[c])) \cup {}
          /\ Once(Tail(toServer[c]))
      BY <2>2, <3>1, PromptsOfTail
    <3>3. QED
      BY <2>2, <3>2 DEF Trimmed
  <2>3. QED
    BY <2>1, <2>2
<1>4. TypeOK /\ PromptInv
  BY DEF AssistantInv
<1>5. QED
  BY <1>2, <1>3, <1>4, NoPromptMoves

\* What a step that reads a message has in common with the others.
LEMMA ConsumeIs ==
  ASSUME AssistantInv, NEW c \in Conn, NEW k, Receives(c, k), Consume(c)
  PROVE  /\ UNCHANGED <<open, tab, asked, clears, faults>>
         /\ toServer[c] \in Seq(ToServer) /\ toServer[c] # <<>> /\ c \in open
         /\ Head(toServer[c]) \in ToServer /\ Head(toServer[c]).t = k
         /\ toServer' = [toServer EXCEPT ![c] = Tail(toServer[c])]
         /\ toServer' \in [Conn -> Seq(ToServer)]
         /\ Trimmed(c) /\ \A d \in Conn : d # c => toServer'[d] = toServer[d]
         /\ \A t \in Tab : Connected(t) => Present(t) \in open'
<1>1. toServer \in [Conn -> Seq(ToServer)]
  BY DEF AssistantInv, TypeOK
<1>2. /\ toServer[c] # <<>> /\ c \in open /\ Head(toServer[c]).t = k
      /\ toServer' = [toServer EXCEPT ![c] = Tail(toServer[c])]
      /\ UNCHANGED <<open, tab, asked, clears, faults>>
  BY <1>1 DEF Receives, Consume
<1>3. toServer[c] \in Seq(ToServer)
  BY <1>1
<1>4. Head(toServer[c]) \in ToServer /\ Tail(toServer[c]) \in Seq(ToServer)
  BY <1>2, <1>3, Shorter
<1>5. /\ toServer' \in [Conn -> Seq(ToServer)] /\ toServer'[c] = Tail(toServer[c])
      /\ \A d \in Conn : d # c => toServer'[d] = toServer[d]
  BY <1>1, <1>2, <1>4
<1>6. \A t \in Tab : Connected(t) => Present(t) \in open'
  BY <1>2 DEF AssistantInv, CopyInv, Sockets
<1>7. QED
  BY <1>2, <1>3, <1>4, <1>5, <1>6 DEF Trimmed

Plain == {"runner", "clearFailed", "steer", "noRunner"}

\* One plain message to the tabs of some connections, or none.
TellsPlain(cs, m) == toTab' = Post(cs, <<m>>) \/ toTab' = toTab

LEMMA PostIs ==
  ASSUME AssistantInv, NEW cs, NEW m \in ToTab, TellsPlain(cs, m)
  PROVE  /\ toTab' \in [Tab -> Seq(ToTab)]
         /\ \A t \in Tab : \/ toTab'[t] = toTab[t]
                           \/ toTab'[t] = toTab[t] \o <<m>> /\ t \in At(cs) /\ Connected(t)
<1>1. toTab \in [Tab -> Seq(ToTab)]
  BY DEF AssistantInv, TypeOK
<1>2. CASE toTab' = toTab
  BY <1>1, <1>2
<1>3. CASE toTab' = Post(cs, <<m>>)
  <2>1. toTab' = [t \in Tab |-> IF t \in At(cs) THEN toTab[t] \o <<m>> ELSE toTab[t]]
    BY <1>3 DEF Post
  <2>2. \A t \in Tab : toTab[t] \in Seq(ToTab) /\ toTab[t] \o <<m>> \in Seq(ToTab)
    BY <1>1, JoinOne
  <2>3. \A t \in At(cs) : Connected(t)
    BY DEF At, Connected
  <2>4. QED
    BY <2>1, <2>2, <2>3
<1>4. QED
  BY <1>2, <1>3 DEF TellsPlain

\* One who is told something plain has the copy it had.
LEMMA SoundPlain ==
  ASSUME NEW d \in Db, LogSound(d), NEW x \in TabState, NEW ms \in Seq(ToTab), NEW q,
         NEW m \in ToTab, m.t \in Plain, x.status # "closed", TabSound(d, x, ms, q)
  PROVE  TabSound(d, x, ms \o <<m>>, q)
<1> DEFINE ns == <<m>>
           N == {}
<1>1. ns \in Seq(ToTab) /\ DOMAIN ns = {1} /\ ns[1] = m
  OBVIOUS
<1> HIDE DEF ns
<1>2. \A i \in DOMAIN ns : ns[i].t \notin {"hello", "cleared", "synced", "history"}
  BY <1>1 DEF Plain
<1>3. Copied({}, ns) = {}
  <2>1. Shows(m) = {}
    BY DEF Shows, Plain
  <2>2. \A e : e \in Copied({}, ns) <=> e \in {} \/ \E i \in DOMAIN ns : e \in Shows(ns[i])
    BY <1>1, UptoIs DEF Copied
  <2>3. QED
    BY <1>1, <2>1, <2>2
<1>4. /\ N \in SUBSET Entry /\ d.log = d.log \cup N /\ Copied({}, ns) = N
      /\ \A e \in N : d.last < e.seq /\ e.seq <= d.last
      /\ \A e, f \in N : e = f
  BY <1>3
<1>5. d.cleared = d.cleared /\ d.last <= d.last
  BY DbFields
<1> HIDE DEF N
<1>6. TabSound(d, x, ms \o ns, q)
  BY <1>1, <1>2, <1>4, <1>5, SoundPosts
<1>7. QED
  BY <1>6 DEF ns

SameLog == db'.log = db.log /\ db'.last = db.last /\ db'.cleared = db.cleared

LEMMA PlainCopies ==
  ASSUME AssistantInv, tab' = tab, \A t \in Tab : Connected(t) => Present(t) \in open',
         \A d \in Conn : toServer'[d] = toServer[d] \/ Trimmed(d), toServer' \in [Conn -> Seq(ToServer)],
         db' \in Db, SameLog, NEW cs, NEW m \in ToTab, m.t \in Plain, TellsPlain(cs, m)
  PROVE  CopyInv'
<1>1. ASSUME NEW t \in Tab PROVE TabSound(db', tab[t], toTab'[t], toServer'[Present(t)])
  <2> DEFINE x == tab[t]
             ms == toTab[t]
             q == toServer[Present(t)]
  <2>1. /\ x \in TabState /\ ms \in Seq(ToTab) /\ db \in Db /\ LogSound(db) /\ TabSound(db, x, ms, q)
        /\ Connected(t) => Present(t) \in Conn
        /\ Present(t) \in Conn => q \in Seq(ToServer)
    BY <1>1, TabIs DEF Connected, AssistantInv, TypeOK
  <2>2. toTab'[t] = ms \/ (toTab'[t] = ms \o <<m>> /\ x.status # "closed")
    BY PostIs DEF Connected
  <2> DEFINE ks == toTab'[t]
             r == toServer'[Present(t)]
  <2>3. ks = ms \/ (ks = ms \o <<m>> /\ x.status # "closed")
    BY <2>2
  <2>4. Present(t) \in Conn => r = q \/ (q # <<>> /\ r = Tail(q))
    BY DEF Trimmed
  <2> HIDE DEF x, ms, q, ks, r
  <2>5. TabSound(db, x, ks, q)
    <3>1. CASE ks = ms
      BY <2>1, <3>1
    <3>2. CASE ks = ms \o <<m>> /\ x.status # "closed"
      BY <2>1, <3>2, SoundPlain
    <3>3. QED
      BY <2>3, <3>1, <3>2
  <2>6. TabSound(db, x, ks, r)
    <3>1. CASE Present(t) \in Conn /\ r = q
      BY <2>5, <3>1
    <3>2. CASE Present(t) \in Conn /\ q # <<>> /\ r = Tail(q)
      BY <2>1, <2>5, <3>2, SoundShorter
    <3>3. CASE Present(t) \notin Conn
      <4>1. x.status = "closed"
        BY <2>1, <3>3 DEF Connected, x
      <4>2. /\ x.fold <= db.last
            /\ \A i \in DOMAIN q : TRUE
        BY <2>5 DEF TabSound
      <4>3. QED
        BY <2>5, <4>1, <4>2, SoundActs
    <3>4. QED
      BY <2>4, <3>1, <3>2, <3>3
  <2>7. TabSound(db', x, ks, r)
    BY <2>6, SoundSame DEF SameLog
  <2>8. QED
    BY <2>7 DEF x, ks, r
<1>2. db.last <= db'.last
  <2>1. db.last \in Nat
    BY DbFields DEF AssistantInv, TypeOK
  <2>2. QED
    BY <2>1 DEF SameLog
<1>3. LogSound(db')
  BY DEF AssistantInv, CopyInv, LogSound, SameLog
<1>4. QED
  BY <1>1, <1>2, <1>3, ServerCopies

\* A step of the Durable Object that tells no prompt and logs nothing.
LEMMA QuietPost ==
  ASSUME AssistantInv, UNCHANGED <<tab, asked, lost, clears, faults>>, open' \subseteq Conn,
         \A t \in Tab : Connected(t) => Present(t) \in open',
         \A d \in Conn : toServer'[d] = toServer[d] \/ (Trimmed(d) /\ ~IsPrompt(Head(toServer[d]))),
         toServer' \in [Conn -> Seq(ToServer)],
         db' \in Db, SameLog, NEW cs, NEW m \in ToTab, m.t \in {"runner", "clearFailed"}, TellsPlain(cs, m)
  PROVE  AssistantInv'
<1>1. CopyInv'
  BY PlainCopies DEF Plain
<1>2. PromptInv'
  <2>1. ASSUME NEW t \in Tab
        PROVE  \/ toTab'[t] = toTab[t]
               \/ \E ns \in Seq(ToTab) : /\ toTab'[t] = toTab[t] \o ns
                                         /\ \A i \in DOMAIN ns : ~IsPrompt(ns[i])
    <3> DEFINE ns == <<m>>
    <3>1. ns \in Seq(ToTab) /\ \A i \in DOMAIN ns : ~IsPrompt(ns[i])
      BY DEF IsPrompt
    <3>2. toTab'[t] = toTab[t] \/ toTab'[t] = toTab[t] \o ns
      BY PostIs
    <3> HIDE DEF ns
    <3>3. QED
      BY <3>1, <3>2
  <2>2. QED
    BY <2>1, ServerPrompts
<1>3. TypeOK'
  <2>1. toTab' \in [Tab -> Seq(ToTab)]
    BY PostIs
  <2>2. QED
    BY <2>1 DEF AssistantInv, TypeOK
<1>4. QED
  BY <1>1, <1>2, <1>3 DEF AssistantInv

LEMMA RunnerRow ==
  ASSUME AssistantInv, NEW r \in Conn \cup {None}, db' = [db EXCEPT !.runner = r]
  PROVE  db' \in Db /\ SameLog
<1>1. db \in Db
  BY DEF AssistantInv, TypeOK
<1>2. QED
  BY <1>1 DEF Db, SameLog

LEMMA RunnerIs == ASSUME AssistantInv PROVE Runner \in Conn \cup {None}
BY DEF AssistantInv, TypeOK, Db, Runner

LEMMA ClaimInv == ASSUME AssistantInv, NEW c \in Conn, Claim(c) PROVE AssistantInv'
<1> DEFINE m == [t |-> "runner", runner |-> (IF Runner \notin {None, c} THEN Runner ELSE c)]
           cs == IF Runner \notin {None, c} THEN {c} ELSE open
<1>1. Receives(c, "claim") /\ Consume(c) /\ lost' = lost
  BY DEF Claim
<1>2. m \in ToTab /\ m.t \in {"runner", "clearFailed"}
  BY RunnerIs DEF ToTab
<1>3. TellsPlain(cs, m) /\ db' \in Db /\ SameLog
  <2>1. CASE Runner \notin {None, c}
    <3>1. toTab' = Post({c}, <<[t |-> "runner", runner |-> Runner]>>) /\ db' = db
      BY <2>1 DEF Claim
    <3>2. QED
      BY <2>1, <3>1 DEF TellsPlain, SameLog, AssistantInv, TypeOK
  <2>2. CASE Runner \in {None, c}
    <3>1. toTab' = Post(open, <<[t |-> "runner", runner |-> c]>>) /\ db' = [db EXCEPT !.runner = c]
      BY <2>2 DEF Claim, SetRunner
    <3>2. m = [t |-> "runner", runner |-> c] /\ cs = open
      BY <2>2
    <3>3. QED
      BY <3>1, <3>2, RunnerRow DEF TellsPlain
  <2>3. QED
    BY <2>1, <2>2
<1> HIDE DEF m, cs
<1>4. /\ \A d \in Conn : toServer'[d] = toServer[d] \/ (Trimmed(d) /\ ~IsPrompt(Head(toServer[d])))
      /\ \A t \in Tab : Connected(t) => Present(t) \in open'
      /\ toServer' \in [Conn -> Seq(ToServer)] /\ open' \subseteq Conn
      /\ UNCHANGED <<tab, asked, lost, clears, faults>>
  BY <1>1, ConsumeIs DEF IsPrompt, AssistantInv, TypeOK
<1>5. QED
  BY <1>2, <1>3, <1>4, QuietPost

LEMMA ReleaseInv == ASSUME AssistantInv, NEW c \in Conn, ReleaseRow(c) PROVE AssistantInv'
<1> DEFINE m == [t |-> "runner", runner |-> None]
<1>1. Receives(c, "release") /\ Consume(c) /\ lost' = lost
  BY DEF ReleaseRow
<1>2. m \in ToTab /\ m.t \in {"runner", "clearFailed"}
  BY DEF ToTab
<1>3. TellsPlain(open, m) /\ db' \in Db /\ SameLog
  <2>1. CASE Runner = c
    <3>1. toTab' = Post(open, <<m>>) /\ db' = [db EXCEPT !.runner = None]
      BY <2>1 DEF ReleaseRow, SetRunner
    <3>2. QED
      BY <3>1, RunnerRow DEF TellsPlain
  <2>2. CASE Runner # c
    <3>1. UNCHANGED <<db, toTab>>
      BY <2>2 DEF ReleaseRow
    <3>2. QED
      BY <3>1 DEF TellsPlain, SameLog, AssistantInv, TypeOK
  <2>3. QED
    BY <2>1, <2>2
<1> HIDE DEF m
<1>4. /\ \A d \in Conn : toServer'[d] = toServer[d] \/ (Trimmed(d) /\ ~IsPrompt(Head(toServer[d])))
      /\ \A t \in Tab : Connected(t) => Present(t) \in open'
      /\ toServer' \in [Conn -> Seq(ToServer)] /\ open' \subseteq Conn
      /\ UNCHANGED <<tab, asked, lost, clears, faults>>
  BY <1>1, ConsumeIs DEF IsPrompt, AssistantInv, TypeOK
<1>5. QED
  BY <1>2, <1>3, <1>4, QuietPost

LEMMA GoneInv == ASSUME AssistantInv, NEW c \in Conn, Gone(c) PROVE AssistantInv'
<1> DEFINE m == [t |-> "runner", runner |-> None]
           cs == open'
<1>1. /\ open' = open \ {c} /\ At({c}) = {} /\ UNCHANGED <<toServer, tab, asked, lost, clears, faults>>
      /\ \/ db' = [db EXCEPT !.runner = None] /\ toTab' = Post(open', <<m>>)
         \/ UNCHANGED <<db, toTab>>
  BY DEF Gone
<1>2. m \in ToTab /\ m.t \in {"runner", "clearFailed"}
  BY DEF ToTab
<1>3. db' \in Db /\ SameLog /\ TellsPlain(cs, m)
  <2>1. CASE db' = [db EXCEPT !.runner = None] /\ toTab' = Post(open', <<m>>)
    BY <2>1, RunnerRow DEF TellsPlain
  <2>2. CASE UNCHANGED <<db, toTab>>
    BY <2>2 DEF TellsPlain, SameLog, AssistantInv, TypeOK
  <2>3. QED
    BY <1>1, <2>1, <2>2
<1> HIDE DEF m, cs
<1>4. /\ \A d \in Conn : toServer'[d] = toServer[d] \/ (Trimmed(d) /\ ~IsPrompt(Head(toServer[d])))
      /\ toServer' \in [Conn -> Seq(ToServer)] /\ open' \subseteq Conn
      /\ UNCHANGED <<tab, asked, lost, clears, faults>>
  BY <1>1 DEF AssistantInv, TypeOK
<1>5. ASSUME NEW t \in Tab, Connected(t) PROVE Present(t) \in open'
  <2>1. Present(t) \in open
    BY <1>5 DEF AssistantInv, CopyInv, Sockets
  <2>2. Present(t) # c
    BY <1>1, <1>5 DEF At, Connected
  <2>3. QED
    BY <1>1, <2>1, <2>2
<1>6. QED
  BY <1>2, <1>3, <1>4, <1>5, QuietPost

\* What one tab is told, and who it is.
LEMMA AtOne ==
  ASSUME AssistantInv, NEW c
  PROVE  /\ \A s, t \in At({c}) : s = t
         /\ \A t \in At({c}) : t \in Tab /\ Connected(t) /\ Present(t) = c /\ c \in Conn
         /\ \A t \in Tab : Connected(t) /\ Present(t) = c => t \in At({c})
<1>1. \A t \in Tab : t \in At({c}) <=> (Connected(t) /\ Present(t) = c)
  BY DEF At, Connected
<1>2. \A t \in At({c}) : t \in Tab
  BY DEF At
<1>3. \A t \in Tab : Connected(t) => Present(t) \in Conn
  BY TabIs DEF Connected
<1>4. \A s, t \in Tab : Present(s) = Present(t) => s = t
  BY DEF Present
<1>5. QED
  BY <1>1, <1>2, <1>3, <1>4

LEMMA SteerInv == ASSUME AssistantInv, NEW c \in Conn, Steer(c) PROVE AssistantInv'
<1> DEFINE p == Head(toServer[c]).p
           to == IF Runner \in {None, c} THEN c ELSE Runner
           m == [t |-> IF Runner \in {None, c} THEN "noRunner" ELSE "steer", p |-> p]
           cs == {to}
           q == Tail(toServer[c])
<1>1. /\ Receives(c, "steer") /\ Consume(c) /\ db' = db
      /\ toTab' = Post(cs, <<m>>) /\ lost' = IF At({to}) = {} THEN lost \cup {p} ELSE lost
  BY DEF Steer
<1>2. /\ p \in Prompt /\ m \in ToTab /\ m.t \in {"noRunner", "steer"} /\ m.p = p /\ m.t \in Plain
      /\ IsPrompt(Head(toServer[c])) /\ IsPrompt(m)
  <2>1. Head(toServer[c]) \in ToServer /\ Head(toServer[c]).t = "steer"
    BY <1>1, ConsumeIs
  <2>2. p \in Prompt
    BY <2>1, ToServerFields
  <2>3. QED
    BY <2>1, <2>2 DEF ToTab, Plain, IsPrompt
<1>3. TellsPlain(cs, m) /\ db' \in Db /\ SameLog
  BY <1>1 DEF TellsPlain, SameLog, AssistantInv, TypeOK
<1>4. /\ \A d \in Conn : toServer'[d] = toServer[d] \/ Trimmed(d)
      /\ \A t \in Tab : Connected(t) => Present(t) \in open'
      /\ toServer' \in [Conn -> Seq(ToServer)] /\ open' = open
      /\ UNCHANGED <<tab, asked, clears, faults>>
      /\ toServer' = [toServer EXCEPT ![c] = q]
      /\ toServer[c] \in Seq(ToServer) /\ toServer[c] # <<>>
  BY <1>1, ConsumeIs
<1>5. /\ Prompts(toServer[c]) = Prompts(q) \cup {p} /\ Once(q) /\ p \notin Prompts(q)
  <2>1. Once(toServer[c])
    BY DEF AssistantInv, PromptInv, AllOnce
  <2>2. QED
    BY <1>2, <1>4, <2>1, PromptsOfTail
<1> HIDE DEF p, to, m, cs, q
<1>6. CopyInv'
  BY <1>2, <1>3, <1>4, PlainCopies
<1>7. TypeOK'
  <2>1. toTab' \in [Tab -> Seq(ToTab)]
    BY <1>2, <1>3, PostIs
  <2>2. lost' \subseteq Prompt
    BY <1>1, <1>2 DEF AssistantInv, TypeOK
  <2>3. QED
    BY <1>3, <1>4, <2>1, <2>2 DEF AssistantInv, TypeOK
<1>8. PromptInv'
  <2>1. TypeOK /\ PromptInv /\ asked' = asked /\ lost \subseteq lost'
    BY <1>1, <1>4 DEF AssistantInv
  \* the tab that is told, if any is
  <2>2. ASSUME NEW t \in Tab, NEW z, NEW ms, z = tab[t], toTab' = [toTab EXCEPT ![t] = ms],
               Once(ms), Prompts(ms) \subseteq Prompts(toTab[t]) \cup {p},
               Prompts(toTab[t]) \cup {p} \subseteq Prompts(ms) \cup lost'
        PROVE  PromptInv'
    <3>1. /\ z \in TabState /\ tab' = [tab EXCEPT ![t] = z] /\ z.out = <<>> /\ Tidy(z)
          /\ tab \in [Tab -> TabState]
      BY <1>4, <2>2, TabIs DEF AssistantInv, TypeOK
    <3> DEFINE P == Held(tab[t]) \cup Prompts(toTab[t]) \cup Prompts(toServer[c])
    <3>2. P = Held(tab[t]) \cup Prompts(toTab[t]) \cup Prompts(toServer[c])
      OBVIOUS
    <3> HIDE DEF P
    <3>3. /\ Held(z) \cap Prompts(toTab[t]) = {} /\ Held(z) \cap Prompts(toServer[c]) = {}
          /\ Prompts(toTab[t]) \cap Prompts(toServer[c]) = {}
      <4>1. <<"held", t>> \in Place /\ <<"toTab", t>> \in Place /\ <<"toServer", c>> \in Place
        BY Places
      <4>2. /\ In(<<"held", t>>) = Held(z) /\ In(<<"toTab", t>>) = Prompts(toTab[t])
            /\ In(<<"toServer", c>>) = Prompts(toServer[c])
        BY <2>2, InIs
      <4>3. <<"held", t>> # <<"toTab", t>> /\ <<"held", t>> # <<"toServer", c>> /\ <<"toTab", t>> # <<"toServer", c>>
        OBVIOUS
      <4>4. QED
        BY <4>1, <4>2, <4>3 DEF AssistantInv, PromptInv, Apart
    <3>4. /\ Held(z) \cup Prompts(ms) \cup Prompts(q) \subseteq P
          /\ P \cup tab[t].dropped \subseteq Held(z) \cup Prompts(ms) \cup Prompts(q) \cup z.dropped \cup lost'
          /\ Held(z) \cap Prompts(ms) = {} /\ Held(z) \cap Prompts(q) = {}
          /\ Prompts(ms) \cap Prompts(q) = {}
      BY <1>5, <2>2, <3>2, <3>3
    <3>5. toTab' = [toTab EXCEPT ![t] = ms] /\ Once(ms) /\ toServer' = [toServer EXCEPT ![c] = q] /\ Once(q)
      BY <1>4, <1>5, <2>2
    <3>6. QED
      BY <2>1, <3>1, <3>2, <3>4, <3>5, GroupMoves
  <2>3. CASE At({to}) = {}
    <3> DEFINE s == c[1]
               ms == toTab[s]
    <3>1. s \in Tab /\ toTab \in [Tab -> Seq(ToTab)]
      BY DEF Conn, AssistantInv, TypeOK
    <3>2. toTab' = toTab
      BY <1>1, <2>3, <3>1 DEF Post, cs
    <3>3. toTab' = [toTab EXCEPT ![s] = ms] /\ Once(ms) /\ Prompts(ms) = Prompts(toTab[s])
      BY <3>1, <3>2 DEF AssistantInv, PromptInv, AllOnce
    <3>4. p \in lost'
      BY <1>1, <2>3
    <3> HIDE DEF s, ms
    <3>5. QED
      BY <2>2, <3>1, <3>3, <3>4
  <2>4. CASE At({to}) # {}
    <3>1. PICK t \in At({to}) : TRUE
      BY <2>4
    <3> DEFINE w == toTab[t]
               ns == <<m>>
               ms == w \o ns
    <3>2. /\ t \in Tab /\ \A s \in Tab : s \in At({to}) <=> s = t
          /\ toTab \in [Tab -> Seq(ToTab)] /\ w \in Seq(ToTab) /\ Once(w)
      BY <3>1, AtOne DEF AssistantInv, TypeOK, PromptInv, AllOnce
    <3>3. toTab' = [toTab EXCEPT ![t] = ms]
      BY <1>1, <3>2 DEF Post, cs
    <3>4. ns \in Seq(ToTab) /\ DOMAIN ns = {1} /\ ns[1] = m
      BY <1>2
    <3>5. Prompts(ns) = {p} /\ Once(ns)
      <4> HIDE DEF ns
      <4>1. \A r : r \in Prompts(ns) <=> r = p
        BY <1>2, <3>4, PromptsIs
      <4>2. QED
        BY <3>4, <4>1 DEF Once
    <3>6. p \notin Prompts(w)
      <4>1. <<"toTab", t>> \in Place /\ <<"toServer", c>> \in Place /\ <<"toTab", t>> # <<"toServer", c>>
        BY <3>2, Places
      <4>2. In(<<"toTab", t>>) = Prompts(w) /\ In(<<"toServer", c>>) = Prompts(toServer[c])
        BY <3>2, InIs
      <4>3. QED
        BY <1>5, <4>1, <4>2 DEF AssistantInv, PromptInv, Apart
    <3>7. Prompts(w) \cap Prompts(ns) = {}
      BY <3>5, <3>6
    <3> HIDE DEF ns, w
    <3>8. Prompts(ms) = Prompts(w) \cup Prompts(ns) /\ Once(ms)
      BY <3>2, <3>4, <3>5, <3>7, PromptsOfJoin
    <3> HIDE DEF ms
    <3>9. w = toTab[t]
      BY DEF w
    <3>10. QED
      BY <2>2, <3>2, <3>3, <3>5, <3>8, <3>9
  <2>5. QED
    BY <2>3, <2>4
<1>9. QED
  BY <1>6, <1>7, <1>8 DEF AssistantInv

\* A copy is sound whether or not what its tab sent has been read, unless that counts.
LEMMA SoundTrimmed ==
  ASSUME AssistantInv, NEW t \in Tab, \A d \in Conn : toServer'[d] = toServer[d] \/ Trimmed(d),
         NEW d, NEW ms, TabSound(d, tab[t], ms, toServer[Present(t)])
  PROVE  TabSound(d, tab[t], ms, toServer'[Present(t)])
<1> DEFINE x == tab[t]
           q == toServer[Present(t)]
           r == toServer'[Present(t)]
<1>1. /\ Connected(t) => Present(t) \in Conn
      /\ Present(t) \in Conn => q \in Seq(ToServer)
  BY TabIs DEF Connected, AssistantInv, TypeOK
<1>2. TabSound(d, x, ms, q)
  OBVIOUS
<1>3. CASE Present(t) \in Conn /\ r = q
  BY <1>2, <1>3
<1>4. CASE Present(t) \in Conn /\ q # <<>> /\ r = Tail(q)
  <2> HIDE DEF q, x, r
  <2>1. TabSound(d, x, ms, Tail(q))
    BY <1>1, <1>2, <1>4, SoundShorter
  <2>2. TabSound(d, x, ms, r)
    BY <1>4, <2>1
  <2>3. QED
    BY <2>2 DEF x, r
<1>5. CASE Present(t) \notin Conn
  <2>1. x.status = "closed"
    BY <1>1, <1>5 DEF Connected
  <2>2. x.fold <= d.last
    BY <1>2 DEF TabSound
  <2> HIDE DEF x, q, r
  <2>3. TabSound(d, x, ms, r)
    BY <1>2, <2>1, <2>2, SoundActs
  <2>4. QED
    BY <2>3 DEF x, r
<1>6. QED
  BY <1>3, <1>4, <1>5 DEF Trimmed

\* A step that answers the tab that sent what it reads, and that tab only.
LEMMA AnswerInv ==
  ASSUME AssistantInv, NEW c \in Conn, NEW k, k # "steer", Receives(c, k), Consume(c),
         UNCHANGED <<db, lost>>, NEW ns \in Seq(ToTab), toTab' = Post({c}, ns),
         \A i \in DOMAIN ns : ~IsPrompt(ns[i]),
         \A t \in Tab : Connected(t) /\ Present(t) = c =>
           TabSound(db, tab[t], toTab[t] \o ns, Tail(toServer[c]))
  PROVE  AssistantInv'
<1>1. /\ UNCHANGED <<open, tab, asked, clears, faults>>
      /\ toServer' \in [Conn -> Seq(ToServer)]
      /\ toServer'[c] = Tail(toServer[c])
      /\ \A d \in Conn : toServer'[d] = toServer[d] \/ (Trimmed(d) /\ ~IsPrompt(Head(toServer[d])))
      /\ \A d \in Conn : d # c => toServer'[d] = toServer[d]
      /\ \A t \in Tab : Connected(t) => Present(t) \in open'
  <2>1. /\ UNCHANGED <<open, tab, asked, clears, faults>>
        /\ Head(toServer[c]).t = k /\ Trimmed(c)
        /\ toServer' \in [Conn -> Seq(ToServer)]
        /\ \A d \in Conn : d # c => toServer'[d] = toServer[d]
        /\ \A t \in Tab : Connected(t) => Present(t) \in open'
    BY ConsumeIs
  <2>2. Head(toServer[c]).t # "noRunner" /\ toServer'[c] = Tail(toServer[c])
    <3>1. Head(toServer[c]) \in ToServer
      BY ConsumeIs
    <3>2. QED
      BY <2>1, <3>1, ToServerFields DEF Trimmed
  <2>3. QED
    BY <2>1, <2>2 DEF IsPrompt
<1>2. /\ toTab \in [Tab -> Seq(ToTab)] /\ db \in Db /\ LogSound(db)
      /\ \A t \in Tab : TabSound(db, tab[t], toTab[t], toServer[Present(t)])
  BY DEF AssistantInv, TypeOK, CopyInv
<1>3. /\ toTab' \in [Tab -> Seq(ToTab)]
      /\ \A t \in Tab : \/ toTab'[t] = toTab[t] /\ t \notin At({c})
                        \/ toTab'[t] = toTab[t] \o ns /\ t \in At({c})
  <2>1. toTab' = [t \in Tab |-> IF t \in At({c}) THEN toTab[t] \o ns ELSE toTab[t]]
    BY DEF Post
  <2>2. \A t \in Tab : toTab[t] \in Seq(ToTab) /\ toTab[t] \o ns \in Seq(ToTab)
    BY <1>2
  <2>3. QED
    BY <2>1, <2>2
<1>4. PromptInv'
  <2>1. \A t \in Tab : \/ toTab'[t] = toTab[t]
                       \/ \E es \in Seq(ToTab) : /\ toTab'[t] = toTab[t] \o es
                                                 /\ \A i \in DOMAIN es : ~IsPrompt(es[i])
    BY <1>3
  <2>2. QED
    BY <1>1, <2>1, ServerPrompts
<1>5. ASSUME NEW t \in Tab PROVE TabSound(db, tab[t], toTab'[t], toServer'[Present(t)])
  <2>1. CASE t \in At({c})
    <3>1. Connected(t) /\ Present(t) = c
      BY <2>1, AtOne
    <3>2. QED
      BY <1>1, <1>3, <2>1, <3>1
  <2>2. CASE t \notin At({c})
    <3>1. toTab'[t] = toTab[t]
      BY <1>3, <2>2
    <3>2. \A d \in Conn : toServer'[d] = toServer[d] \/ Trimmed(d)
      BY <1>1
    <3>3. TabSound(db, tab[t], toTab[t], toServer'[Present(t)])
      BY <1>2, <3>2, SoundTrimmed
    <3>4. QED
      BY <3>1, <3>3
  <2>3. QED
    BY <2>1, <2>2
<1>6. CopyInv'
  <2>1. db.last <= db'.last
    BY <1>2, DbFields
  <2>2. \A d \in Conn : toServer'[d] = toServer[d] \/ Trimmed(d)
    BY <1>1
  <2>3. \A t \in Tab : TabSound(db', tab[t], toTab'[t], toServer'[Present(t)])
    BY <1>5
  <2>4. QED
    BY <1>1, <1>2, <2>1, <2>2, <2>3, ServerCopies
<1>7. TypeOK'
  BY <1>1, <1>3 DEF AssistantInv, TypeOK
<1>8. QED
  BY <1>4, <1>6, <1>7 DEF AssistantInv

\* What a tab whose message is read is like.
LEMMA SenderIs ==
  ASSUME AssistantInv, NEW t \in Tab, NEW k, Receives(Present(t), k), Connected(t)
  PROVE  /\ tab[t] \in TabState /\ tab[t].status = "open" /\ toTab[t] \in Seq(ToTab)
         /\ db \in Db /\ LogSound(db) /\ TabSound(db, tab[t], toTab[t], toServer[Present(t)])
         /\ toServer[Present(t)] \in Seq(ToServer) /\ toServer[Present(t)] # <<>>
         /\ Head(toServer[Present(t)]).t = k
         /\ \A i \in DOMAIN toServer[Present(t)] : toServer[Present(t)][i].t = "attach" => i = 1
<1>1. /\ tab[t] \in TabState /\ toTab[t] \in Seq(ToTab) /\ Present(t) \in Conn
      /\ db \in Db /\ LogSound(db) /\ TabSound(db, tab[t], toTab[t], toServer[Present(t)])
      /\ toServer[Present(t)] \in Seq(ToServer)
  BY TabIs DEF Connected
<1>2. toServer[Present(t)] # <<>> /\ Head(toServer[Present(t)]).t = k
  BY DEF Receives
<1>3. tab[t].status \in {"closed", "connecting", "open"}
  BY <1>1 DEF TabState
<1>4. tab[t].status # "connecting"
  BY <1>1, <1>2 DEF TabSound
<1>5. QED
  BY <1>1, <1>2, <1>3, <1>4 DEF Connected, AssistantInv, CopyInv, Sent

LEMMA HistoryInv == ASSUME AssistantInv, NEW c \in Conn, History(c) PROVE AssistantInv'
<1> DEFINE b == Head(toServer[c]).before
           m == [t |-> "history", more |-> FALSE, entries |-> {e \in db.log : e.seq < b}]
           ns == <<m>>
<1>1. Receives(c, "history") /\ Consume(c) /\ UNCHANGED <<db, lost>> /\ toTab' = Post({c}, ns)
  BY DEF History
<1>2. /\ m \in ToTab /\ m.t = "history" /\ m.entries = {e \in db.log : e.seq < Head(toServer[c]).before}
  <2>1. db.log \in SUBSET Entry
    BY DEF AssistantInv, TypeOK, Db
  <2>2. QED
    BY <2>1 DEF ToTab
<1>3. ns \in Seq(ToTab) /\ \A i \in DOMAIN ns : ~IsPrompt(ns[i])
  BY <1>2 DEF IsPrompt
<1> HIDE DEF m, b
<1>4. ASSUME NEW t \in Tab, Connected(t), Present(t) = c
      PROVE  TabSound(db, tab[t], toTab[t] \o ns, Tail(toServer[c]))
  <2> DEFINE x == tab[t]
             ms == toTab[t]
             q == toServer[c]
  <2>1. /\ x \in TabState /\ x.status = "open" /\ ms \in Seq(ToTab)
        /\ db \in Db /\ LogSound(db) /\ TabSound(db, x, ms, q)
        /\ q \in Seq(ToServer) /\ q # <<>> /\ Head(q).t = "history"
        /\ \A i \in DOMAIN q : q[i].t = "attach" => i = 1
    BY <1>1, <1>4, SenderIs
  <2>2. m.entries = {e \in db.log : e.seq < Head(q).before}
    BY <1>2
  <2> HIDE DEF x, ms, q
  <2>3. TabSound(db, x, ms \o <<m>>, Tail(q))
    BY <1>2, <2>1, <2>2, SoundHistory
  <2>4. QED
    BY <2>3 DEF x, ms, q
<1> HIDE DEF ns
<1>5. QED
  BY <1>1, <1>3, <1>4, AnswerInv

LEMMA AttachInv == ASSUME AssistantInv, NEW c \in Conn, Attach(c) PROVE AssistantInv'
<1> DEFINE a == Head(toServer[c]).after
           rows == Replay(a)
           first == [t |-> "entries", entries |-> rows, initial |-> TRUE]
           end == [t |-> "synced"]
           ns == (IF rows = {} THEN <<>> ELSE <<first>>) \o <<end>>
<1>1. Receives(c, "attach") /\ Consume(c) /\ UNCHANGED <<db, lost>> /\ toTab' = Post({c}, ns)
  BY DEF Attach
<1>2. /\ db \in Db /\ LogSound(db) /\ a \in 0 .. MaxSeq
  <2>1. Head(toServer[c]) \in ToServer /\ Head(toServer[c]).t = "attach"
    BY <1>1, ConsumeIs
  <2>2. QED
    BY <2>1, ToServerFields DEF AssistantInv, TypeOK, CopyInv
<1> HIDE DEF a
<1>3. rows \subseteq db.log /\ rows \in SUBSET Entry
  <2>1. rows \subseteq db.log
    BY <1>2, ReplayIs
  <2>2. QED
    BY <1>2, <2>1, DbFields
<1>4. /\ end \in ToTab /\ end.t = "synced" /\ Shows(end) = {} /\ ClearsTo(end) = 0
      /\ first.t = "entries" /\ Shows(first) = rows /\ ClearsTo(first) = 0
  BY DEF ToTab, Shows, ClearsTo
<1>5. first \in ToTab
  BY <1>3 DEF ToTab
<1> HIDE DEF rows, first, end
<1>6. /\ ns \in Seq(ToTab) /\ Len(ns) \in Nat
      /\ rows = {} => DOMAIN ns = {1} /\ ns[1] = end /\ Len(ns) = 1
      /\ rows # {} => DOMAIN ns = {1, 2} /\ ns[1] = first /\ ns[2] = end /\ Len(ns) = 2
  <2>1. CASE rows = {}
    <3>1. ns = <<end>>
      BY <1>4, <2>1
    <3>2. QED
      BY <1>4, <2>1, <3>1
  <2>2. CASE rows # {}
    <3> DEFINE one == <<first>>
    <3>1. one \in Seq(ToTab) /\ Len(one) = 1 /\ one[1] = first /\ ns = one \o <<end>>
      BY <1>5, <2>2
    <3> HIDE DEF one, ns
    <3>2. /\ one \o <<end>> \in Seq(ToTab) /\ Len(one \o <<end>>) = 2
          /\ (one \o <<end>>)[1] = first /\ (one \o <<end>>)[2] = end
      <4>1. one \in Seq(ToTab) /\ end \in ToTab
        BY <1>4, <3>1
      <4> HIDE DEF first, end
      <4>2. /\ one \o <<end>> \in Seq(ToTab) /\ Len(one \o <<end>>) = Len(one) + 1
            /\ \A i \in 1 .. Len(one) : (one \o <<end>>)[i] = one[i]
            /\ (one \o <<end>>)[Len(one) + 1] = end
        BY <4>1
      <4>3. QED
        BY <3>1, <4>2
    <3>3. DOMAIN ns = 1 .. 2 /\ ns[1] = first /\ ns[2] = end /\ Len(ns) = 2 /\ ns \in Seq(ToTab)
      BY <3>1, <3>2
    <3>4. QED
      BY <2>2, <3>3
  <2>3. QED
    BY <2>1, <2>2
<1> HIDE DEF ns
<1>7. /\ \A i \in DOMAIN ns : /\ ~IsPrompt(ns[i]) /\ ClearsTo(ns[i]) = 0
                              /\ ns[i].t = "synced" => i = Len(ns)
                              /\ Shows(ns[i]) \subseteq rows
      /\ rows # {} => \E i \in DOMAIN ns : Shows(ns[i]) = rows
  BY <1>4, <1>6 DEF IsPrompt
<1>8. Copied({}, ns) = rows
  <2>1. DOMAIN ns = 1 .. Len(ns)
    BY <1>6
  <2>2. \A e : e \in Copied({}, ns) <=> \E i \in DOMAIN ns : e \in Shows(ns[i])
    BY <2>1, UptoIs DEF Copied
  <2>3. QED
    BY <1>7, <2>2
<1>9. ASSUME NEW t \in Tab, Connected(t), Present(t) = c
      PROVE  TabSound(db, tab[t], toTab[t] \o ns, Tail(toServer[c]))
  <2> DEFINE x == tab[t]
             ms == toTab[t]
             q == toServer[c]
             ks == ms \o ns
  <2>1. /\ x \in TabState /\ x.status = "open" /\ ms \in Seq(ToTab)
        /\ db \in Db /\ LogSound(db) /\ TabSound(db, x, ms, q)
        /\ q \in Seq(ToServer) /\ q # <<>> /\ Head(q).t = "attach"
        /\ \A i \in DOMAIN q : q[i].t = "attach" => i = 1
    BY <1>1, <1>9, SenderIs
  <2>2. rows = Replay(Head(q).after)
    BY DEF rows, a
  <2> HIDE DEF x, ms, q
  <2>3. x.entries \in SUBSET Entry
    BY <2>1 DEF TabState
  <2>4. Copied(x.entries, ks) = Copied(x.entries, ms) \cup Copied({}, ns)
    BY <1>6, <2>1, <2>3, CopiedJoin
  <2>5. Told(db, x.entries, ms) /\ \A i \in DOMAIN ms : ClearsTo(ms[i]) <= db.cleared
    BY <2>1 DEF TabSound
  <2>6. \A e \in Copied({}, ns) : e.seq > db.cleared
    BY <1>3, <1>8, <2>1, DbFields DEF LogSound
  <2>7. Told(db, x.entries, ks)
    BY <1>6, <2>1, <2>5, <2>6, ToldJoin
  <2>8. /\ ks \in Seq(ToTab) /\ Len(ms) \in Nat /\ Len(ns) \in Nat /\ Len(ks) = Len(ms) + Len(ns)
        /\ DOMAIN ms = 1 .. Len(ms) /\ DOMAIN ns = 1 .. Len(ns) /\ DOMAIN ks = 1 .. Len(ms) + Len(ns)
        /\ \A i \in 1 .. Len(ms) : i \in 1 .. Len(ms) + Len(ns) /\ ks[i] = ms[i]
        /\ \A i \in 1 .. Len(ms) + Len(ns) : i > Len(ms) => i - Len(ms) \in 1 .. Len(ns) /\ ks[i] = ns[i - Len(ms)]
    BY <1>6, <2>1, JoinIs
  <2> HIDE DEF ks
  <2>9. ASSUME NEW i \in DOMAIN ks
        PROVE  ClearsTo(ks[i]) <= db.cleared /\ (Unsynced(x, ms) /\ ks[i].t = "synced" => i = Len(ks))
    <3>1. CASE i \in 1 .. Len(ms)
      BY <2>5, <2>8, <3>1 DEF Unsynced
    <3>2. CASE i \notin 1 .. Len(ms)
      <4>1. i - Len(ms) \in DOMAIN ns /\ ks[i] = ns[i - Len(ms)] /\ i \in Nat
        BY <2>8, <2>9, <3>2
      <4>2. db.cleared \in Nat
        BY <2>1, DbFields
      <4>3. ks[i].t = "synced" => i = Len(ks)
        BY <1>7, <2>8, <4>1
      <4>4. ClearsTo(ks[i]) <= db.cleared
        BY <1>7, <4>1, <4>2
      <4>5. QED
        BY <4>3, <4>4
    <3>3. QED
      BY <3>1, <3>2
  <2>10. /\ ks \in Seq(ToTab) /\ Copied(x.entries, ks) = Copied(x.entries, ms) \cup Replay(Head(q).after)
         /\ \A i \in DOMAIN ks : ClearsTo(ks[i]) <= db.cleared
         /\ Unsynced(x, ms) => \A i \in DOMAIN ks : ks[i].t = "synced" => i = Len(ks)
    BY <1>8, <2>2, <2>4, <2>8, <2>9
  <2>11. TabSound(db, x, ks, Tail(q))
    BY <2>1, <2>7, <2>10, SoundAttach
  <2>12. QED
    BY <2>11 DEF x, ms, q, ks
<1>10. QED
  BY <1>1, <1>6, <1>7, <1>9, AnswerInv

\* A step that reads a message and changes the log tells every connected tab.
LEMMA LogCopies ==
  ASSUME AssistantInv, NEW c \in Conn, NEW k, Receives(c, k), Consume(c),
         db' \in Db, db.last <= db'.last, LogSound(db'),
         \A t \in Tab : TabSound(db', tab[t], toTab'[t], toServer[Present(t)])
  PROVE  CopyInv'
<1>1. /\ tab' = tab /\ \A t \in Tab : Connected(t) => Present(t) \in open'
      /\ \A d \in Conn : toServer'[d] = toServer[d] \/ Trimmed(d)
  BY ConsumeIs
<1>2. \A t \in Tab : TabSound(db', tab[t], toTab'[t], toServer'[Present(t)])
  <2>1. TAKE t \in Tab
  <2> DEFINE d == db'
             ms == toTab'[t]
  <2>2. TabSound(d, tab[t], ms, toServer[Present(t)])
    OBVIOUS
  <2> HIDE DEF d, ms
  <2>3. TabSound(d, tab[t], ms, toServer'[Present(t)])
    BY <1>1, <2>2, SoundTrimmed
  <2>4. QED
    BY <2>3 DEF d, ms
<1>3. QED
  BY <1>1, <1>2, ServerCopies

\* Every connected tab is among those of the open connections.
LEMMA AtOpen == ASSUME AssistantInv PROVE \A t \in Tab : t \in At(open) <=> Connected(t)
BY DEF At, Connected, AssistantInv, CopyInv, Sockets

LEMMA ClearRowsInv == ASSUME AssistantInv, NEW c \in Conn, ClearRows(c) PROVE AssistantInv'
<1>1. /\ Receives(c, "clear") /\ Consume(c) /\ lost' = lost
  BY DEF ClearRows
<1>2. /\ \A d \in Conn : toServer'[d] = toServer[d] \/ (Trimmed(d) /\ ~IsPrompt(Head(toServer[d])))
      /\ \A t \in Tab : Connected(t) => Present(t) \in open'
      /\ toServer' \in [Conn -> Seq(ToServer)] /\ open' \subseteq Conn
      /\ UNCHANGED <<tab, asked, lost, clears, faults>>
  BY <1>1, ConsumeIs DEF IsPrompt, AssistantInv, TypeOK
<1>3. CASE Runner # None
  <2> DEFINE m == [t |-> "clearFailed"]
             cs == {c}
  <2>1. m \in ToTab /\ m.t \in {"runner", "clearFailed"}
    BY DEF ToTab
  <2>2. toTab' = Post(cs, <<m>>) /\ db' = db
    BY <1>3 DEF ClearRows
  <2>3. TellsPlain(cs, m) /\ SameLog /\ db' \in Db
    BY <2>2 DEF TellsPlain, SameLog, AssistantInv, TypeOK
  <2> HIDE DEF m, cs
  <2>4. QED
    BY <1>2, <2>1, <2>3, QuietPost
<1>4. CASE Runner = None
  <2> DEFINE last == IF db.log = {} THEN db.cleared ELSE Largest(Seqnos(db.log))
             m == [t |-> "cleared", through |-> last]
  <2>1. db' = [db EXCEPT !.log = {}, !.cleared = last] /\ toTab' = Post(open, <<m>>)
    BY <1>4 DEF ClearRows
  <2>2. /\ db \in Db /\ LogSound(db) /\ db.log \in SUBSET Entry /\ db.last \in 0 .. MaxSeq
        /\ db.cleared \in 0 .. MaxSeq /\ toTab \in [Tab -> Seq(ToTab)]
        /\ \A e \in Entry : e.seq \in 1 .. MaxSeq /\ e.seq \in Nat
    BY DbFields DEF AssistantInv, TypeOK, CopyInv
  <2>3. /\ last \in 0 .. MaxSeq /\ db.cleared <= last /\ last <= db.last
        /\ \A e \in db.log : e.seq <= last
    <3>1. CASE db.log = {}
      <4>1. last = db.cleared
        BY <3>1
      <4>2. QED
        BY <2>2, <3>1, <4>1 DEF LogSound
    <3>2. CASE db.log # {}
      <4> DEFINE S == Seqnos(db.log)
      <4>1. S \in SUBSET (0 .. MaxSeq) /\ \A n : n \in S <=> \E e \in db.log : e.seq = n
        BY <2>2 DEF Seqnos
      <4>2. last = Largest(S)
        BY <3>2
      <4> HIDE DEF S, last
      <4>3. Largest(S) \in 0 .. MaxSeq /\ Largest(S) \in S \cup {0} /\ \A n \in S : n <= Largest(S)
        BY <4>1, LargestIs
      <4>4. \A e \in db.log : e.seq <= last /\ e.seq \in Nat /\ e.seq > 0 /\ e.seq > db.cleared /\ e.seq <= db.last
        BY <2>2, <4>1, <4>2, <4>3 DEF LogSound
      <4>5. PICK f \in db.log : TRUE
        BY <3>2
      <4>6. f.seq <= last /\ f.seq > db.cleared /\ f.seq \in Nat
        BY <4>4, <4>5
      <4>7. PICK e \in db.log : e.seq = last
        BY <4>1, <4>2, <4>3, <4>4, <4>6
      <4>8. QED
        BY <2>2, <4>2, <4>3, <4>4, <4>6, <4>7
    <3>3. QED
      BY <3>1, <3>2
  <2> HIDE DEF last
  <2>4. /\ m \in ToTab /\ m.t = "cleared" /\ m.through = last /\ ~IsPrompt(m)
    BY <2>3 DEF ToTab, IsPrompt
  <2>5. db' \in Db /\ db'.log = {} /\ db'.cleared = last /\ db'.last = db.last
    BY <2>1, <2>2, <2>3 DEF Db
  <2>6. LogSound(db') /\ db.last <= db'.last
    BY <2>2, <2>3, <2>5 DEF LogSound
  <2> HIDE DEF m
  <2>7. /\ toTab' \in [Tab -> Seq(ToTab)]
        /\ \A t \in Tab : toTab'[t] = IF Connected(t) THEN toTab[t] \o <<m>> ELSE toTab[t]
    <3>1. toTab' = [t \in Tab |-> IF t \in At(open) THEN toTab[t] \o <<m>> ELSE toTab[t]]
      BY <2>1 DEF Post
    <3>2. \A t \in Tab : toTab[t] \in Seq(ToTab) /\ toTab[t] \o <<m>> \in Seq(ToTab)
      BY <2>2, <2>4, JoinOne
    <3>3. QED
      BY <3>1, <3>2, AtOpen
  <2>8. PromptInv'
    <3>1. ASSUME NEW t \in Tab
          PROVE  \/ toTab'[t] = toTab[t]
                 \/ \E ns \in Seq(ToTab) : /\ toTab'[t] = toTab[t] \o ns
                                           /\ \A i \in DOMAIN ns : ~IsPrompt(ns[i])
      <4> DEFINE ns == <<m>>
      <4>1. ns \in Seq(ToTab) /\ \A i \in DOMAIN ns : ~IsPrompt(ns[i])
        BY <2>4
      <4>2. toTab'[t] = toTab[t] \/ toTab'[t] = toTab[t] \o ns
        BY <2>7
      <4> HIDE DEF ns
      <4>3. QED
        BY <4>1, <4>2
    <3>2. QED
      BY <1>2, <3>1, ServerPrompts
  <2>9. ASSUME NEW t \in Tab PROVE TabSound(db', tab[t], toTab'[t], toServer[Present(t)])
    <3> DEFINE x == tab[t]
               ms == toTab[t]
               q == toServer[Present(t)]
               dd == db'
    <3>1. /\ x \in TabState /\ ms \in Seq(ToTab) /\ TabSound(db, x, ms, q)
          /\ x.status = "open" => q \in Seq(ToServer)
      BY TabIs
    <3>2. /\ dd \in Db /\ dd.log = {} /\ dd.last = db.last /\ db.cleared <= dd.cleared
          /\ \A e \in db.log : e.seq <= dd.cleared
          /\ m.t = "cleared" /\ m.through = dd.cleared
      BY <2>3, <2>4, <2>5
    <3>3. toTab'[t] = IF x.status = "closed" THEN ms ELSE ms \o <<m>>
      BY <2>7 DEF Connected
    <3> HIDE DEF x, ms, q, dd
    <3>4. IF x.status = "closed" THEN TabSound(dd, x, ms, q) ELSE TabSound(dd, x, ms \o <<m>>, q)
      BY <2>2, <2>4, <3>1, <3>2, SoundCleared
    <3>5. TabSound(dd, x, toTab'[t], q)
      BY <3>3, <3>4
    <3>6. QED
      BY <3>5 DEF x, q, dd
  <2>10. CopyInv'
    BY <1>1, <2>5, <2>6, <2>9, LogCopies
  <2>11. TypeOK'
    BY <1>2, <2>5, <2>7 DEF AssistantInv, TypeOK
  <2>12. QED
    BY <2>8, <2>10, <2>11 DEF AssistantInv
<1>5. QED
  BY <1>3, <1>4

\* What a tab is told of a new entry: the one that sent it, that it is logged too.
News(ack, e) ==
  (IF ack THEN <<[t |-> "appended"]>> ELSE <<>>)
  \o <<[t |-> "entries", entries |-> {e}, initial |-> FALSE]>>

LEMMA NewsIs ==
  ASSUME NEW ack, NEW e \in Entry
  PROVE  /\ News(ack, e) \in Seq(ToTab) /\ Copied({}, News(ack, e)) = {e}
         /\ \A i \in DOMAIN News(ack, e) :
              /\ ~IsPrompt(News(ack, e)[i])
              /\ News(ack, e)[i].t \notin {"hello", "cleared", "synced", "history"}
<1> DEFINE first == [t |-> "appended"]
           m == [t |-> "entries", entries |-> {e}, initial |-> FALSE]
           ns == News(ack, e)
<1>1. first \in ToTab /\ first.t = "appended" /\ Shows(first) = {}
  BY DEF ToTab, Shows
<1>2. m \in ToTab /\ m.t = "entries" /\ Shows(m) = {e}
  BY DEF ToTab, Shows
<1>3. ns = (IF ack THEN <<first>> ELSE <<>>) \o <<m>>
  BY DEF News
<1> HIDE DEF first, m, ns
<1>4. /\ ns \in Seq(ToTab) /\ DOMAIN ns = 1 .. Len(ns)
      /\ \A i \in DOMAIN ns : ns[i] \in {first, m}
      /\ \E i \in DOMAIN ns : ns[i] = m
  <2>1. CASE ~ack
    <3>1. ns = <<>> \o <<m>>
      BY <1>3, <2>1
    <3>2. ns = <<m>>
      BY <3>1
    <3>3. ns \in Seq(ToTab) /\ DOMAIN ns = {1} /\ Len(ns) = 1 /\ ns[1] = m
      BY <1>2, <3>2
    <3>4. QED
      BY <3>3
  <2>2. CASE ack
    <3> DEFINE one == <<first>>
    <3>1. one \in Seq(ToTab) /\ Len(one) = 1 /\ one[1] = first /\ ns = one \o <<m>>
      BY <1>1, <1>3, <2>2
    <3> HIDE DEF one
    <3>2. /\ one \o <<m>> \in Seq(ToTab) /\ Len(one \o <<m>>) = 2
          /\ (one \o <<m>>)[1] = first /\ (one \o <<m>>)[2] = m
      <4>1. one \in Seq(ToTab) /\ m \in ToTab
        BY <1>2, <3>1
      <4>2. /\ one \o <<m>> \in Seq(ToTab) /\ Len(one \o <<m>>) = Len(one) + 1
            /\ \A i \in 1 .. Len(one) : (one \o <<m>>)[i] = one[i]
            /\ (one \o <<m>>)[Len(one) + 1] = m
        BY <4>1
      <4>3. QED
        BY <3>1, <4>2
    <3>3. DOMAIN ns = 1 .. 2 /\ Len(ns) = 2 /\ ns[1] = first /\ ns[2] = m
      BY <3>1, <3>2
    <3>4. QED
      BY <3>1, <3>2, <3>3
  <2>3. QED
    BY <2>1, <2>2
<1>5. Copied({}, ns) = {e}
  <2>1. \A f : f \in Copied({}, ns) <=> \E i \in DOMAIN ns : f \in Shows(ns[i])
    BY <1>4, UptoIs DEF Copied
  <2>2. QED
    BY <1>1, <1>2, <1>4, <2>1
<1>6. QED
  BY <1>1, <1>2, <1>4, <1>5 DEF IsPrompt, ns

LEMMA AppendRowInv == ASSUME AssistantInv, NEW c \in Conn, AppendRow(c) PROVE AssistantInv'
<1> DEFINE h == Head(toServer[c])
           e == [seq |-> db.last + 1, through |-> h.through]
           told == <<[t |-> "entries", entries |-> {e}, initial |-> FALSE]>>
<1>1. /\ Receives(c, "append") /\ Consume(c) /\ lost' = lost /\ db.last < MaxSeq
      /\ db' = [db EXCEPT !.log = @ \cup {e}, !.last = @ + 1]
      /\ toTab' = [t \in Tab |-> Post(open, (IF t \in At({c}) THEN <<[t |-> "appended"]>> ELSE <<>>)
                                            \o told)[t]]
  BY DEF AppendRow
<1>2. /\ \A d \in Conn : toServer'[d] = toServer[d] \/ (Trimmed(d) /\ ~IsPrompt(Head(toServer[d])))
      /\ \A t \in Tab : Connected(t) => Present(t) \in open'
      /\ toServer' \in [Conn -> Seq(ToServer)] /\ open' \subseteq Conn
      /\ UNCHANGED <<tab, asked, lost, clears, faults>>
  BY <1>1, ConsumeIs DEF IsPrompt, AssistantInv, TypeOK
<1>3. /\ db \in Db /\ LogSound(db) /\ db.log \in SUBSET Entry /\ db.last \in 0 .. MaxSeq
      /\ db.cleared \in Nat /\ db.last \in Nat /\ toTab \in [Tab -> Seq(ToTab)]
      /\ \A f \in Entry : f.seq \in Nat /\ f.seq > 0
  BY DbFields DEF AssistantInv, TypeOK, CopyInv
<1>4. h.through \in 0 .. MaxSeq /\ h.through <= db.last
  <2>1. /\ h \in ToServer /\ h.t = "append" /\ toServer[c] \in Seq(ToServer) /\ toServer[c] # <<>>
    BY <1>1, ConsumeIs
  <2>2. h = toServer[c][1] /\ 1 \in DOMAIN toServer[c]
    BY <2>1, Shorter
  <2>3. h.through <= db.last
    BY <2>1, <2>2 DEF AssistantInv, CopyInv, Sent
  <2>4. QED
    BY <2>1, <2>3, ToServerFields
<1>5. e \in Entry /\ e.seq = db.last + 1 /\ e.through <= db.last /\ e.through \in Nat
  <2>1. db.last + 1 \in 1 .. MaxSeq
    BY <1>1, <1>3, BoundAssumption
  <2>2. QED
    BY <1>4, <2>1, BoundAssumption DEF Entry, Seqs
<1>6. /\ db' \in Db /\ db'.log = db.log \cup {e} /\ db'.last = db.last + 1 /\ db'.cleared = db.cleared
  <2> DEFINE k == db.last + 1
             log == db.log \cup {e}
  <2>1. k \in 0 .. MaxSeq /\ log \in SUBSET Entry
    BY <1>1, <1>3, <1>5, BoundAssumption
  <2>2. db' = [db EXCEPT !.log = log, !.last = k]
    BY <1>1, <1>3 DEF Db
  <2> HIDE DEF k, log
  <2>3. db' \in Db /\ db'.log = log /\ db'.last = k /\ db'.cleared = db.cleared
    BY <1>3, <2>1, <2>2 DEF Db
  <2>4. QED
    BY <2>3 DEF k, log
<1>7. /\ toTab' \in [Tab -> Seq(ToTab)]
      /\ \A t \in Tab : toTab'[t] = IF Connected(t) THEN toTab[t] \o News(t \in At({c}), e) ELSE toTab[t]
  <2>1. ASSUME NEW t \in Tab
        PROVE  /\ toTab'[t] = IF Connected(t) THEN toTab[t] \o News(t \in At({c}), e) ELSE toTab[t]
               /\ toTab'[t] \in Seq(ToTab)
    <3>1. toTab'[t] = IF t \in At(open) THEN toTab[t] \o News(t \in At({c}), e) ELSE toTab[t]
      BY <1>1 DEF Post, News
    <3>2. News(t \in At({c}), e) \in Seq(ToTab) /\ toTab[t] \in Seq(ToTab)
      BY <1>3, <1>5, NewsIs
    <3> DEFINE ns == News(t \in At({c}), e)
               ms == toTab[t]
    <3>3. ms \o ns \in Seq(ToTab)
      <4>1. ms \in Seq(ToTab) /\ ns \in Seq(ToTab)
        BY <3>2
      <4> HIDE DEF ms, ns
      <4>2. QED
        BY <4>1
    <3>4. t \in At(open) <=> Connected(t)
      BY AtOpen
    <3>5. QED
      BY <3>1, <3>2, <3>3, <3>4
  <2>2. DOMAIN toTab' = Tab /\ toTab' = [t \in Tab |-> toTab'[t]]
    BY <1>1
  <2>3. QED
    BY <2>1, <2>2
<1> HIDE DEF e, h, told
<1>8. LogSound(db') /\ db.last <= db'.last
  BY <1>3, <1>5, <1>6 DEF LogSound
<1>9. PromptInv'
  <2>1. ASSUME NEW t \in Tab
        PROVE  \/ toTab'[t] = toTab[t]
               \/ \E ns \in Seq(ToTab) : /\ toTab'[t] = toTab[t] \o ns
                                         /\ \A i \in DOMAIN ns : ~IsPrompt(ns[i])
    <3> DEFINE ns == News(t \in At({c}), e)
    <3>1. ns \in Seq(ToTab) /\ \A i \in DOMAIN ns : ~IsPrompt(ns[i])
      BY <1>5, NewsIs
    <3>2. toTab'[t] = toTab[t] \/ toTab'[t] = toTab[t] \o ns
      BY <1>7
    <3> HIDE DEF ns
    <3>3. QED
      BY <3>1, <3>2
  <2>2. QED
    BY <1>2, <2>1, ServerPrompts
<1>10. ASSUME NEW t \in Tab PROVE TabSound(db', tab[t], toTab'[t], toServer[Present(t)])
  <2> DEFINE x == tab[t]
             ms == toTab[t]
             q == toServer[Present(t)]
             dd == db'
             ns == News(t \in At({c}), e)
             N == {e}
  <2>1. /\ x \in TabState /\ ms \in Seq(ToTab) /\ TabSound(db, x, ms, q)
    BY TabIs
  <2>2. /\ ns \in Seq(ToTab) /\ Copied({}, ns) = N
        /\ \A i \in DOMAIN ns : ns[i].t \notin {"hello", "cleared", "synced", "history"}
    BY <1>5, NewsIs
  <2>3. /\ dd \in Db /\ dd.log = db.log \cup N /\ dd.cleared = db.cleared /\ db.last <= dd.last
        /\ N \in SUBSET Entry /\ \A f, g \in N : f = g
        /\ \A f \in N : db.last < f.seq /\ f.seq <= dd.last
    BY <1>3, <1>5, <1>6
  <2>4. toTab'[t] = IF x.status = "closed" THEN ms ELSE ms \o ns
    BY <1>7 DEF Connected
  <2> HIDE DEF x, ms, q, dd, ns, N
  <2>5. CASE x.status = "closed"
    <3>1. TabSound(dd, x, ms, q)
      BY <1>3, <2>1, <2>3, <2>5, SoundAway
    <3>2. QED
      BY <2>4, <2>5, <3>1 DEF x, q, dd
  <2>6. CASE x.status # "closed"
    <3>1. TabSound(dd, x, ms \o ns, q)
      BY <1>3, <2>1, <2>2, <2>3, <2>6, SoundPosts
    <3>2. QED
      BY <2>4, <2>6, <3>1 DEF x, q, dd
  <2>7. QED
    BY <2>5, <2>6
<1>11. CopyInv'
  BY <1>1, <1>6, <1>8, <1>10, LogCopies
<1>12. TypeOK'
  BY <1>2, <1>6, <1>7 DEF AssistantInv, TypeOK
<1>13. QED
  BY <1>9, <1>11, <1>12 DEF AssistantInv
-----------------------------------------------------------------------------
(* The specification. *)

LEMMA InitialTab == ASSUME Init, NEW t \in Tab PROVE
  /\ tab[t] \in TabState /\ tab[t].out = <<>> /\ Tidy(tab[t]) /\ Held(tab[t]) = {} /\ tab[t].dropped = {}
  /\ tab[t].status = "closed" /\ tab[t].n = 0 /\ tab[t].entries = {} /\ ~tab[t].synced /\ tab[t].fold = 0
<1> DEFINE none == <<>>
           zero == 0
<1>1. none \in Seq(ToServer) /\ none = <<>> /\ zero \in 0 .. MaxConn /\ zero \in 0 .. MaxSeq /\ zero \in Nat /\ zero = 0
  BY BoundAssumption
<1>2. tab[t] = [n |-> zero, status |-> "closed", me |-> None, runner |-> None, entries |-> {},
                synced |-> FALSE, hasEarlier |-> FALSE, loading |-> FALSE, clearedThrough |-> zero,
                claiming |-> FALSE, clearing |-> FALSE, appends |-> zero,
                stage |-> "idle", text |-> {}, queue |-> {}, fold |-> zero,
                took |-> {}, dropped |-> {}, torn |-> FALSE, out |-> none]
  BY DEF Init
<1> HIDE DEF none, zero
<1>3. tab[t] \in TabState
  BY <1>1, <1>2 DEF TabState, Stage
<1>4. QED
  BY <1>1, <1>2, <1>3 DEF Tidy, Held

LEMMA AssistantInit == Init => AssistantInv
<1> SUFFICES ASSUME Init PROVE AssistantInv
  OBVIOUS
<1>1. /\ db = [log |-> {}, last |-> 0, cleared |-> 0, runner |-> None] /\ open = {}
      /\ toServer = [c \in Conn |-> <<>>] /\ toTab = [t \in Tab |-> <<>>]
      /\ asked = {} /\ lost = {} /\ clears = 0 /\ faults = 0
  BY DEF Init
<1>2. 0 \in 0 .. MaxSeq /\ 0 \in 0 .. MaxClear /\ 0 \in 0 .. MaxFault
  BY BoundAssumption
<1>3. db \in Db /\ db.log = {} /\ db.last = 0 /\ db.cleared = 0
  BY <1>1, <1>2 DEF Db
<1>4. /\ toServer \in [Conn -> Seq(ToServer)] /\ toTab \in [Tab -> Seq(ToTab)]
      /\ \A c \in Conn : toServer[c] = <<>>
      /\ \A t \in Tab : toTab[t] = <<>>
  <2> DEFINE none == <<>>
  <2>1. none \in Seq(ToServer) /\ none \in Seq(ToTab)
    OBVIOUS
  <2>2. toServer = [c \in Conn |-> none] /\ toTab = [t \in Tab |-> none]
    BY <1>1
  <2>3. none = <<>>
    OBVIOUS
  <2> HIDE DEF none
  <2>4. QED
    BY <2>1, <2>2, <2>3
<1>5. TypeOK
  <2>1. DOMAIN tab = Tab /\ tab = [t \in Tab |-> tab[t]]
    BY DEF Init
  <2>2. tab \in [Tab -> TabState]
    BY <2>1, InitialTab
  <2>3. QED
    BY <1>1, <1>2, <1>3, <1>4, <2>2 DEF TypeOK
<1>6. PromptInv
  <2>1. ASSUME NEW b \in Place PROVE In(b) = {}
    <3>1. CASE \E t \in Tab : b = <<"held", t>> \/ b = <<"toTab", t>>
      <4>1. PICK t \in Tab : b = <<"held", t>> \/ b = <<"toTab", t>>
        BY <3>1
      <4>2. Held(tab[t]) = {} /\ Prompts(toTab[t]) = {}
        BY <1>4, InitialTab, PromptsOfNone
      <4>3. QED
        BY <4>1, <4>2, InIs
    <3>2. CASE \E c \in Conn : b = <<"toServer", c>>
      BY <1>4, <3>2, InIs, PromptsOfNone
    <3>3. QED
      BY <3>1, <3>2, Places
  <2>2. AllTidy
    BY InitialTab DEF AllTidy
  <2>3. AllOnce
    BY <1>4, PromptsOfNone DEF AllOnce
  <2>4. Apart /\ Asked
    BY <2>1 DEF Apart, Asked
  <2>5. NoneVanish
    BY <1>1 DEF NoneVanish
  <2>6. QED
    BY <2>2, <2>3, <2>4, <2>5 DEF PromptInv
<1>7. CopyInv
  <2>1. LogSound(db)
    BY <1>3 DEF LogSound
  <2>2. Sockets
    BY <1>4, InitialTab DEF Sockets, Connected
  <2>3. Sent
    BY <1>4 DEF Sent
  <2>4. ASSUME NEW t \in Tab PROVE TabSound(db, tab[t], toTab[t], toServer[Present(t)])
    <3> DEFINE x == tab[t]
               q == toServer[Present(t)]
    <3>1. x.status = "closed" /\ x.entries = {} /\ ~x.synced /\ x.fold = 0
      BY InitialTab
    <3>2. toTab[t] = <<>>
      BY <1>4
    <3> HIDE DEF x, q
    <3>3. Copied({}, <<>>) = {}
      BY DEF Copied, Upto
    <3>4. Known(db, Copied(x.entries, toTab[t]))
      BY <3>1, <3>2, <3>3 DEF Known
    <3>5. ~Attaching(x, q) /\ Whole(db, x, toTab[t], q)
      BY <1>3, <3>1 DEF Attaching, Whole, NoHole
    <3>6. \A i \in DOMAIN toTab[t] : FALSE
      BY <3>2
    <3>7. x.fold <= db.last
      BY <1>3, <3>1
    <3>8. TabSound(db, x, toTab[t], q)
      BY <3>1, <3>2, <3>4, <3>5, <3>6, <3>7 DEF TabSound
    <3>9. QED
      BY <3>8 DEF x, q
  <2>5. QED
    BY <2>1, <2>2, <2>3, <2>4 DEF CopyInv
<1>8. QED
  BY <1>5, <1>6, <1>7 DEF AssistantInv

LEMMA AssistantStutter == AssistantInv /\ UNCHANGED vars => AssistantInv'
<1> SUFFICES ASSUME AssistantInv, UNCHANGED vars PROVE AssistantInv'
  OBVIOUS
<1>1. UNCHANGED <<db, open, toServer, toTab, tab, asked, lost, clears, faults>>
  BY DEF vars
<1>2. TypeOK'
  BY <1>1 DEF AssistantInv, TypeOK
<1>3. PromptInv'
  <2>1. TypeOK /\ PromptInv
    BY DEF AssistantInv
  <2>2. /\ \A t \in Tab : Prompts(toTab'[t]) = Prompts(toTab[t]) /\ Once(toTab'[t])
        /\ \A c \in Conn : Prompts(toServer'[c]) = Prompts(toServer[c]) /\ Once(toServer'[c])
    BY <1>1, <2>1 DEF PromptInv, AllOnce
  <2>3. QED
    BY <1>1, <2>1, <2>2, NoPromptMoves
<1>4. CopyInv'
  <2>1. /\ \A t \in Tab : Connected(t) => Present(t) \in open'
        /\ \A t \in Tab : TabSound(db', tab[t], toTab'[t], toServer'[Present(t)])
        /\ db' \in Db /\ LogSound(db')
    BY <1>1 DEF AssistantInv, CopyInv, Sockets, TypeOK
  <2>2. db.last <= db'.last
    BY <1>1, DbFields DEF AssistantInv, TypeOK
  <2>3. QED
    BY <1>1, <2>1, <2>2, ServerCopies
<1>5. QED
  BY <1>2, <1>3, <1>4 DEF AssistantInv

LEMMA AssistantStep == AssistantInv /\ [Next]_vars => AssistantInv'
<1> SUFFICES ASSUME AssistantInv, [Next]_vars PROVE AssistantInv'
  OBVIOUS
<1>1. ASSUME NEW t \in Tab, TabStep(t) PROVE AssistantInv'
  <2>1. CASE Connect(t) \/ Opened(t) \/ Read(t) \/ Disconnect(t)
    BY <2>1, ConnectInv, OpenedInv, ReadInv, DisconnectInv
  <2>2. CASE \E p \in Prompt : AskPrompt(t, p)
    BY <2>2, AskPromptInv
  <2>3. CASE TakeQueued(t) \/ Saved(t) \/ Summarized(t)
    BY <2>3, TakeQueuedInv, SavedInv, SummarizedInv
  <2>4. CASE TurnEnds(t) \/ TurnThrows(t) \/ Stop(t) \/ Folded(t)
    BY <2>4, TurnInv
  <2>5. CASE ClaimTimeout(t) \/ AppendTimeout(t) \/ ClearTimeout(t)
    BY <2>5, TimeoutInv
  <2>6. CASE Clear(t) \/ LoadEarlier(t)
    BY <2>6, ClearInv, LoadEarlierInv
  <2>7. QED
    BY <1>1, <2>1, <2>2, <2>3, <2>4, <2>5, <2>6 DEF TabStep
<1>2. ASSUME NEW c \in Conn, ServerStep(c) PROVE AssistantInv'
  <2>1. CASE Attach(c) \/ History(c) \/ AppendRow(c)
    BY <2>1, AttachInv, HistoryInv, AppendRowInv
  <2>2. CASE Claim(c) \/ ReleaseRow(c) \/ Steer(c)
    BY <2>2, ClaimInv, ReleaseInv, SteerInv
  <2>3. CASE ClearRows(c) \/ Gone(c)
    BY <2>3, ClearRowsInv, GoneInv
  <2>4. QED
    BY <1>2, <2>1, <2>2, <2>3 DEF ServerStep
<1>3. CASE UNCHANGED vars
  BY <1>3, AssistantStutter
<1>4. QED
  BY <1>1, <1>2, <1>3 DEF Next

\* The inductive invariant: the prompts are apart, and every copy is sound.
THEOREM AssistantInvariant == Spec => []AssistantInv
<1>1. QED
  BY AssistantInit, AssistantStep, PTL DEF Spec

\* What the Durable Object stores, every tab's AssistantSync and AssistantRunner, and
\* every message between them have their types: no seq past the bound, no reply to
\* nobody.
THEOREM AssistantTypes == Spec => []TypeOK
<1>1. AssistantInv => TypeOK
  BY DEF AssistantInv
<1>2. QED
  BY <1>1, AssistantInvariant, PTL

LEMMA NonePromptVanishes == AssistantInv => PromptsAccounted
<1> SUFFICES ASSUME AssistantInv PROVE PromptsAccounted
  OBVIOUS
<1>1. ASSUME NEW p \in asked
      PROVE  Waiting(p) \/ p \in lost \/ \E t \in Tab : p \in tab[t].took \cup tab[t].dropped
  <2>1. p \in Everywhere \/ p \in lost \/ p \in Dropped
    BY DEF AssistantInv, PromptInv, NoneVanish
  <2>2. CASE p \in Dropped
    BY <2>2 DEF Dropped
  <2>3. CASE p \in Everywhere
    <3>1. PICK b \in Place : p \in In(b)
      BY <2>3 DEF Everywhere
    <3>2. CASE \E t \in Tab : b = <<"held", t>>
      <4>1. PICK t \in Tab : p \in Held(tab[t])
        BY <3>1, <3>2, InIs
      <4>2. QED
        BY <4>1 DEF Held, Waiting
    <3>3. CASE \E t \in Tab : b = <<"toTab", t>>
      <4>1. PICK t \in Tab : p \in Prompts(toTab[t])
        BY <3>1, <3>3, InIs
      <4>2. QED
        BY <4>1 DEF Waiting
    <3>4. CASE \E c \in Conn : b = <<"toServer", c>>
      <4>1. PICK c \in Conn : p \in Prompts(toServer[c])
        BY <3>1, <3>4, InIs
      <4>2. QED
        BY <4>1 DEF Waiting
    <3>5. QED
      BY <3>2, <3>3, <3>4, Places
  <2>4. QED
    BY <2>1, <2>2, <2>3
<1>2. ASSUME NEW s \in Tab, NEW t \in Tab, s # t PROVE tab[s].took \cap tab[t].took = {}
  <2>1. <<"held", s>> \in Place /\ <<"held", t>> \in Place /\ <<"held", s>> # <<"held", t>>
    BY <1>2, Places
  <2>2. Held(tab[s]) \cap Held(tab[t]) = {}
    BY <2>1, InIs DEF AssistantInv, PromptInv, Apart
  <2>3. QED
    BY <2>2 DEF Held
<1>3. QED
  BY <1>1, <1>2 DEF PromptsAccounted

\* Whatever the tabs, the prompts and the bounds, no prompt vanishes and no two agents
\* are given one: AssistantRunner, AssistantSync and the Durable Object hand each on
\* without keeping it, through refused claims, turns that throw and lost connections.
THEOREM NoPromptVanishes == Spec => []PromptsAccounted
<1>1. QED
  BY AssistantInvariant, NonePromptVanishes, PTL

\* What is on its way to a tab, seen as the model does and as the proof does.
LEMMA ComingIs ==
  ASSUME AssistantInv, NEW t \in Tab
  PROVE  tab[t].entries \cup Coming(t) = Copied(tab[t].entries, toTab[t])
<1>1. toTab[t] \in Seq(ToTab) /\ tab[t].entries \in SUBSET Entry
  BY TabIs
<1>2. \A e : e \in Copied(tab[t].entries, toTab[t])
                 <=> e \in tab[t].entries \/ \E i \in DOMAIN toTab[t] : e \in Shows(toTab[t][i])
  BY <1>1, CopiedIs
<1>3. \A e : e \in Coming(t) <=> \E i \in DOMAIN toTab[t] : e \in Shows(toTab[t][i])
  BY DEF Coming, ToSet, Shows
<1>4. QED
  BY <1>2, <1>3

LEMMA CopiesAreWhole == AssistantInv => CopyIsTheLog
<1> SUFFICES ASSUME AssistantInv, NEW t \in Tab
             PROVE  /\ tab[t].synced /\ ~tab[t].torn =>
                         \A e \in db.log : \/ e \in tab[t].entries \cup Coming(t)
                                           \/ /\ tab[t].entries # {}
                                              /\ \A first \in tab[t].entries : first.seq > e.seq
                    /\ tab[t].status = "open" =>
                         \A e \in tab[t].entries \cup Coming(t) :
                           \/ e.seq > db.cleared
                           \/ \E m \in ToSet(toTab[t]) : \/ (m.t = "cleared" /\ m.through >= e.seq)
                                                         \/ (m.t = "hello" /\ m.cleared >= e.seq)
  BY DEF CopyIsTheLog, NothingMissing, ClearedStaysCleared
<1> DEFINE x == tab[t]
           es == x.entries
           ms == toTab[t]
           q == toServer[Present(t)]
<1>1. /\ x \in TabState /\ es \in SUBSET Entry /\ ms \in Seq(ToTab) /\ TabSound(db, x, ms, q)
      /\ db \in Db /\ LogSound(db)
  BY TabIs
<1>2. es \cup Coming(t) = Copied(es, ms)
  BY ComingIs
<1> HIDE DEF x, ms, q
<1>3. /\ es \subseteq Copied(es, ms) /\ Copied(es, ms) \in SUBSET Entry /\ Upto(es, ms, 0) = es
      /\ \A e : e \in Copied(es, ms) <=> e \in es \/ \E i \in DOMAIN ms : e \in Shows(ms[i])
  BY <1>1, CopiedIs
<1>4. ASSUME x.synced, ~x.torn, NEW e \in db.log, e \notin Copied(es, ms)
      PROVE  es # {} /\ \A first \in es : first.seq > e.seq
  <2>1. x.status = "open"
    <3>1. x.status \in {"closed", "connecting", "open"}
      BY <1>1 DEF TabState
    <3>2. QED
      BY <1>1, <1>4, <3>1 DEF TabSound, Attaching, Unsynced
  <2>2. WholeFrom(db, es, ms, 0)
    BY <1>1, <1>4, <2>1 DEF TabSound, Whole
  <2>3. e \in Missing(db, es, ms)
    BY <1>4 DEF Missing
  <2>4. Below(Copied(es, ms), e)
    BY <2>2, <2>3 DEF WholeFrom
  <2>5. 0 \in 0 .. Len(ms)
    BY <1>1
  <2>6. Upto(es, ms, 0) \cap db.log # {}
    BY <2>2, <2>3, <2>5 DEF WholeFrom
  <2>7. QED
    BY <1>3, <2>4, <2>6 DEF Below
<1>5. ASSUME x.status = "open", NEW e \in Copied(es, ms)
      PROVE  \/ e.seq > db.cleared
             \/ \E m \in ToSet(ms) : \/ (m.t = "cleared" /\ m.through >= e.seq)
                                     \/ (m.t = "hello" /\ m.cleared >= e.seq)
  <2>1. Told(db, es, ms)
    BY <1>1, <1>5 DEF TabSound
  <2>2. e.seq > db.cleared \/ \E k \in DOMAIN ms : ClearsTo(ms[k]) >= e.seq
    BY <1>3, <1>5, <2>1 DEF Told
  <2>3. e.seq \in Nat /\ e.seq > 0
    BY <1>1, <1>3, DbFields
  <2>4. ASSUME NEW k \in DOMAIN ms, ClearsTo(ms[k]) >= e.seq
        PROVE  \E m \in ToSet(ms) : \/ (m.t = "cleared" /\ m.through >= e.seq)
                                    \/ (m.t = "hello" /\ m.cleared >= e.seq)
    <3>1. ms[k] \in ToSet(ms)
      BY DEF ToSet
    <3>2. \/ (ms[k].t = "cleared" /\ ms[k].through >= e.seq)
          \/ (ms[k].t = "hello" /\ ms[k].cleared >= e.seq)
      BY <2>3, <2>4 DEF ClearsTo
    <3>3. QED
      BY <3>1, <3>2
  <2>5. QED
    BY <2>2, <2>4
<1>6. QED
  BY <1>2, <1>4, <1>5 DEF x, ms

\* For every number of tabs, connections and entries, a tab's copy is the log: a synced
\* tab misses only what is older than what it has (attach replays what follows its last
\* entry, and every broadcast from then on reaches it), and what was cleared is taken
\* away wherever it is still shown or on its way.
THEOREM CopyIsAlwaysTheLog == Spec => []CopyIsTheLog
<1>1. QED
  BY AssistantInvariant, CopiesAreWhole, PTL

-----------------------------------------------------------------------------
(* The microphone: a voice that was never stopped halfway holds what it needs *)
(* and nothing else, and of two that are done starting one has been told.     *)

\* A start that has been let through is at work; there is one of them, on a voice that
\* is on, and what the engine has is its.
AtWork(v, k) == v.at[k] \in {"mic", "worklet", "connect"}
OneAtWork(v) ==
  /\ \A j, k \in Begin : AtWork(v, j) /\ AtWork(v, k) => j = k
  /\ \A k \in Begin : AtWork(v, k) => v.on # "off"
  /\ \A k \in Begin : v.at[k] = "mic" => v.stream = 0
  /\ \A k \in Begin : v.at[k] \in {"mic", "worklet"} => v.conn = 0
  /\ \A k \in Begin : v.at[k] \in {"worklet", "connect"} => v.stream = k

\* The engine knows the microphone and the connection that are open: there are none
\* while the voice is off, and one connects exactly while its start waits for it.
KnowsItsOwn(v) ==
  /\ v.on = "off" => v.stream = 0 /\ v.conn = 0
  /\ \A k \in Begin : v.mic[k] => v.stream = k
  /\ \A k \in Begin : v.link[k] \in {"connecting", "closing", "open"} => v.conn = k /\ v.on # "off"
  /\ \A k \in Begin : v.link[k] = "connecting" <=> v.at[k] = "connect"

Fine(v) == OneAtWork(v) /\ KnowsItsOwn(v)

\* A microphone is open and its start is over.
Holds(v) == (\E k \in Begin : v.mic[k]) /\ \A k \in Begin : ~AtWork(v, k)

\* Of two tabs that hold one, the later has told the earlier.
OneIsTold ==
  \A x, w \in Window : x # w /\ Holds(voice[x]) /\ Holds(voice[w]) => voice[x].heard > 0 \/ voice[w].heard > 0

VoiceInv == VoiceTypeOK /\ (cutShort = {} => OneIsTold /\ \A w \in Window : Fine(voice[w]))

LEMMA VoiceInitInv == VoiceInit => VoiceInv
<1>1. SUFFICES ASSUME VoiceInit PROVE VoiceInv
  OBVIOUS
<1>2. \A w \in Window : \E e \in Engine :
        voice[w] = [engine |-> e, on |-> "off", begun |-> 0, at |-> [k \in Begin |-> "none"],
                    mic |-> [k \in Begin |-> FALSE], link |-> [k \in Begin |-> "none"],
                    stream |-> 0, conn |-> 0, heard |-> 0]
  BY <1>1 DEF VoiceInit
<1>3. ASSUME NEW w \in Window
      PROVE  /\ voice[w] \in VoiceState /\ voice[w].on = "off" /\ voice[w].stream = 0 /\ voice[w].conn = 0
             /\ \A k \in Begin : voice[w].at[k] = "none" /\ ~voice[w].mic[k] /\ voice[w].link[k] = "none"
  <2>1. PICK e \in Engine :
          voice[w] = [engine |-> e, on |-> "off", begun |-> 0, at |-> [k \in Begin |-> "none"],
                      mic |-> [k \in Begin |-> FALSE], link |-> [k \in Begin |-> "none"],
                      stream |-> 0, conn |-> 0, heard |-> 0]
    BY <1>2
  <2>2. QED
    BY <2>1, VoiceAssumption DEF VoiceState
<1>4. VoiceTypeOK
  BY <1>1, <1>3, VoiceAssumption DEF VoiceInit, VoiceTypeOK
<1>5. QED
  BY <1>3, <1>4 DEF VoiceInv, OneIsTold, Fine, OneAtWork, KnowsItsOwn, AtWork, Holds

\* A voice that becomes a fine one, and holds a microphone no sooner than before.
LEMMA BecomesKeeps ==
  ASSUME VoiceInv, NEW w \in Window, NEW u \in VoiceState, VoiceBecomes(w, u), turnOffs' \in 0 .. MaxTurnOff,
         cutShort = {} => Fine(u) /\ (Holds(u) => Holds(voice[w]) /\ u.heard = voice[w].heard)
  PROVE  VoiceInv'
<1>1. voice' = [voice EXCEPT ![w] = u] /\ cutShort' = cutShort /\ voice \in [Window -> VoiceState]
  BY DEF VoiceBecomes, VoiceInv, VoiceTypeOK
<1>2. /\ voice' \in [Window -> VoiceState]
      /\ \A x \in Window : voice'[x] = IF x = w THEN u ELSE voice[x]
  BY <1>1
<1>3. VoiceTypeOK'
  BY <1>1, <1>2 DEF VoiceInv, VoiceTypeOK
<1>4. ASSUME cutShort = {} PROVE OneIsTold' /\ \A x \in Window : Fine(voice'[x])
  BY <1>2, <1>4 DEF VoiceInv, OneIsTold
<1>5. QED
  BY <1>1, <1>3, <1>4 DEF VoiceInv

\* One that is on tells all others.
LEMMA DoneKeeps ==
  ASSUME VoiceInv, NEW w \in Window, NEW u \in VoiceState, Done(w, u), turnOffs' = turnOffs,
         cutShort = {} => Fine(u) /\ u.on # "off"
  PROVE  VoiceInv'
<1>1. voice \in [Window -> VoiceState] /\ cutShort' = cutShort
  BY DEF Done, VoiceInv, VoiceTypeOK
<1>2. \A x \in Window : x # w =>
        voice'[x] = IF u.on # "off" THEN [voice[x] EXCEPT !.heard = @ + 1] ELSE voice[x]
  BY DEF Done
<1>3. voice'[w] = u
  BY DEF Done
<1>4. ASSUME NEW x \in Window, x # w
      PROVE  /\ voice'[x] \in VoiceState /\ voice[x].heard \in Nat
             /\ u.on # "off" => voice'[x].heard = voice[x].heard + 1
             /\ Fine(voice[x]) => Fine(voice'[x])
             /\ Holds(voice'[x]) => Holds(voice[x])
  <2>1. /\ voice[x] \in VoiceState
        /\ voice'[x] = IF u.on # "off" THEN [voice[x] EXCEPT !.heard = @ + 1] ELSE voice[x]
    BY <1>1, <1>2, <1>4
  <2>2. /\ voice'[x] \in VoiceState /\ voice[x].heard \in Nat
        /\ u.on # "off" => voice'[x].heard = voice[x].heard + 1
        /\ voice'[x].on = voice[x].on /\ voice'[x].at = voice[x].at /\ voice'[x].mic = voice[x].mic
        /\ voice'[x].link = voice[x].link /\ voice'[x].stream = voice[x].stream /\ voice'[x].conn = voice[x].conn
    BY <2>1 DEF VoiceState
  <2>3. QED
    BY <2>2 DEF Fine, OneAtWork, KnowsItsOwn, AtWork, Holds
<1>5. voice' \in [Window -> VoiceState]
  <2>1. DOMAIN voice' = Window /\ voice' = [x \in Window |-> voice'[x]]
    BY DEF Done
  <2>2. \A x \in Window : voice'[x] \in VoiceState
    BY <1>3, <1>4
  <2>3. QED
    BY <2>1, <2>2
<1>6. VoiceTypeOK'
  BY <1>1, <1>5 DEF VoiceInv, VoiceTypeOK
<1>7. ASSUME cutShort = {} PROVE OneIsTold' /\ \A x \in Window : Fine(voice'[x])
  <2>1. \A x \in Window : Fine(voice[x])
    BY <1>7 DEF VoiceInv
  <2>2. \A x \in Window : x # w => voice'[x].heard > 0
    BY <1>4, <1>7
  <2>3. \A x \in Window : Fine(voice'[x])
    BY <1>3, <1>4, <1>7, <2>1
  <2>4. \A x, y \in Window : x # y => x # w \/ y # w
    OBVIOUS
  <2>5. QED
    BY <2>2, <2>3, <2>4 DEF OneIsTold
<1>8. QED
  BY <1>1, <1>6, <1>7 DEF VoiceInv

\* One that stops with no start under way lets all it had go.
LEMMA StopKeeps ==
  ASSUME VoiceInv, NEW w \in Window, NEW u \in VoiceState, StopsAt(w, u), turnOffs' \in 0 .. MaxTurnOff,
         cutShort = {} =>
           /\ \A k \in Begin : u.mic[k] => u.stream = k
           /\ \A k \in Begin : u.link[k] \in {"connecting", "closing", "open"} => u.conn = k
           /\ \A k \in Begin : u.link[k] = "connecting" => u.at[k] = "connect" \/ u.engine = "live"
  PROVE  VoiceInv'
<1> DEFINE v == Stopped(u)
<1>1. /\ voice' = [voice EXCEPT ![w] = v] /\ voice \in [Window -> VoiceState] /\ cutShort \subseteq Window
      /\ cutShort' = IF Running(u) = {} THEN cutShort ELSE cutShort \cup {w}
  BY DEF StopsAt, VoiceInv, VoiceTypeOK
<1>2. /\ v.on = "off" /\ v.stream = 0 /\ v.conn = 0 /\ v.at = u.at /\ v.heard = u.heard
      /\ v.engine = u.engine /\ v.begun = u.begun
      /\ v.mic = [k \in Begin |-> u.mic[k] /\ k # u.stream]
      /\ v.link = [k \in Begin |-> IF k # u.conn THEN u.link[k]
                                   ELSE IF u.engine = "flux" /\ u.link[k] = "connecting" THEN "closing" ELSE "closed"]
  BY DEF Stopped, VoiceState
<1>3. v \in VoiceState
  <2>1. v.mic \in [Begin -> BOOLEAN]
    BY <1>2 DEF VoiceState
  <2>2. v.link \in [Begin -> {"none", "connecting", "open", "closing", "closed"}]
    BY <1>2 DEF VoiceState
  <2>3. v = [u EXCEPT !.on = "off", !.stream = 0, !.conn = 0, !.mic = v.mic, !.link = v.link]
    BY DEF Stopped, VoiceState
  <2> HIDE DEF v
  <2>4. QED
    <3>1. 0 \in 0 .. MaxTurnOn
      BY VoiceAssumption
    <3>2. QED
      BY <2>1, <2>2, <2>3, <3>1 DEF VoiceState
<1> HIDE DEF v
<1>4. /\ voice' \in [Window -> VoiceState]
      /\ \A x \in Window : voice'[x] = IF x = w THEN v ELSE voice[x]
  BY <1>1, <1>3
<1>5. VoiceTypeOK'
  BY <1>1, <1>4 DEF VoiceInv, VoiceTypeOK
<1>6. ASSUME cutShort' = {} PROVE OneIsTold' /\ \A x \in Window : Fine(voice'[x])
  <2>1. cutShort = {} /\ Running(u) = {}
    BY <1>1, <1>6
  <2>2. \A k \in Begin : u.at[k] \in {"none", "over"}
    BY <2>1 DEF Running
  <2>3. \A k \in Begin : ~v.mic[k] /\ v.link[k] \notin {"connecting", "closing", "open"}
    <3>1. \A k \in Begin : u.link[k] = "connecting" => u.engine = "live"
      BY <2>1, <2>2
    <3>2. QED
      BY <1>2, <2>1, <3>1
  <2>4. Fine(v) /\ ~Holds(v)
    BY <1>2, <2>2, <2>3 DEF Fine, OneAtWork, KnowsItsOwn, AtWork, Holds
  <2>5. QED
    BY <1>4, <2>1, <2>4 DEF VoiceInv, OneIsTold
<1>7. QED
  BY <1>5, <1>6 DEF VoiceInv

LEMMA VoiceTypes ==
  ASSUME VoiceInv, NEW w \in Window
  PROVE  /\ voice[w] \in VoiceState /\ turnOffs \in 0 .. MaxTurnOff
         /\ turnOffs < MaxTurnOff => turnOffs + 1 \in 0 .. MaxTurnOff
         /\ cutShort = {} => Fine(voice[w])
BY VoiceAssumption DEF VoiceInv, VoiceTypeOK

LEMMA EngineStartsStep ==
  ASSUME VoiceInv, NEW w \in Window, NEW k \in Begin, NEW v \in VoiceState, EngineStarts(w, v, k),
         turnOffs' = turnOffs, cutShort = {} => Fine(v), ~AtWork(v, k),
         v.mic = voice[w].mic /\ v.heard = voice[w].heard
  PROVE  VoiceInv'
<1>1. CASE v.on # "off"
  <2> DEFINE u == [v EXCEPT !.at[k] = "over"]
  <2>1. Done(w, u)
    BY <1>1 DEF EngineStarts
  <2>2. /\ u \in VoiceState /\ u.on = v.on /\ u.mic = v.mic /\ u.link = v.link
        /\ u.stream = v.stream /\ u.conn = v.conn
        /\ \A j \in Begin : u.at[j] = IF j = k THEN "over" ELSE v.at[j]
    BY DEF VoiceState
  <2> HIDE DEF u
  <2>3. cutShort = {} => Fine(u)
    BY <2>2 DEF Fine, OneAtWork, KnowsItsOwn, AtWork
  <2>4. QED
    BY <1>1, <2>1, <2>2, <2>3, DoneKeeps
<1>2. CASE v.on = "off"
  <2> DEFINE u == [v EXCEPT !.on = "starting", !.at[k] = "mic"]
  <2>1. VoiceBecomes(w, u)
    BY <1>2 DEF EngineStarts
  <2>2. /\ u \in VoiceState /\ u.on = "starting" /\ u.mic = v.mic /\ u.link = v.link
        /\ u.stream = v.stream /\ u.conn = v.conn
        /\ \A j \in Begin : u.at[j] = IF j = k THEN "mic" ELSE v.at[j]
    BY DEF VoiceState
  <2> HIDE DEF u
  <2>3. cutShort = {} => Fine(u) /\ ~Holds(u)
    BY <1>2, <2>2 DEF Fine, OneAtWork, KnowsItsOwn, AtWork, Holds
  <2>4. turnOffs' \in 0 .. MaxTurnOff
    BY VoiceTypes
  <2>5. QED
    BY <2>1, <2>2, <2>3, <2>4, BecomesKeeps
<1>3. QED
  BY <1>1, <1>2

LEMMA TurnOnStep == ASSUME VoiceInv, NEW w \in Window, TurnOn(w) PROVE VoiceInv'
<1> DEFINE v == voice[w]
           k == v.begun + 1
           u == [v EXCEPT !.begun = k]
<1>1. v \in VoiceState /\ (cutShort = {} => Fine(v)) /\ v.on = "off" /\ v.begun < MaxTurnOn /\ turnOffs' = turnOffs
  BY VoiceTypes DEF TurnOn
<1>2. k \in Begin /\ k \in 0 .. MaxTurnOn
  BY <1>1, VoiceAssumption DEF VoiceState, Begin
<1>3. /\ u \in VoiceState /\ u.engine = v.engine /\ u.on = v.on /\ u.at = v.at /\ u.mic = v.mic /\ u.link = v.link
      /\ u.stream = v.stream /\ u.conn = v.conn /\ u.heard = v.heard
  BY <1>1, <1>2 DEF VoiceState
<1>4. IF v.engine = "live" THEN VoiceBecomes(w, [u EXCEPT !.at[k] = "check"]) ELSE EngineStarts(w, u, k)
  BY DEF TurnOn
<1> HIDE DEF u, k
<1>5. cutShort = {} => Fine(u)
  BY <1>1, <1>3 DEF Fine, OneAtWork, KnowsItsOwn, AtWork
<1>6. CASE v.engine = "live"
  <2> DEFINE c == [u EXCEPT !.at[k] = "check"]
  <2>1. /\ c \in VoiceState /\ c.on = u.on /\ c.mic = u.mic /\ c.link = u.link
        /\ c.stream = u.stream /\ c.conn = u.conn /\ c.heard = u.heard
        /\ \A j \in Begin : c.at[j] = IF j = k THEN "check" ELSE u.at[j]
    BY <1>2, <1>3 DEF VoiceState
  <2>2. VoiceBecomes(w, c)
    BY <1>4, <1>6
  <2> HIDE DEF c
  <2>3. cutShort = {} => Fine(c) /\ ~Holds(c)
    <3>1. ASSUME cutShort = {}
          PROVE  /\ \A j \in Begin : ~AtWork(c, j) /\ ~AtWork(u, j) /\ u.at[j] # "connect"
                 /\ u.stream = 0 /\ u.conn = 0
      BY <1>1, <1>3, <1>5, <2>1, <3>1 DEF Fine, OneAtWork, KnowsItsOwn, AtWork
    <3>2. ASSUME cutShort = {} PROVE \A j \in Begin : ~c.mic[j]
      BY <1>5, <2>1, <3>1, <3>2 DEF Fine, KnowsItsOwn, Begin
    <3>3. QED
      BY <1>5, <2>1, <3>1, <3>2 DEF Fine, OneAtWork, KnowsItsOwn, AtWork, Holds
  <2>4. turnOffs' \in 0 .. MaxTurnOff
    BY <1>1, VoiceTypes
  <2>5. QED
    BY <2>1, <2>2, <2>3, <2>4, BecomesKeeps
<1>7. CASE v.engine # "live"
  <2>1. EngineStarts(w, u, k)
    BY <1>4, <1>7
  <2>2. CASE AtWork(v, k)
    <3>1. cutShort # {}
      BY <1>1, <1>2, <2>2 DEF Fine, OneAtWork
    <3> DEFINE c == [u EXCEPT !.on = "starting", !.at[k] = "mic"]
    <3>2. c \in VoiceState /\ VoiceBecomes(w, c)
      BY <1>1, <1>2, <1>3, <2>1 DEF EngineStarts, VoiceState
    <3> HIDE DEF c
    <3>3. turnOffs' \in 0 .. MaxTurnOff
      BY <1>1, VoiceTypes
    <3>4. QED
      BY <3>1, <3>2, <3>3, BecomesKeeps
  <2>3. CASE ~AtWork(v, k)
    BY <1>1, <1>2, <1>3, <1>5, <2>1, <2>3, EngineStartsStep DEF AtWork
  <2>4. QED
    BY <2>2, <2>3
<1>8. QED
  BY <1>6, <1>7

LEMMA CheckedStep == ASSUME VoiceInv, NEW w \in Window, NEW k \in Begin, Checked(w, k) PROVE VoiceInv'
BY VoiceTypes, EngineStartsStep DEF Checked, AtWork

LEMMA StopsFine ==
  ASSUME VoiceInv, NEW w \in Window, StopsAt(w, voice[w]), turnOffs' \in 0 .. MaxTurnOff
  PROVE  VoiceInv'
<1>1. voice[w] \in VoiceState /\ (cutShort = {} => Fine(voice[w]))
  BY VoiceTypes
<1>2. QED
  BY <1>1, StopKeeps DEF Fine, KnowsItsOwn

LEMMA TurnOffStep == ASSUME VoiceInv, NEW w \in Window, TurnOff(w) \/ LiveEnds(w) PROVE VoiceInv'
BY VoiceTypes, StopsFine DEF TurnOff, LiveEnds

LEMMA HearElsewhereStep == ASSUME VoiceInv, NEW w \in Window, HearElsewhere(w) PROVE VoiceInv'
<1> DEFINE v == voice[w]
           u == [v EXCEPT !.heard = @ - 1]
<1>1. v \in VoiceState /\ (cutShort = {} => Fine(v)) /\ v.heard > 0 /\ turnOffs' = turnOffs
  BY VoiceTypes DEF HearElsewhere
<1>2. /\ u \in VoiceState /\ u.on = v.on /\ u.at = v.at /\ u.mic = v.mic /\ u.link = v.link
      /\ u.stream = v.stream /\ u.conn = v.conn
  BY <1>1 DEF VoiceState
<1>3. IF u.on = "off" THEN VoiceBecomes(w, u) ELSE StopsAt(w, u)
  BY DEF HearElsewhere
<1> HIDE DEF u
<1>4. cutShort = {} => Fine(u)
  BY <1>1, <1>2 DEF Fine, OneAtWork, KnowsItsOwn, AtWork
<1>5. turnOffs' \in 0 .. MaxTurnOff
  BY <1>1, VoiceTypes
<1>6. CASE u.on = "off"
  <2>1. cutShort = {} => ~Holds(u)
    BY <1>2, <1>4, <1>6 DEF Fine, KnowsItsOwn, Holds, Begin
  <2>2. QED
    BY <1>2, <1>3, <1>4, <1>5, <1>6, <2>1, BecomesKeeps
<1>7. CASE u.on # "off"
  BY <1>2, <1>3, <1>4, <1>5, <1>7, StopKeeps DEF Fine, KnowsItsOwn
<1>8. QED
  BY <1>6, <1>7

LEMMA VoiceMicOpensStep == ASSUME VoiceInv, NEW w \in Window, NEW k \in Begin, VoiceMicOpens(w, k) PROVE VoiceInv'
<1> DEFINE v == voice[w]
           u == [v EXCEPT !.mic[k] = TRUE, !.stream = k]
           f == [u EXCEPT !.at[k] = "worklet"]
           l == [u EXCEPT !.at[k] = "connect", !.link[k] = "connecting", !.conn = k]
<1>1. v \in VoiceState /\ (cutShort = {} => Fine(v)) /\ v.at[k] = "mic" /\ turnOffs' \in 0 .. MaxTurnOff
  BY VoiceTypes DEF VoiceMicOpens
<1>2. k \in 0 .. MaxTurnOn
  BY VoiceAssumption DEF Begin
<1>3. CASE v.engine = "flux"
  <2>1. VoiceBecomes(w, f)
    BY <1>3 DEF VoiceMicOpens
  <2>2. /\ f \in VoiceState /\ f.on = v.on /\ f.link = v.link /\ f.stream = k /\ f.conn = v.conn
        /\ \A j \in Begin : f.at[j] = (IF j = k THEN "worklet" ELSE v.at[j]) /\ (f.mic[j] => j = k \/ v.mic[j])
    BY <1>1, <1>2 DEF VoiceState
  <2> HIDE DEF f
  <2>3. cutShort = {} => OneAtWork(f) /\ ~Holds(f)
    BY <1>1, <2>2 DEF Fine, OneAtWork, AtWork, Holds
  <2>4. ASSUME cutShort = {} PROVE KnowsItsOwn(f)
    <3>1. v.stream = 0 /\ v.conn = 0 /\ v.on # "off"
      BY <1>1, <2>4 DEF Fine, OneAtWork, AtWork
    <3>2. \A j \in Begin :
            ~v.mic[j] /\ v.link[j] \notin {"connecting", "closing", "open"} /\ v.at[j] # "connect"
      BY <2>4, <1>1, <3>1 DEF Fine, KnowsItsOwn, Begin
    <3>3. QED
      BY <2>2, <3>1, <3>2 DEF KnowsItsOwn
  <2>5. QED
    BY <1>1, <2>1, <2>2, <2>3, <2>4, BecomesKeeps DEF Fine
<1>4. CASE v.engine # "flux"
  <2>1. VoiceBecomes(w, l)
    BY <1>4 DEF VoiceMicOpens
  <2>2. /\ l \in VoiceState /\ l.on = v.on /\ l.stream = k /\ l.conn = k
        /\ \A j \in Begin : /\ l.at[j] = (IF j = k THEN "connect" ELSE v.at[j])
                            /\ (l.mic[j] => j = k \/ v.mic[j])
                            /\ l.link[j] = (IF j = k THEN "connecting" ELSE v.link[j])
    BY <1>1, <1>2 DEF VoiceState
  <2> HIDE DEF l
  <2>3. cutShort = {} => OneAtWork(l) /\ ~Holds(l)
    BY <1>1, <2>2 DEF Fine, OneAtWork, AtWork, Holds
  <2>4. ASSUME cutShort = {} PROVE KnowsItsOwn(l)
    <3>1. v.stream = 0 /\ v.conn = 0 /\ v.on # "off"
      BY <1>1, <2>4 DEF Fine, OneAtWork, AtWork
    <3>2. \A j \in Begin :
            ~v.mic[j] /\ v.link[j] \notin {"connecting", "closing", "open"} /\ v.at[j] # "connect"
      BY <2>4, <1>1, <3>1 DEF Fine, KnowsItsOwn, Begin
    <3>3. QED
      BY <2>2, <3>1, <3>2 DEF KnowsItsOwn
  <2>5. QED
    BY <1>1, <2>1, <2>2, <2>3, <2>4, BecomesKeeps DEF Fine
<1>5. QED
  BY <1>3, <1>4

LEMMA StartThrowsStep == ASSUME VoiceInv, NEW w \in Window, NEW k \in Begin, StartThrows(w, k) PROVE VoiceInv'
<1> DEFINE v == voice[w]
           u == [v EXCEPT !.at[k] = "over"]
<1>1. /\ v \in VoiceState /\ (cutShort = {} => Fine(v)) /\ turnOffs' \in 0 .. MaxTurnOff
      /\ v.at[k] \in {"mic", "worklet"} \/ (v.at[k] = "connect" /\ v.engine = "live")
  BY VoiceTypes DEF StartThrows
<1>2. StopsAt(w, u)
  BY DEF StartThrows
<1>3. /\ u \in VoiceState /\ u.engine = v.engine /\ u.mic = v.mic /\ u.link = v.link
      /\ u.stream = v.stream /\ u.conn = v.conn
      /\ \A j \in Begin : u.at[j] = IF j = k THEN "over" ELSE v.at[j]
  BY <1>1 DEF VoiceState
<1> HIDE DEF u
<1>4. QED
  BY <1>1, <1>2, <1>3, StopKeeps DEF Fine, KnowsItsOwn

LEMMA WorkletReadyStep == ASSUME VoiceInv, NEW w \in Window, NEW k \in Begin, WorkletReady(w, k) PROVE VoiceInv'
<1> DEFINE v == voice[w]
           u == [v EXCEPT !.at[k] = "over"]
           c == [v EXCEPT !.at[k] = "connect", !.link[k] = "connecting", !.conn = k]
<1>1. v \in VoiceState /\ (cutShort = {} => Fine(v)) /\ v.at[k] = "worklet" /\ turnOffs' \in 0 .. MaxTurnOff
  BY VoiceTypes DEF WorkletReady
<1>2. k \in 0 .. MaxTurnOn
  BY VoiceAssumption DEF Begin
<1>3. CASE v.stream = 0
  <2>1. StopsAt(w, u)
    BY <1>3 DEF WorkletReady
  <2>2. /\ u \in VoiceState /\ u.mic = v.mic /\ u.link = v.link /\ u.stream = v.stream /\ u.conn = v.conn
        /\ \A j \in Begin : u.at[j] = IF j = k THEN "over" ELSE v.at[j]
    BY <1>1 DEF VoiceState
  <2> HIDE DEF u
  <2>3. QED
    BY <1>1, <2>1, <2>2, StopKeeps DEF Fine, KnowsItsOwn
<1>4. CASE v.stream # 0
  <2>1. VoiceBecomes(w, c)
    BY <1>4 DEF WorkletReady
  <2>2. /\ c \in VoiceState /\ c.on = v.on /\ c.stream = v.stream /\ c.conn = k /\ c.mic = v.mic
        /\ \A j \in Begin : /\ c.at[j] = (IF j = k THEN "connect" ELSE v.at[j])
                            /\ c.link[j] = (IF j = k THEN "connecting" ELSE v.link[j])
    BY <1>1, <1>2 DEF VoiceState
  <2> HIDE DEF c
  <2>3. cutShort = {} => Fine(c) /\ ~Holds(c)
    BY <1>1, <2>2 DEF Fine, OneAtWork, KnowsItsOwn, AtWork, Holds, Begin
  <2>4. QED
    BY <1>1, <2>1, <2>2, <2>3, BecomesKeeps
<1>5. QED
  BY <1>3, <1>4

LEMMA ListenOpensStep == ASSUME VoiceInv, NEW w \in Window, NEW k \in Begin, ListenOpens(w, k) PROVE VoiceInv'
<1> DEFINE v == voice[w]
           u == [v EXCEPT !.at[k] = "over", !.link[k] = "open", !.on = "listening"]
<1>1. /\ v \in VoiceState /\ (cutShort = {} => Fine(v)) /\ turnOffs' = turnOffs
      /\ v.at[k] = "connect" /\ v.link[k] = "connecting"
  BY VoiceTypes DEF ListenOpens
<1>2. Done(w, u)
  BY DEF ListenOpens
<1>3. /\ u \in VoiceState /\ u.on = "listening" /\ u.mic = v.mic /\ u.stream = v.stream /\ u.conn = v.conn
      /\ \A j \in Begin : /\ u.at[j] = (IF j = k THEN "over" ELSE v.at[j])
                          /\ u.link[j] = (IF j = k THEN "open" ELSE v.link[j])
  BY <1>1 DEF VoiceState
<1> HIDE DEF u
<1>4. cutShort = {} => Fine(u)
  BY <1>1, <1>3 DEF Fine, OneAtWork, KnowsItsOwn, AtWork
<1>5. QED
  BY <1>1, <1>2, <1>3, <1>4, DoneKeeps

LEMMA ListenFailsStep == ASSUME VoiceInv, NEW w \in Window, NEW k \in Begin, ListenFails(w, k) PROVE VoiceInv'
<1> DEFINE v == voice[w]
           u == [v EXCEPT !.link[k] = "closed", !.at[k] = "over"]
           n == [u EXCEPT !.conn = 0]
           r == [u EXCEPT !.conn = IF @ = k THEN 0 ELSE @]
<1>1. /\ v \in VoiceState /\ (cutShort = {} => Fine(v)) /\ turnOffs' \in 0 .. MaxTurnOff
      /\ v.link[k] \in {"connecting", "closing", "open"}
  BY VoiceTypes DEF ListenFails
<1>2. /\ u \in VoiceState /\ u.on = v.on /\ u.mic = v.mic /\ u.stream = v.stream /\ u.conn = v.conn
      /\ \A j \in Begin : /\ u.at[j] = (IF j = k THEN "over" ELSE v.at[j])
                          /\ u.link[j] = (IF j = k THEN "closed" ELSE v.link[j])
  BY <1>1 DEF VoiceState
<1>3. IF v.at[k] = "connect" THEN StopsAt(w, u)
      ELSE IF v.conn = k /\ v.on # "off" THEN StopsAt(w, n)
      ELSE VoiceBecomes(w, r)
  BY DEF ListenFails
<1>4. 0 \in 0 .. MaxTurnOn
  BY VoiceAssumption
<1> HIDE DEF u
<1>5. CASE v.at[k] = "connect"
  <2>1. StopsAt(w, u)
    BY <1>3, <1>5
  <2>2. QED
    BY <1>1, <1>2, <2>1, StopKeeps DEF Fine, KnowsItsOwn
<1>6. CASE v.at[k] # "connect" /\ v.conn = k /\ v.on # "off"
  <2>1. StopsAt(w, n)
    BY <1>3, <1>6
  <2>2. /\ n \in VoiceState /\ n.mic = u.mic /\ n.stream = u.stream /\ n.conn = 0 /\ n.at = u.at /\ n.link = u.link
    BY <1>2, <1>4 DEF VoiceState
  <2> HIDE DEF n
  <2>3. cutShort = {} => \A j \in Begin : n.link[j] \notin {"connecting", "closing", "open"}
    BY <1>1, <1>2, <1>6, <2>2 DEF Fine, KnowsItsOwn
  <2>4. cutShort = {} => \A j \in Begin : n.mic[j] => n.stream = j
    BY <1>1, <1>2, <2>2 DEF Fine, KnowsItsOwn
  <2>5. QED
    BY <1>1, <2>1, <2>2, <2>3, <2>4, StopKeeps
<1>7. CASE v.at[k] # "connect" /\ ~(v.conn = k /\ v.on # "off")
  <2>1. cutShort # {}
    BY <1>1, <1>7 DEF Fine, KnowsItsOwn
  <2>2. VoiceBecomes(w, r)
    BY <1>3, <1>7
  <2>3. r \in VoiceState
    BY <1>2, <1>4 DEF VoiceState
  <2> HIDE DEF r
  <2>4. QED
    BY <1>1, <2>1, <2>2, <2>3, BecomesKeeps
<1>8. QED
  BY <1>5, <1>6, <1>7

LEMMA LiveAnsweredStep == ASSUME VoiceInv, NEW w \in Window, NEW k \in Begin, LiveAnswered(w, k) PROVE VoiceInv'
<1> DEFINE v == voice[w]
           u == [v EXCEPT !.at[k] = "over"]
           o == [u EXCEPT !.link[k] = "open"]
<1>1. v \in VoiceState /\ (cutShort = {} => Fine(v)) /\ v.at[k] = "connect" /\ turnOffs' = turnOffs
  BY VoiceTypes DEF LiveAnswered
<1>2. /\ u \in VoiceState /\ u.engine = v.engine /\ u.on = v.on /\ u.mic = v.mic /\ u.link = v.link
      /\ u.stream = v.stream /\ u.conn = v.conn
      /\ \A j \in Begin : u.at[j] = IF j = k THEN "over" ELSE v.at[j]
  BY <1>1 DEF VoiceState
<1>3. IF v.link[k] = "closed" THEN StopsAt(w, u) ELSE Done(w, o)
  BY DEF LiveAnswered
<1>4. turnOffs' \in 0 .. MaxTurnOff
  BY <1>1, VoiceTypes
<1> HIDE DEF u
<1>5. CASE v.link[k] = "closed"
  BY <1>1, <1>2, <1>3, <1>4, <1>5, StopKeeps DEF Fine, KnowsItsOwn
<1>6. CASE v.link[k] # "closed"
  <2>1. Done(w, o)
    BY <1>3, <1>6
  <2>2. /\ o \in VoiceState /\ o.on = u.on /\ o.mic = u.mic /\ o.stream = u.stream /\ o.conn = u.conn /\ o.at = u.at
        /\ \A j \in Begin : o.link[j] = IF j = k THEN "open" ELSE u.link[j]
    BY <1>2 DEF VoiceState
  <2> HIDE DEF o
  <2>3. ASSUME cutShort = {} PROVE Fine(o) /\ o.on # "off"
    <3>1. v.conn = k /\ v.on # "off"
      BY <1>1, <2>3 DEF Fine, OneAtWork, KnowsItsOwn, AtWork
    <3>2. QED
      BY <1>1, <1>2, <2>2, <2>3, <3>1 DEF Fine, OneAtWork, KnowsItsOwn, AtWork
  <2>4. QED
    BY <1>1, <2>1, <2>2, <2>3, DoneKeeps
<1>7. QED
  BY <1>5, <1>6

LEMMA SessionStartedStep == ASSUME VoiceInv, NEW w \in Window, NEW k \in Begin, SessionStarted(w, k) PROVE VoiceInv'
<1> DEFINE v == voice[w]
           u == [v EXCEPT !.on = "listening"]
<1>1. v \in VoiceState /\ (cutShort = {} => Fine(v)) /\ v.link[k] = "open" /\ turnOffs' \in 0 .. MaxTurnOff
  BY VoiceTypes DEF SessionStarted
<1>2. VoiceBecomes(w, u)
  BY DEF SessionStarted
<1>3. /\ u \in VoiceState /\ u.on = "listening" /\ u.at = v.at /\ u.mic = v.mic /\ u.link = v.link
      /\ u.stream = v.stream /\ u.conn = v.conn /\ u.heard = v.heard
  BY <1>1 DEF VoiceState
<1> HIDE DEF u
<1>4. cutShort = {} => Fine(u) /\ (Holds(u) => Holds(v))
  BY <1>1, <1>3 DEF Fine, OneAtWork, KnowsItsOwn, AtWork, Holds
<1>5. QED
  BY <1>1, <1>2, <1>3, <1>4, BecomesKeeps

LEMMA VoiceStepInv == VoiceInv /\ [VoiceNext]_voiceVars => VoiceInv'
<1>1. SUFFICES ASSUME VoiceInv, [VoiceNext]_voiceVars PROVE VoiceInv'
  OBVIOUS
<1>2. CASE UNCHANGED voiceVars
  BY <1>1, <1>2 DEF voiceVars, VoiceInv, VoiceTypeOK, OneIsTold
<1>3. ASSUME NEW w \in Window, TurnOn(w) \/ TurnOff(w) \/ HearElsewhere(w) \/ LiveEnds(w) PROVE VoiceInv'
  BY <1>1, <1>3, TurnOnStep, TurnOffStep, HearElsewhereStep
<1>4. ASSUME NEW w \in Window, NEW k \in Begin,
             \/ Checked(w, k) \/ VoiceMicOpens(w, k) \/ StartThrows(w, k) \/ WorkletReady(w, k)
             \/ ListenOpens(w, k) \/ ListenFails(w, k) \/ LiveAnswered(w, k) \/ SessionStarted(w, k)
      PROVE  VoiceInv'
  BY <1>1, <1>4, CheckedStep, VoiceMicOpensStep, StartThrowsStep, WorkletReadyStep, ListenOpensStep,
     ListenFailsStep, LiveAnsweredStep, SessionStartedStep
<1>5. QED
  BY <1>1, <1>2, <1>3, <1>4 DEF VoiceNext

\* Whatever starts, stops and announcements cross, a voice that was never stopped halfway
\* has what it needs and nothing else.
THEOREM VoiceInvariant == VoiceSpec => []VoiceInv
<1>1. VoiceInit => VoiceInv
  BY VoiceInitInv
<1>2. VoiceInv /\ [VoiceNext]_voiceVars => VoiceInv'
  BY VoiceStepInv
<1>3. QED
  BY <1>1, <1>2, PTL DEF VoiceSpec

LEMMA AtMostOne == ASSUME NEW S, \A x, y \in S : x = y PROVE Cardinality(S) <= 1
<1>1. CASE S = {}
  BY <1>1, FS_EmptySet
<1>2. CASE S # {}
  <2>1. PICK x \in S : TRUE
    BY <1>2
  <2>2. S = {x}
    BY <2>1
  <2>3. QED
    BY <2>2, FS_Singleton
<1>3. QED
  BY <1>1, <1>2

LEMMA TheMicsSettle == VoiceInv => MicsSettle
<1>1. SUFFICES ASSUME VoiceInv, Settled, cutShort = {}
               PROVE  /\ \A w \in Window : MicOpen(w) => voice[w].on # "off"
                      /\ Cardinality({w \in Window : MicOpen(w)}) <= 1
  BY DEF MicsSettle
<1>2. ASSUME NEW w \in Window PROVE voice[w] \in VoiceState /\ Fine(voice[w]) /\ ~(voice[w].heard > 0)
  BY <1>1, <1>2, VoiceTypes DEF Settled
<1>3. ASSUME NEW w \in Window, MicOpen(w) PROVE voice[w].on # "off" /\ Holds(voice[w])
  <2>1. \A k \in Begin : voice[w].at[k] \in {"none", "over"}
    BY <1>1, <1>3 DEF Settled, Running
  <2>2. QED
    BY <1>2, <1>3, <2>1 DEF MicOpen, Fine, KnowsItsOwn, Holds, AtWork, Begin
<1>4. \A x, w \in {y \in Window : MicOpen(y)} : x = w
  BY <1>1, <1>2, <1>3 DEF VoiceInv, OneIsTold
<1>5. QED
  BY <1>3, <1>4, AtMostOne

\* MicsSettle, for any number of tabs and starts: once everybody has heard of everybody,
\* one microphone is open at most, and none of a voice that is off.
THEOREM VoiceMicsSettle == VoiceSpec => []MicsSettle
<1>1. VoiceInv => MicsSettle
  BY TheMicsSettle
<1>2. QED
  BY <1>1, VoiceInvariant, PTL
-----------------------------------------------------------------------------
(* A spoken conversation's words.                                             *)

\* It was GPT-Live's to answer what began at start, and the user went on.
SetAside(y, i, start) ==
  \E r \in DOMAIN i, v \in DOMAIN y :
    i[r].end > start /\ y[v].start > start /\ y[v].start >= i[r].start

\* The words y and what GPT-Live said, i: nobody is told of words that are still to go,
\* nor both of any, and those that went to nobody were set aside.
Spoken(y, i) ==
  /\ y \in Seq(Span) /\ i \in Seq(Span)
  /\ \A r \in DOMAIN i : i[r].start <= i[r].end
  /\ \A u \in DOMAIN y : /\ y[u].told # {"agent", "chat"}
                         /\ ~y[u].used => y[u].told = {}
                         /\ y[u].used /\ y[u].told = {} => SetAside(y, i, y[u].start)

BridgeInv == BridgeTypeOK /\ Spoken(you, it)

\* Spans stay where they begin and grow only.
Continues(b, a) ==
  DOMAIN a \subseteq DOMAIN b /\ \A n \in DOMAIN a : b[n].start = a[n].start /\ b[n].end >= a[n].end

LEMMA BridgeNumbers ==
  /\ MaxTime \in Nat /\ Moment \subseteq Int /\ \A x \in Moment : x >= 0
  /\ WaitMax \in Nat /\ OwnAnswer \in Nat /\ DelegationSlack \in Nat /\ Settle \subseteq Int
BY BridgeAssumption DEF Moment

LEMMA GreatestOf ==
  ASSUME NEW S \in SUBSET Int, S # {}, NEW b \in Int, \A n \in S : n <= b
  PROVE  Max(S) \in S /\ \A n \in S : n <= Max(S)
<1> DEFINE D == {b - n : n \in S}
<1>1. D \in SUBSET Nat /\ D # {}
  <2>1. \A n \in S : n \in Int /\ n <= b
    OBVIOUS
  <2>2. \A n \in S : b - n \in Nat
    BY <2>1
  <2>3. QED
    BY <2>2
<1>2. PICK d \in D : \A k \in D : d <= k
  <2> HIDE DEF D
  <2>1. QED
    BY <1>1, LeastOf
<1>3. PICK n \in S : d = b - n
  BY <1>2
<1>4. \A m \in S : n >= m
  <2>1. TAKE m \in S
  <2>2. d <= b - m
    BY <1>2
  <2>3. QED
    BY <1>3, <2>2
<1>5. QED
  BY <1>3, <1>4 DEF Max

LEMMA SpanParts ==
  ASSUME NEW s \in Seq(Span), NEW n \in DOMAIN s
  PROVE  s[n] \in Span /\ s[n].start \in Int /\ s[n].end \in Int /\ s[n].start >= 0 /\ s[n].used \in BOOLEAN
         /\ s[n].told \in SUBSET {"agent", "chat"}
<1>1. s[n] \in Span
  OBVIOUS
<1>2. QED
  BY <1>1, BridgeNumbers DEF Span

LEMMA AsideStays ==
  ASSUME NEW y \in Seq(Span), NEW i \in Seq(Span), NEW z \in Seq(Span), NEW j \in Seq(Span),
         Continues(z, y), Continues(j, i), NEW start \in Int, SetAside(y, i, start)
  PROVE  SetAside(z, j, start)
<1>1. PICK r \in DOMAIN i, v \in DOMAIN y :
         i[r].end > start /\ y[v].start > start /\ y[v].start >= i[r].start
  BY DEF SetAside
<1>2. /\ r \in DOMAIN j /\ v \in DOMAIN z
      /\ j[r].start = i[r].start /\ j[r].end >= i[r].end /\ z[v].start = y[v].start
  BY DEF Continues
<1>3. j[r].end \in Int /\ i[r].end \in Int
  BY <1>2, SpanParts
<1>4. j[r].end > start /\ z[v].start > start /\ z[v].start >= j[r].start
  BY <1>1, <1>2, <1>3
<1>5. QED
  BY <1>2, <1>4 DEF SetAside

\* What Use and Tell do to a side's spans.
LEMMA UseIs ==
  ASSUME NEW s \in Seq(Span), NEW W, NEW z, z = Use(s, W)
  PROVE  /\ z \in Seq(Span) /\ DOMAIN z = DOMAIN s
         /\ \A n \in DOMAIN s : /\ z[n].start = s[n].start /\ z[n].end = s[n].end /\ z[n].told = s[n].told
                                /\ z[n].used <=> (s[n].used \/ n \in W)
<1>1. \A n \in DOMAIN s : s[n] \in Span
  BY SpanParts
<1>2. \A n \in DOMAIN s : [s[n] EXCEPT !.used = @ \/ n \in W] \in Span
  BY <1>1 DEF Span
<1>3. Len(s) \in Nat /\ DOMAIN s = 1 .. Len(s)
  OBVIOUS
<1>4. z \in [1 .. Len(s) -> Span]
  BY <1>2, <1>3 DEF Use
<1>5. \A n \in DOMAIN s : z[n] = [s[n] EXCEPT !.used = @ \/ n \in W]
  BY DEF Use
<1>6. QED
  BY <1>1, <1>3, <1>4, <1>5 DEF Span

LEMMA TellIs ==
  ASSUME NEW s \in Seq(Span), NEW T, NEW whom \in {"agent", "chat"}, NEW z, z = Tell(s, T, whom)
  PROVE  /\ z \in Seq(Span) /\ DOMAIN z = DOMAIN s
         /\ \A n \in DOMAIN s : /\ z[n].start = s[n].start /\ z[n].end = s[n].end /\ z[n].used = s[n].used
                                /\ n \in T => z[n].told = s[n].told \cup {whom}
                                /\ n \notin T => z[n].told = s[n].told
<1>1. z = [n \in DOMAIN s |-> [s[n] EXCEPT !.told = IF n \in T THEN @ \cup {whom} ELSE @]]
  BY DEF Tell
<1>2. ASSUME NEW n \in DOMAIN s
      PROVE  /\ z[n] \in Span /\ z[n].start = s[n].start /\ z[n].end = s[n].end /\ z[n].used = s[n].used
             /\ n \in T => z[n].told = s[n].told \cup {whom}
             /\ n \notin T => z[n].told = s[n].told
  <2> DEFINE who == IF n \in T THEN s[n].told \cup {whom} ELSE s[n].told
  <2>1. s[n] \in Span /\ who \in SUBSET {"agent", "chat"}
    BY SpanParts
  <2>2. z[n] = [s[n] EXCEPT !.told = who]
    BY <1>1
  <2>3. (n \in T => who = s[n].told \cup {whom}) /\ (n \notin T => who = s[n].told)
    OBVIOUS
  <2> HIDE DEF who
  <2>4. z[n] \in Span /\ z[n].start = s[n].start /\ z[n].end = s[n].end /\ z[n].used = s[n].used /\ z[n].told = who
    <3>1. PICK x, y, w : x = s[n] /\ y = z[n] /\ w = who
      OBVIOUS
    <3>2. x \in Span /\ w \in SUBSET {"agent", "chat"} /\ y = [x EXCEPT !.told = w]
      BY <2>1, <2>2, <3>1
    <3>3. y \in Span /\ y.start = x.start /\ y.end = x.end /\ y.used = x.used /\ y.told = w
      BY <3>2 DEF Span
    <3>4. QED
      BY <3>1, <3>3
  <2>5. QED
    BY <2>3, <2>4
<1>3. Len(s) \in Nat /\ DOMAIN s = 1 .. Len(s)
  OBVIOUS
<1>4. z \in [1 .. Len(s) -> Span]
  BY <1>1, <1>2, <1>3
<1>5. QED
  BY <1>2, <1>3, <1>4

\* From (y, i) to (z, j), which has no more of it: each utterance is as it was, or was
\* still to go and went to one, or was set aside.
LEMMA SpokenGoesOn ==
  ASSUME NEW y, NEW i, Spoken(y, i), NEW z \in Seq(Span), NEW j \in Seq(Span),
         Continues(z, y), Continues(j, i),
         \A r \in DOMAIN j : j[r].start <= j[r].end,
         \A u \in DOMAIN z : \/ u \in DOMAIN y /\ z[u].told = y[u].told /\ (z[u].used <=> y[u].used)
                             \/ ~z[u].used /\ z[u].told = {}
                             \/ z[u].used /\ z[u].told \in {{"agent"}, {"chat"}}
                             \/ z[u].used /\ z[u].told = {} /\ SetAside(z, j, z[u].start)
  PROVE  Spoken(z, j)
<1> SUFFICES ASSUME NEW u \in DOMAIN z
             PROVE  /\ z[u].told # {"agent", "chat"}
                    /\ ~z[u].used => z[u].told = {}
                    /\ z[u].used /\ z[u].told = {} => SetAside(z, j, z[u].start)
  BY DEF Spoken
<1>1. CASE u \in DOMAIN y /\ z[u].told = y[u].told /\ (z[u].used <=> y[u].used)
  <2>1. /\ y[u].told # {"agent", "chat"}
        /\ ~y[u].used => y[u].told = {}
        /\ y[u].used /\ y[u].told = {} => SetAside(y, i, y[u].start)
    BY <1>1 DEF Spoken
  <2>2. y \in Seq(Span) /\ i \in Seq(Span) /\ y[u].start \in Int /\ z[u].start = y[u].start
    BY <1>1, SpanParts DEF Spoken, Continues
  <2>3. SetAside(y, i, y[u].start) => SetAside(z, j, z[u].start)
    BY <2>2, AsideStays
  <2>4. QED
    BY <1>1, <2>1, <2>3
<1>2. CASE ~z[u].used /\ z[u].told = {}
  BY <1>2
<1>3. CASE z[u].used /\ z[u].told \in {{"agent"}, {"chat"}}
  BY <1>3
<1>4. CASE z[u].used /\ z[u].told = {} /\ SetAside(z, j, z[u].start)
  BY <1>4
<1>5. QED
  BY <1>1, <1>2, <1>3, <1>4

LEMMA SameSpans == ASSUME NEW s \in Seq(Span) PROVE Continues(s, s)
BY SpanParts DEF Continues

LEMMA FlushSpoken ==
  ASSUME NEW y, NEW i, Spoken(y, i), NEW before, NEW f, f = FlushAnswered(y, i, before)
  PROVE  /\ Spoken(f.you, f.it) /\ Continues(f.you, y) /\ Continues(f.it, i)
         /\ DOMAIN f.you = DOMAIN y /\ DOMAIN f.it = DOMAIN i
         /\ \A u \in DOMAIN y : \/ f.you[u].told = y[u].told /\ (f.you[u].used <=> y[u].used)
                                \/ f.you[u].used /\ f.you[u].told = {"chat"}
<1>1. y \in Seq(Span) /\ i \in Seq(Span)
  BY DEF Spoken
<1>2. PICK A, B : f = [you |-> Tell(Use(y, A), A, "chat"), it |-> Use(i, B)] /\ \A u \in A : ~y[u].used
  <2> DEFINE due == {u \in DOMAIN y : ~y[u].used /\ y[u].end < before}
             Replies(u) == RepliesTo(y, i, u, before)
             A == {u \in due : \E r \in Replies(u) : \A w \in due : w < u => r \notin Replies(w)}
             B == UNION {Replies(u) : u \in due}
  <2>1. f = [you |-> Tell(Use(y, A), A, "chat"), it |-> Use(i, B)]
    BY DEF FlushAnswered
  <2>2. \A u \in A : ~y[u].used
    OBVIOUS
  <2> HIDE DEF A, B
  <2>3. QED
    BY <2>1, <2>2
<1>3. /\ f.it \in Seq(Span) /\ DOMAIN f.it = DOMAIN i
      /\ \A n \in DOMAIN i : f.it[n].start = i[n].start /\ f.it[n].end = i[n].end
  BY <1>1, <1>2, UseIs
<1>4. /\ f.you \in Seq(Span) /\ DOMAIN f.you = DOMAIN y
      /\ \A n \in DOMAIN y : /\ f.you[n].start = y[n].start /\ f.you[n].end = y[n].end
                             /\ n \in A => f.you[n].told = y[n].told \cup {"chat"}
                             /\ n \notin A => f.you[n].told = y[n].told
                             /\ f.you[n].used <=> (y[n].used \/ n \in A)
  <2>1. PICK used, told : used = Use(y, A) /\ told = Tell(used, A, "chat") /\ f.you = told
    BY <1>2
  <2>2. /\ used \in Seq(Span) /\ DOMAIN used = DOMAIN y
        /\ \A n \in DOMAIN y : /\ used[n].start = y[n].start /\ used[n].end = y[n].end /\ used[n].told = y[n].told
                               /\ used[n].used <=> (y[n].used \/ n \in A)
    BY <1>1, <2>1, UseIs
  <2>3. /\ told \in Seq(Span) /\ DOMAIN told = DOMAIN used
        /\ \A n \in DOMAIN used :
             /\ told[n].start = used[n].start /\ told[n].end = used[n].end /\ told[n].used = used[n].used
             /\ n \in A => told[n].told = used[n].told \cup {"chat"}
             /\ n \notin A => told[n].told = used[n].told
    BY <2>1, <2>2, TellIs
  <2>4. QED
    BY <2>1, <2>2, <2>3
<1>5. Continues(f.you, y) /\ Continues(f.it, i)
  <2>1. /\ \A n \in DOMAIN y : y[n].start \in Int /\ y[n].end \in Int
        /\ \A n \in DOMAIN i : i[n].start \in Int /\ i[n].end \in Int
    BY <1>1, SpanParts
  <2>2. Continues(f.it, i)
    BY <1>3, <2>1 DEF Continues
  <2>3. \A n \in DOMAIN y : f.you[n].start = y[n].start /\ f.you[n].end = y[n].end
    BY <1>4
  <2>4. QED
    BY <1>4, <2>1, <2>2, <2>3 DEF Continues
<1>6. \A u \in DOMAIN y : \/ f.you[u].told = y[u].told /\ (f.you[u].used <=> y[u].used)
                          \/ f.you[u].used /\ f.you[u].told = {"chat"}
  <2>1. TAKE u \in DOMAIN y
  <2>2. CASE u \in A
    <3>1. y[u].told = {}
      BY <1>2, <2>2 DEF Spoken
    <3>2. QED
      BY <1>4, <2>2, <3>1
  <2>3. CASE u \notin A
    BY <1>4, <2>3
  <2>4. QED
    BY <2>2, <2>3
<1>7. \A r \in DOMAIN f.it : f.it[r].start <= f.it[r].end
  BY <1>3 DEF Spoken
<1>8. Spoken(f.you, f.it)
  BY <1>3, <1>4, <1>5, <1>6, <1>7, SpokenGoesOn
<1>9. QED
  BY <1>3, <1>4, <1>5, <1>6, <1>8

\* A piece that is added: its span is not used, or was none.
LEMMA AddIs ==
  ASSUME NEW s \in Seq(Span), NEW start \in Moment, NEW end \in Moment, start <= end
  PROVE  /\ Add(s, start, end) \in Seq(Span) /\ Continues(Add(s, start, end), s)
         /\ \A n \in DOMAIN Add(s, start, end) :
              \/ n \in DOMAIN s /\ Add(s, start, end)[n].told = s[n].told /\ Add(s, start, end)[n].used = s[n].used
              \/ n \notin DOMAIN s /\ ~Add(s, start, end)[n].used /\ Add(s, start, end)[n].told = {}
         /\ (\A n \in DOMAIN s : s[n].start <= s[n].end) =>
              \A n \in DOMAIN Add(s, start, end) : Add(s, start, end)[n].start <= Add(s, start, end)[n].end
<1>0. start \in Int /\ end \in Int /\ Moment = 0 .. MaxTime /\ MaxTime \in Nat
  BY BridgeNumbers DEF Moment
<1>1. CASE Joins(s, start)
  <2> DEFINE l == Len(s)
             ends == {s[l].end, end}
             e == Max(ends)
  <2>1. l \in DOMAIN s
    BY <1>1 DEF Joins
  <2>2. s[l] \in Span /\ s[l].end \in Moment
    BY <2>1, SpanParts DEF Span
  <2>3. e \in Moment /\ e >= s[l].end
    <3>1. ends \in SUBSET Int /\ ends # {} /\ \A n \in ends : n <= MaxTime
      BY <1>0, <2>2
    <3>2. MaxTime \in Int
      BY <1>0
    <3>3. e \in ends /\ \A n \in ends : n <= e
      <4> HIDE DEF ends
      <4>1. QED
        BY <3>1, <3>2, GreatestOf
    <3>4. QED
      BY <1>0, <2>2, <3>3
  <2>4. Add(s, start, end) = [s EXCEPT ![l].end = e]
    BY <1>1 DEF Add
  <2> HIDE DEF e
  <2>5. \A n \in DOMAIN s : [s EXCEPT ![l].end = e][n] = IF n = l THEN [s[l] EXCEPT !.end = e] ELSE s[n]
    BY <2>1
  <2>6. [s[l] EXCEPT !.end = e] \in Span
    BY <2>2, <2>3 DEF Span
  <2>7. [s EXCEPT ![l].end = e] \in Seq(Span) /\ DOMAIN [s EXCEPT ![l].end = e] = DOMAIN s
    <3>1. [s EXCEPT ![l].end = e] = [s EXCEPT ![l] = [s[l] EXCEPT !.end = e]]
      BY <2>1
    <3>2. QED
      BY <2>1, <2>6, <3>1
  <2>8. /\ [s[l] EXCEPT !.end = e].start = s[l].start /\ [s[l] EXCEPT !.end = e].end = e
        /\ [s[l] EXCEPT !.end = e].told = s[l].told /\ [s[l] EXCEPT !.end = e].used = s[l].used
    BY <2>2 DEF Span
  <2>9. \A n \in DOMAIN s : s[n].start \in Int /\ s[n].end \in Int
    BY SpanParts
  <2>10. e \in Int
    BY <1>0, <2>3
  <2>11. QED
    BY <2>1, <2>3, <2>4, <2>5, <2>7, <2>8, <2>9, <2>10 DEF Continues
<1>2. CASE ~Joins(s, start)
  <2> DEFINE x == [start |-> start, end |-> end, used |-> FALSE, told |-> {}]
  <2>1. Add(s, start, end) = Append(s, x) /\ x \in Span
    BY <1>2 DEF Add, Span
  <2>2. x.start = start /\ x.end = end /\ ~x.used /\ x.told = {}
    OBVIOUS
  <2> HIDE DEF x
  <2>3. /\ Append(s, x) \in Seq(Span) /\ DOMAIN s \subseteq DOMAIN Append(s, x)
        /\ \A n \in DOMAIN s : Append(s, x)[n] = s[n]
        /\ \A n \in DOMAIN Append(s, x) : n \in DOMAIN s \/ (n \notin DOMAIN s /\ Append(s, x)[n] = x)
    BY <2>1
  <2>4. \A n \in DOMAIN s : s[n].start \in Int /\ s[n].end \in Int
    BY SpanParts
  <2>5. QED
    BY <2>1, <2>2, <2>3, <2>4 DEF Continues
<1>3. QED
  BY <1>1, <1>2

LEMMA AddYouSpoken ==
  ASSUME NEW y, NEW i, Spoken(y, i), NEW start \in Moment, NEW end \in Moment, start <= end
  PROVE  Spoken(Add(y, start, end), i)
<1>1. y \in Seq(Span) /\ i \in Seq(Span) /\ \A r \in DOMAIN i : i[r].start <= i[r].end
  BY DEF Spoken
<1>2. PICK z : z = Add(y, start, end)
  OBVIOUS
<1>3. /\ z \in Seq(Span) /\ Continues(z, y)
      /\ \A n \in DOMAIN z : \/ n \in DOMAIN y /\ z[n].told = y[n].told /\ z[n].used = y[n].used
                             \/ n \notin DOMAIN y /\ ~z[n].used /\ z[n].told = {}
  BY <1>1, <1>2, AddIs
<1>4. Spoken(z, i)
  BY <1>1, <1>3, SameSpans, SpokenGoesOn
<1>5. QED
  BY <1>2, <1>4

LEMMA AddItSpoken ==
  ASSUME NEW y, NEW i, Spoken(y, i), NEW start \in Moment, NEW end \in Moment, start <= end
  PROVE  Spoken(y, Add(i, start, end))
<1>1. y \in Seq(Span) /\ i \in Seq(Span) /\ \A r \in DOMAIN i : i[r].start <= i[r].end
  BY DEF Spoken
<1>2. PICK z : z = Add(i, start, end)
  OBVIOUS
<1>3. z \in Seq(Span) /\ Continues(z, i) /\ \A n \in DOMAIN z : z[n].start <= z[n].end
  BY <1>1, <1>2, AddIs
<1>4. Spoken(y, z)
  BY <1>1, <1>3, SameSpans, SpokenGoesOn
<1>5. QED
  BY <1>2, <1>4

LEMMA CheckSpoken ==
  ASSUME BridgeTypeOK, NEW y, NEW i, Spoken(y, i), CheckAnswered(y, i)
  PROVE  Spoken(you', it') /\ answerDue' \in Int
<1>1. CASE i = <<>>
  BY <1>1 DEF CheckAnswered, Never
<1>2. CASE i # <<>>
  <2>1. Last(i).end \in Int
    <3>1. i \in Seq(Span) /\ Len(i) \in DOMAIN i
      BY <1>2 DEF Spoken
    <3>2. QED
      BY <3>1, SpanParts DEF Last
  <2>2. Last(i).end + OwnAnswer \in Int
    BY <2>1, BridgeNumbers
  <2>3. CASE Last(i).end + OwnAnswer <= clock
    <3> DEFINE f == FlushAnswered(y, i, Last(i).end + 1)
    <3>1. you' = f.you /\ it' = f.it /\ answerDue' = Never
      BY <1>2, <2>3 DEF CheckAnswered
    <3>2. Spoken(f.you, f.it)
      BY FlushSpoken
    <3>3. QED
      BY <3>1, <3>2 DEF Never
  <2>4. CASE ~(Last(i).end + OwnAnswer <= clock)
    BY <1>2, <2>2, <2>4 DEF CheckAnswered
  <2>5. QED
    BY <2>3, <2>4
<1>3. QED
  BY <1>1, <1>2

LEMMA CutoffIsTime ==
  ASSUME Spoken(you, it), NEW at, Mine(at) # {}
  PROVE  Cutoff(at) \in Int /\ Max(Mine(at)) \in DOMAIN you
         /\ Cutoff(at) \in {Never} \cup {it[r].end : r \in {r \in DOMAIN it : it[r].end <= you[Max(Mine(at))].start}}
<1> DEFINE v == Max(Mine(at))
           ends == {Never} \cup {it[r].end : r \in {r \in DOMAIN it : it[r].end <= you[v].start}}
<1>1. you \in Seq(Span) /\ it \in Seq(Span) /\ Mine(at) \subseteq DOMAIN you
  BY DEF Spoken, Mine, Open
<1>2. v \in DOMAIN you
  <2>1. Mine(at) \in SUBSET Int /\ Len(you) \in Int /\ \A n \in Mine(at) : n <= Len(you)
    BY <1>1
  <2>2. v \in Mine(at)
    BY <2>1, GreatestOf
  <2>3. QED
    BY <1>1, <2>2
<1>3. /\ you[v].start \in Int /\ you[v].start >= 0
      /\ \A r \in DOMAIN it : it[r].start \in Int /\ it[r].end \in Int
  BY <1>1, <1>2, SpanParts
<1>4. Cutoff(at) = Max(ends)
  BY DEF Cutoff
<1>5. ends \in SUBSET Int /\ ends # {} /\ \A n \in ends : n <= you[v].start
  BY <1>3 DEF Never
<1>6. Max(ends) \in ends
  <2> HIDE DEF ends
  <2>1. QED
    BY <1>3, <1>5, GreatestOf
<1>7. QED
  BY <1>2, <1>4, <1>5, <1>6

\* What a hand-off puts aside began before GPT-Live's answer ended, and that answer
\* before the newest words of the hand-off.
LEMMA CutoffAside ==
  ASSUME Spoken(you, it), NEW at, NEW u \in Mine(at), you[u].start < Cutoff(at)
  PROVE  SetAside(you, it, you[u].start)
<1> DEFINE v == Max(Mine(at))
<1>1. you \in Seq(Span) /\ it \in Seq(Span) /\ u \in DOMAIN you
  BY DEF Spoken, Mine, Open
<1>2. /\ v \in DOMAIN you /\ Cutoff(at) \in Int
      /\ Cutoff(at) \in {Never} \cup {it[r].end : r \in {r \in DOMAIN it : it[r].end <= you[v].start}}
  BY CutoffIsTime
<1> HIDE DEF v
<1>3. /\ you[v].start \in Int /\ you[u].start \in Int /\ you[u].start >= 0
      /\ \A r \in DOMAIN it : it[r].start \in Int /\ it[r].end \in Int
  BY <1>1, <1>2, SpanParts
<1>4. Cutoff(at) # Never
  BY <1>2, <1>3 DEF Never
<1>5. PICK r \in DOMAIN it : it[r].end <= you[v].start /\ Cutoff(at) = it[r].end
  BY <1>2, <1>4
<1>6. it[r].start <= it[r].end
  BY DEF Spoken
<1>7. it[r].end > you[u].start /\ you[v].start > you[u].start /\ you[v].start >= it[r].start
  BY <1>3, <1>5, <1>6
<1>8. QED
  BY <1>2, <1>7 DEF SetAside

LEMMA HandOverSpoken ==
  ASSUME Spoken(you, it), NEW at, NEW d \in BOOLEAN, HandOver(at, d)
  PROVE  Spoken(you', it') /\ settling' = NotSettling /\ delegation' \in BOOLEAN
<1> DEFINE mine == Mine(at)
           f == FlushAnswered(you, it, Cutoff(at))
           task == {u \in mine : ~f.you[u].used /\ f.you[u].start >= Cutoff(at)}
<1>1. /\ you' = Tell(Use(f.you, mine), task, "agent") /\ it' = f.it
      /\ settling' = NotSettling /\ delegation' \in BOOLEAN
  BY DEF HandOver
<1>2. you \in Seq(Span) /\ it \in Seq(Span) /\ mine \subseteq DOMAIN you /\ \A u \in mine : ~you[u].used
  BY DEF Spoken, Mine, Open
<1>3. /\ Spoken(f.you, f.it) /\ Continues(f.you, you) /\ Continues(f.it, it)
      /\ DOMAIN f.you = DOMAIN you /\ DOMAIN f.it = DOMAIN it
      /\ \A u \in DOMAIN you : \/ f.you[u].told = you[u].told /\ (f.you[u].used <=> you[u].used)
                               \/ f.you[u].used /\ f.you[u].told = {"chat"}
  BY FlushSpoken
<1>4. \A u \in task : u \in mine /\ ~f.you[u].used
  OBVIOUS
<1>5. \A u \in mine \ task : ~f.you[u].used => ~(f.you[u].start >= Cutoff(at))
  OBVIOUS
<1> HIDE DEF f, task
<1>6. f.you \in Seq(Span) /\ f.it \in Seq(Span) /\ \A r \in DOMAIN f.it : f.it[r].start <= f.it[r].end
  BY <1>3 DEF Spoken
<1>7. /\ you' \in Seq(Span) /\ DOMAIN you' = DOMAIN f.you
      /\ \A n \in DOMAIN f.you : /\ you'[n].start = f.you[n].start /\ you'[n].end = f.you[n].end
                                 /\ n \in task => you'[n].told = f.you[n].told \cup {"agent"}
                                 /\ n \notin task => you'[n].told = f.you[n].told
                                 /\ you'[n].used <=> (f.you[n].used \/ n \in mine)
  <2>1. PICK used, told : used = Use(f.you, mine) /\ told = Tell(used, task, "agent") /\ you' = told
    BY <1>1
  <2>2. /\ used \in Seq(Span) /\ DOMAIN used = DOMAIN f.you
        /\ \A n \in DOMAIN f.you : /\ used[n].start = f.you[n].start /\ used[n].end = f.you[n].end
                                   /\ used[n].told = f.you[n].told
                                   /\ used[n].used <=> (f.you[n].used \/ n \in mine)
    BY <1>6, <2>1, UseIs
  <2>3. /\ told \in Seq(Span) /\ DOMAIN told = DOMAIN used
        /\ \A n \in DOMAIN used :
             /\ told[n].start = used[n].start /\ told[n].end = used[n].end /\ told[n].used = used[n].used
             /\ n \in task => told[n].told = used[n].told \cup {"agent"}
             /\ n \notin task => told[n].told = used[n].told
    BY <2>1, <2>2, TellIs
  <2>4. QED
    BY <2>1, <2>2, <2>3
<1>8. Continues(you', f.you) /\ Continues(it', f.it)
  BY <1>1, <1>6, <1>7, SameSpans, SpanParts DEF Continues
<1>9. ASSUME NEW u \in mine, u \notin task, ~f.you[u].used PROVE SetAside(you', it', you'[u].start)
  <2>1. u \in DOMAIN you /\ u \in DOMAIN f.you /\ f.you[u].start = you[u].start /\ you[u].start \in Int
    BY <1>2, <1>3, SpanParts DEF Continues
  <2>2. Cutoff(at) \in Int => you[u].start < Cutoff(at)
    BY <1>5, <1>9, <2>1
  <2>3. Cutoff(at) \in Int
    BY <1>2, CutoffIsTime
  <2>4. SetAside(you, it, you[u].start)
    BY <2>2, <2>3, CutoffAside
  <2>5. SetAside(f.you, f.it, you[u].start)
    BY <1>2, <1>3, <1>6, <2>1, <2>4, AsideStays
  <2>6. it' \in Seq(Span) /\ you'[u].start = you[u].start
    BY <1>1, <1>6, <1>7, <2>1
  <2>7. QED
    BY <1>6, <1>7, <1>8, <2>1, <2>5, <2>6, AsideStays
<1>10. \A u \in DOMAIN you' : \/ u \in DOMAIN f.you /\ you'[u].told = f.you[u].told /\ (you'[u].used <=> f.you[u].used)
                              \/ you'[u].used /\ you'[u].told \in {{"agent"}, {"chat"}}
                              \/ you'[u].used /\ you'[u].told = {} /\ SetAside(you', it', you'[u].start)
  <2>1. TAKE u \in DOMAIN you'
  <2>2. CASE u \in task
    <3>1. f.you[u].told = {}
      BY <1>3, <1>4, <1>7, <2>2 DEF Spoken
    <3>2. QED
      BY <1>4, <1>7, <2>2, <3>1
  <2>3. CASE u \in mine /\ u \notin task /\ f.you[u].used
    BY <1>7, <2>3
  <2>4. CASE u \in mine /\ u \notin task /\ ~f.you[u].used
    <3>1. f.you[u].told = {}
      BY <1>3, <1>7, <2>4 DEF Spoken
    <3>2. QED
      BY <1>7, <1>9, <2>4, <3>1
  <2>5. CASE u \notin mine /\ u \notin task
    BY <1>7, <2>5
  <2>6. QED
    BY <1>4, <2>2, <2>3, <2>4, <2>5
<1>11. Spoken(you', it')
  <2>1. \A r \in DOMAIN it' : it'[r].start <= it'[r].end
    BY <1>1, <1>6
  <2>2. you' \in Seq(Span) /\ it' \in Seq(Span)
    BY <1>1, <1>6, <1>7
  <2>3. QED
    BY <1>3, <1>8, <1>10, <2>1, <2>2, SpokenGoesOn
<1>12. QED
  BY <1>1, <1>11

LEMMA SettlesSpoken ==
  ASSUME BridgeInv, NEW since \in Moment, NEW at \in Moment, NEW d \in BOOLEAN, Settles(since, at, d)
  PROVE  /\ Spoken(you', it') /\ delegation' \in BOOLEAN
         /\ settling' \in [due : Int, since : Moment, at : Moment]
<1>1. PICK settle \in Settle :
        \/ /\ settling' = [due |-> lastHeardAt + settle, since |-> since, at |-> at]
           /\ delegation' = d /\ UNCHANGED <<you, it>>
        \/ HandOver(at, d)
  BY DEF Settles
<1>2. lastHeardAt + settle \in Int
  BY BridgeNumbers DEF BridgeInv, BridgeTypeOK
<1>3. NotSettling \in [due : Int, since : Moment, at : Moment]
  BY BridgeAssumption DEF NotSettling, Never, Moment
<1>4. QED
  BY <1>1, <1>2, <1>3, HandOverSpoken DEF BridgeInv

LEMMA BridgeStep == BridgeInv /\ [BridgeNext]_bridgeVars => BridgeInv'
<1> SUFFICES ASSUME BridgeInv, [BridgeNext]_bridgeVars PROVE BridgeInv'
  OBVIOUS
<1>0. BridgeTypeOK /\ Spoken(you, it)
  BY DEF BridgeInv
<1>1. CASE UNCHANGED bridgeVars
  <2>1. UNCHANGED <<you, it, clock, lastHeardAt, settling, answerDue, delegation, handOffs, closed>>
    BY <1>1 DEF bridgeVars
  <2>2. Spoken(you', it')
    BY <1>0, <2>1
  <2>3. QED
    BY <1>0, <2>1, <2>2 DEF BridgeInv, BridgeTypeOK
<1>2. CASE Tick
  <2>1. you' = you /\ it' = it
    BY <1>2 DEF Tick
  <2>2. Spoken(you', it')
    BY <1>0, <2>1
  <2>3. clock' \in Moment
    BY <1>0, <1>2, BridgeNumbers DEF Tick, BridgeTypeOK, Moment
  <2>4. QED
    BY <1>0, <1>2, <2>2, <2>3 DEF Tick, BridgeInv, BridgeTypeOK
<1>3. ASSUME NEW start \in Moment, NEW end \in Moment, HearYou(start, end) PROVE BridgeInv'
  <2>1. start <= end
    BY <1>3 DEF HearYou, Follows
  <2>2. Spoken(Add(you, start, end), it)
    BY <1>0, <2>1, AddYouSpoken
  <2>3. Spoken(you', it') /\ answerDue' \in Int
    BY <1>0, <1>3, <2>2, CheckSpoken DEF HearYou
  <2>4. lastHeardAt' \in Int
    BY <1>0, <1>3, BridgeNumbers DEF HearYou, BridgeTypeOK
  <2>5. QED
    BY <1>0, <1>3, <2>3, <2>4 DEF HearYou, BridgeInv, BridgeTypeOK, Spoken
<1>4. ASSUME NEW start \in Moment, NEW end \in Moment, HearIt(start, end) PROVE BridgeInv'
  <2>1. start <= end
    BY <1>4 DEF HearIt, Follows
  <2>2. Spoken(you, Add(it, start, end))
    BY <1>0, <2>1, AddItSpoken
  <2>3. Spoken(you', it') /\ answerDue' \in Int
    BY <1>0, <1>4, <2>2, CheckSpoken DEF HearIt
  <2>4. QED
    BY <1>0, <1>4, <2>3 DEF HearIt, BridgeInv, BridgeTypeOK, Spoken
<1>5. CASE AnswerTimer
  <2>1. Spoken(you', it') /\ answerDue' \in Int
    BY <1>0, <1>5, CheckSpoken DEF AnswerTimer
  <2>2. QED
    BY <1>0, <1>5, <2>1 DEF AnswerTimer, BridgeInv, BridgeTypeOK, Spoken
<1>6. ASSUME NEW at \in Moment, HandOff(at) PROVE BridgeInv'
  <2>1. /\ Spoken(you', it') /\ delegation' \in BOOLEAN
        /\ settling' \in [due : Int, since : Moment, at : Moment]
    BY <1>0, <1>6, SettlesSpoken DEF HandOff, BridgeTypeOK
  <2>2. handOffs' \in 0 .. MaxHandOff
    BY <1>0, <1>6, BridgeAssumption DEF HandOff, BridgeTypeOK
  <2>3. QED
    BY <1>0, <1>6, <2>1, <2>2 DEF HandOff, BridgeInv, BridgeTypeOK, Spoken
<1>7. CASE SettleTimer
  <2>1. settling.since \in Moment /\ settling.at \in Moment /\ delegation \in BOOLEAN
    BY <1>0 DEF BridgeTypeOK
  <2>2. /\ Spoken(you', it') /\ delegation' \in BOOLEAN
        /\ settling' \in [due : Int, since : Moment, at : Moment]
    BY <1>7, <2>1, SettlesSpoken DEF SettleTimer
  <2>3. QED
    BY <1>0, <1>7, <2>2 DEF SettleTimer, BridgeInv, BridgeTypeOK, Spoken
<1>8. CASE TurnEnded
  <2>1. you' = you /\ it' = it
    BY <1>8 DEF TurnEnded
  <2>2. Spoken(you', it')
    BY <1>0, <2>1
  <2>3. QED
    BY <1>0, <1>8, <2>2 DEF TurnEnded, BridgeInv, BridgeTypeOK
<1>9. CASE CloseBridge
  <2>1. Spoken(you', it')
    BY <1>0, <1>9, FlushSpoken DEF CloseBridge
  <2>2. settling' \in [due : Int, since : Moment, at : Moment] /\ answerDue' \in Int
    BY <1>9, BridgeAssumption DEF CloseBridge, NotSettling, Never, Moment
  <2>3. QED
    BY <1>0, <1>9, <2>1, <2>2 DEF CloseBridge, BridgeInv, BridgeTypeOK, Spoken
<1>10. QED
  BY <1>1, <1>2, <1>3, <1>4, <1>5, <1>6, <1>7, <1>8, <1>9 DEF BridgeNext

\* What becomes of the words of a spoken conversation, over any pieces, hand-offs and
\* waits: each utterance is still to go, went to one, or was set aside.
THEOREM BridgeInvariant == BridgeSpec => []BridgeInv
<1>1. BridgeInit => BridgeInv
  <2> SUFFICES ASSUME BridgeInit PROVE BridgeInv
    OBVIOUS
  <2>1. you = <<>> /\ it = <<>> /\ DOMAIN you = {} /\ DOMAIN it = {}
    BY DEF BridgeInit
  <2>2. Spoken(you, it)
    BY <2>1 DEF Spoken
  <2>3. lastHeardAt \in Int
    BY BridgeNumbers DEF BridgeInit
  <2>4. 0 \in Moment /\ 0 \in 0 .. MaxHandOff /\ Never \in Int
    BY BridgeAssumption DEF Moment, Never
  <2>5. settling \in [due : Int, since : Moment, at : Moment]
    BY <2>4 DEF BridgeInit, NotSettling
  <2>6. QED
    BY <2>2, <2>3, <2>4, <2>5 DEF BridgeInit, BridgeInv, BridgeTypeOK, Spoken
<1>2. QED
  BY <1>1, BridgeStep, PTL DEF BridgeSpec

\* WordsGoOnce, for any number of utterances, hand-offs and waits.
THEOREM BridgeWordsGoOnce == BridgeSpec => []WordsGoOnce
<1>1. BridgeInv => WordsGoOnce
  BY DEF BridgeInv, Spoken, SetAside, WordsGoOnce
<1>2. QED
  BY <1>1, BridgeInvariant, PTL
=============================================================================
