------------------------- MODULE TermManagerProofs -------------------------
(***************************************************************************)
(* Theorems about the thread shell of TermManager, for any set of channels *)
(* and any number of shells.                                               *)
(***************************************************************************)
EXTENDS TermManager, TLAPS

HandlerType == [op: HandlerOp, s: {NoSession} \cup Session]

(* Removing a client from the list leaves a list of clients, and an empty  *)
(* list stays empty.                                                       *)
LEMMA WithoutType ==
  ASSUME NEW q \in Seq(Client), NEW c \in Client
  PROVE  /\ Without(q, c) \in Seq(Client)
         /\ q = <<>> => Without(q, c) = <<>>
  BY DEF Without

(* A list that grows at its end, and one of two at least that loses its head. *)
LEMMA AppendOf ==
  ASSUME NEW S, NEW q \in Seq(S), NEW m \in S
  PROVE  /\ Append(q, m) \in Seq(S) /\ Append(q, m) # <<>>
         /\ Len(q) \in Nat /\ Len(Append(q, m)) = Len(q) + 1
         /\ Append(q, m)[Len(q) + 1] = m
         /\ \A i \in 1 .. Len(q) : Append(q, m)[i] = q[i]
<1>1. Append(q, m) \in Seq(S) /\ Len(q) \in Nat /\ Len(Append(q, m)) = Len(q) + 1
  OBVIOUS
<1>2. Append(q, m)[Len(q) + 1] = m /\ \A i \in 1 .. Len(q) : Append(q, m)[i] = q[i]
  OBVIOUS
<1>3. Len(<<>>) = 0 /\ Len(q) + 1 # 0
  BY <1>1
<1>4. Append(q, m) # <<>>
  BY <1>1, <1>3
<1>5. QED
  BY <1>1, <1>2, <1>4

LEMMA TailOf ==
  ASSUME NEW S, NEW q \in Seq(S), q # <<>>, Len(q) # 1
  PROVE  /\ Len(q) \in Nat /\ Len(q) > 1 /\ Tail(q) \in Seq(S) /\ Tail(q) # <<>>
         /\ Len(Tail(q)) = Len(q) - 1
         /\ \A i \in 1 .. Len(q) - 1 : Tail(q)[i] = q[i + 1]
<1>0. Len(q) \in Nat /\ Len(q) >= 1
  OBVIOUS
<1>1. Len(q) \in Nat /\ Len(q) > 1
  <2>1. \A n : n \in Nat /\ n >= 1 /\ n # 1 => n > 1
    OBVIOUS
  <2>2. QED
    BY <1>0, <2>1, Zenon
<1>2. Tail(q) \in Seq(S) /\ Len(Tail(q)) = Len(q) - 1 /\ \A i \in 1 .. Len(q) - 1 : Tail(q)[i] = q[i + 1]
  OBVIOUS
<1>3. Len(Tail(q)) # 0 /\ Len(<<>>) = 0
  BY <1>1, <1>2
<1>4. Tail(q) # <<>>
  BY <1>3
<1>5. QED
  BY <1>1, <1>2, <1>4

LEMMA NewsType ==
  ASSUME TypeOK, NEW c \in Client
  PROVE  /\ news[c] \in Seq(Belief) /\ Len(news[c]) \in Nat \ {0}
         /\ Said(c) \in Belief /\ Told(c) \in Belief
         /\ Ended(c) \in Belief
         /\ \A r \in {"none", "writer", "viewer"}, s \in {NoSession} \cup Session :
              Role(c, r, s) \in Belief
<1>1. news[c] \in Seq(Belief) /\ news[c] # <<>>
  BY DEF TypeOK
<1>2. Len(news[c]) \in Nat \ {0}
  BY <1>1
<1>3. Said(c) \in Belief /\ Told(c) \in Belief
  BY <1>1, <1>2 DEF Said, Told
<1>4. QED
  BY <1>1, <1>2, <1>3 DEF Ended, Role, Belief

(* What is on its way to views after a message has been put there. *)
NewsTyped == news \in [Client -> Seq(Belief)] /\ \A c \in Client : news[c] # <<>>

LEMMA TellType ==
  ASSUME TypeOK, NEW says, \A x \in Client : x \in DOMAIN says => says[x] \in Belief, Tell(says)
  PROVE  NewsTyped'
<1>1. news' = [c \in Client |-> IF c \in DOMAIN says /\ open[c] THEN Append(news[c], says[c])
                                                              ELSE news[c]]
  BY DEF Tell
<1>2. ASSUME NEW c \in Client PROVE news'[c] \in Seq(Belief) /\ news'[c] # <<>>
  <2>1. news[c] \in Seq(Belief) /\ news[c] # <<>>
    BY DEF TypeOK
  <2>2. CASE c \in DOMAIN says /\ open[c]
    <3>1. says[c] \in Belief /\ news'[c] = Append(news[c], says[c])
      BY <1>1, <2>2
    <3>2. QED
      BY <2>1, <3>1, AppendOf
  <2>3. CASE ~(c \in DOMAIN says /\ open[c])
    BY <1>1, <2>1, <2>3
  <2>4. QED
    BY <2>2, <2>3
<1>3. QED
  BY <1>1, <1>2 DEF NewsTyped

LEMMA QueueType ==
  ASSUME NEW q \in Seq(Message), q # <<>>
  PROVE  Tail(q) \in Seq(Message) /\ Head(q) \in Message /\ <<Head(q)>> \in Seq(Message)
  OBVIOUS

(* The view's and the handler's steps. *)
LEMMA TypeView ==
  ASSUME TypeOK, NEW c \in Client, ViewStep(c)
  PROVE  TypeOK'
<1> USE DEF TypeOK, sessionVars
<1>1. CASE PressTakeover(c)
  BY <1>1, MaxPressAssumption DEF PressTakeover, Press, Message
<1>3. CASE PressKey(c)
  BY <1>3, MaxPressAssumption DEF PressKey, Press, Message
<1>2. CASE CloseChannel(c)
  <2>1. inbox' \in [Client -> Seq(Message)]
    <3>1. inbox[c] \in Seq(Message) /\ <<>> \in Seq(Message)
      OBVIOUS
    <3>2. \/ inbox' = [inbox EXCEPT ![c] = <<>>]
          \/ inbox[c] # <<>> /\ inbox' = [inbox EXCEPT ![c] = <<Head(inbox[c])>>]
      BY <1>2 DEF CloseChannel
    <3>3. inbox[c] # <<>> => <<Head(inbox[c])>> \in Seq(Message)
      BY <3>1, QueueType
    <3>4. QED
      BY <3>1, <3>2, <3>3
  <2>2. NewsTyped'
    <3>1. NoBelief \in Belief
      BY DEF NoBelief, Belief
    <3>2. <<NoBelief>> \in Seq(Belief) /\ <<NoBelief>> # <<>>
      BY <3>1
    <3>3. QED
      BY <1>2, <3>2 DEF CloseChannel, NewsTyped
  <2>3. QED
    BY <1>2, <2>1, <2>2 DEF CloseChannel, NewsTyped
<1>5. CASE Hear(c)
  <2>1. news[c] \in Seq(Belief) /\ news[c] # <<>> /\ Len(news[c]) # 1
    BY <1>5 DEF Hear, Heard
  <2>2. Tail(news[c]) \in Seq(Belief) /\ Tail(news[c]) # <<>>
    BY <2>1, TailOf
  <2>3. NewsTyped'
    BY <1>5, <2>2 DEF Hear, NewsTyped
  <2>4. inbox' \in [Client -> Seq(Message)]
    <3>1. Append(inbox[c], "resize") \in Seq(Message)
      BY DEF Message
    <3>2. QED
      BY <1>5, <3>1 DEF Hear
  <2>5. QED
    BY <1>5, <2>3, <2>4 DEF Hear, NewsTyped
<1>4. QED
  BY <1>1, <1>2, <1>3, <1>5 DEF ViewStep

LEMMA TypeHandler ==
  ASSUME TypeOK, NEW c \in Client, HandlerStep(c)
  PROVE  TypeOK'
<1> USE DEF TypeOK, sessionVars
<1>0. /\ Idle \in HandlerType
      /\ \A op \in HandlerOp, s \in {NoSession} \cup Session : Busy(op, s) \in HandlerType
  BY DEF Idle, Busy, HandlerType, HandlerOp
<1>1. CASE HandleAttach(c)
  <2>1. inbox' \in [Client -> Seq(Message)]
    BY <1>1, QueueType DEF HandleAttach, Take, Drop
  <2>2. attached' \in [Client -> BOOLEAN] /\ handler' \in [Client -> HandlerType]
    <3>1. CASE UNCHANGED <<attached, handler>>
      BY <3>1 DEF HandlerType
    <3>2. CASE /\ attached' = [attached EXCEPT ![c] = TRUE]
               /\ handler' = [handler EXCEPT ![c] = Busy("attaching", NoSession)]
      BY <3>2, <1>0 DEF HandlerType, HandlerOp
    <3>3. QED
      BY <3>1, <3>2, <1>1 DEF HandleAttach
  <2>3. QED
    BY <1>1, <2>1, <2>2 DEF HandleAttach, HandlerType
<1>2. CASE GetOrSpawn(c)
  <2>1. CASE UNCHANGED sessionVars
    <3>1. handler' \in [Client -> HandlerType]
      BY <1>0, <1>2, <2>1 DEF GetOrSpawn, HandlerType, HandlerOp
    <3>2. QED
      BY <1>2, <2>1, <3>1 DEF GetOrSpawn, HandlerType
  <2>2. CASE Spawn(c)
    <3>1. spawned' \in Session /\ current' \in Session /\ spawned' \in 0 .. MaxSpawn
      BY <2>2, MaxSpawnAssumption DEF Spawn, Session
    <3>2. handler' \in [Client -> HandlerType]
      BY <1>0, <1>2, <3>1 DEF GetOrSpawn, HandlerType, HandlerOp
    <3>3. phase' \in [Session -> {"unborn", "running", "exited", "unmapped", "ended"}]
      BY <2>2, <3>1 DEF Spawn
    <3>4. size' \in [Session -> Client \cup {None}]
      BY <2>2, <3>1 DEF Spawn
    <3>5. QED
      BY <1>2, <2>2, <3>1, <3>2, <3>3, <3>4 DEF GetOrSpawn, Spawn, HandlerType
  <2>3. QED
    BY <1>2, <2>1, <2>2 DEF GetOrSpawn
<1>3. CASE SpawnFails(c)
  BY <1>0, <1>3 DEF SpawnFails, HandlerType
<1>4. CASE Join(c)
  <2> DEFINE s == handler[c].s
             w == IF writer[s] = None THEN c ELSE writer[s]
             says == [x \in {c} |-> Role(x, IF w = c THEN "writer" ELSE "viewer", s)]
  <2>1. s \in {NoSession} \cup Session
    OBVIOUS
  <2>2. NewsTyped'
    <3>1. \A x \in Client : x \in DOMAIN says => says[x] \in Belief
      BY <2>1, NewsType
    <3>2. Tell(says)
      BY <1>4 DEF Join
    <3> HIDE DEF says
    <3>3. QED
      BY <3>1, <3>2, TellType
  <2>3. writer' \in [Session -> Client \cup {None}] /\ clients' \in [Session -> Seq(Client)]
    <3>1. s \in Session => w \in Client /\ Append(clients[s], c) \in Seq(Client)
      OBVIOUS
    <3>2. writer' = [writer EXCEPT ![s] = w] /\ clients' = [clients EXCEPT ![s] = Append(@, c)]
      BY <1>4 DEF Join
    <3> HIDE DEF s, w
    <3>3. QED
      BY <3>1, <3>2
  <2>5. late' \in [Session -> SUBSET Client]
    BY <1>4 DEF Join
  <2>4. QED
    BY <1>0, <1>4, <2>2, <2>3, <2>5 DEF Join, NewsTyped, HandlerType
<1>5. CASE HandleTakeover(c)
  BY <1>5 DEF HandleTakeover, LookUp, Take, Drop, Busy, HandlerOp
<1>9. CASE HandleResize(c)
  BY <1>9 DEF HandleResize, LookUp, Take, Drop, Busy, HandlerOp
<1>10. CASE HandleInput(c)
  BY <1>10 DEF HandleInput, LookUp, Take, Drop, Busy, HandlerOp
<1>6. CASE TakeOver(c)
  <2> DEFINE s == handler[c].s
             prev == writer[s]
             says == [x \in {c} \cup ({prev} \ {None}) |->
                         Role(x, IF x = c THEN "writer" ELSE "viewer", s)]
  <2>1. s \in {NoSession} \cup Session
    OBVIOUS
  <2>2. \A x \in Client : x \in DOMAIN says => says[x] \in Belief
    BY <2>1, NewsType
  <2>3. CASE UNCHANGED <<writer, size, news, late>>
    BY <1>0, <1>6, <2>3 DEF TakeOver, HandlerType
  <2>4. CASE prev # c
    <3>1. /\ Tell(says) /\ writer' = [writer EXCEPT ![s] = c] /\ size' = [size EXCEPT ![s] = c]
          /\ late' = IF c \in ClientSet(s) THEN late ELSE [late EXCEPT ![s] = @ \cup {c}]
      BY <1>6, <2>4 DEF TakeOver
    <3> HIDE DEF says
    <3>2. NewsTyped' /\ late' \in [Session -> SUBSET Client]
      BY <2>2, <3>1, TellType
    <3>3. QED
      BY <1>0, <1>6, <3>1, <3>2 DEF TakeOver, NewsTyped, HandlerType
  <2>5. QED
    BY <1>6, <2>3, <2>4 DEF TakeOver
<1>7. CASE Resize(c)
  BY <1>7 DEF Resize, Idle, HandlerOp
<1>11. CASE CheckWriter(c)
  BY <1>11 DEF CheckWriter, Idle, Busy, HandlerOp
<1>12. CASE WriteKeys(c)
  BY <1>12 DEF WriteKeys, Idle, HandlerOp
<1>8. QED
  BY <1>1, <1>2, <1>3, <1>4, <1>5, <1>6, <1>7, <1>9, <1>10, <1>11, <1>12 DEF HandlerStep

LEMMA TypeDetacher ==
  ASSUME TypeOK, NEW c \in Client, DetacherStep(c)
  PROVE  TypeOK'
<1> USE DEF TypeOK, sessionVars
<1>1. CASE StartDetach(c)
  BY <1>1 DEF StartDetach, Busy, DetacherOp
<1>4. CASE FindSession(c)
  BY <1>4 DEF FindSession, Busy, DetacherOp
<1>2. CASE Leave(c)
  <2> DEFINE s == detacher[c].s
             rest == Without(clients[s], c)
             heir == IF rest = <<>> THEN None ELSE rest[Len(rest)]
             says == [x \in {heir} \ {None} |-> Role(x, "writer", s)]
  <2>1. s \in {NoSession} \cup Session
    OBVIOUS
  <2>2. s \in Session => rest \in Seq(Client) /\ heir \in Client \cup {None}
    <3>1. s \in Session => rest \in Seq(Client)
      BY WithoutType
    <3> HIDE DEF rest
    <3>2. QED
      BY <3>1
  <2>3. \A x \in Client : x \in DOMAIN says => says[x] \in Belief
    BY <2>1, NewsType
  <2>4. /\ clients' = [clients EXCEPT ![s] = rest]
        /\ detacher' = [detacher EXCEPT ![c] = Busy("done", NoSession)]
        /\ \/ writer' = [writer EXCEPT ![s] = heir] /\ Tell(says)
           \/ UNCHANGED <<writer, news>>
    BY <1>2 DEF Leave
  <2> HIDE DEF s, rest, heir, says
  <2>5. clients' \in [Session -> Seq(Client)] /\ writer' \in [Session -> Client \cup {None}]
    <3>1. clients' \in [Session -> Seq(Client)]
      BY <2>2, <2>4
    <3>2. CASE writer' = [writer EXCEPT ![s] = heir]
      BY <2>2, <3>1, <3>2
    <3>3. CASE UNCHANGED writer
      BY <3>1, <3>3
    <3>4. QED
      BY <2>4, <3>2, <3>3
  <2>6. NewsTyped'
    BY <2>3, <2>4, TellType DEF NewsTyped
  <2>7. /\ UNCHANGED <<current, spawned, phase, size, toTell, late, open, attached, inbox, handler, presses>>
        /\ detacher' \in [Client -> [op: DetacherOp, s: {NoSession} \cup Session]]
    BY <1>2 DEF Leave, Busy, DetacherOp
  <2>8. QED
    BY <2>5, <2>6, <2>7 DEF NewsTyped
<1>3. QED
  BY <1>1, <1>2, <1>4 DEF DetacherStep

LEMMA TypePump ==
  ASSUME TypeOK, NEW s \in Session, ShellExits(s) \/ PumpStep(s)
  PROVE  TypeOK'
<1> USE DEF TypeOK, channelVars
<1>1. CASE ShellExits(s) \/ Unmap(s)
  BY <1>1 DEF ShellExits, Unmap
<1>2. CASE ClearClients(s)
  BY <1>2 DEF ClearClients, ClientSet
<1>3. ASSUME NEW c \in Client, TellExit(s, c)
      PROVE  TypeOK'
  <2> DEFINE says == [x \in {c} |-> Ended(x)]
  <2>1. \A x \in Client : x \in DOMAIN says => says[x] \in Belief
    BY NewsType
  <2>2. Tell(says)
    BY <1>3 DEF TellExit
  <2> HIDE DEF says
  <2>3. NewsTyped'
    BY <2>1, <2>2, TellType
  <2>4. QED
    BY <1>3, <2>3 DEF TellExit, NewsTyped
<1>4. QED
  BY <1>1, <1>2, <1>3 DEF PumpStep

(* Every step keeps the type invariant. *)
LEMMA TypeStep == TypeOK /\ [Next]_vars => TypeOK'
<1> SUFFICES ASSUME TypeOK, [Next]_vars PROVE TypeOK'
  OBVIOUS
<1>1. CASE TypeSpawns
  <2> USE DEF TypeOK
  <2>1. spawned' \in Session /\ current' \in Session /\ spawned' \in 0 .. MaxSpawn
    BY <1>1, MaxSpawnAssumption DEF TypeSpawns, Spawn, Session
  <2>2. phase' \in [Session -> {"unborn", "running", "exited", "unmapped", "ended"}]
    BY <1>1, <2>1 DEF TypeSpawns, Spawn
  <2>3. size' \in [Session -> Client \cup {None}]
    BY <1>1, <2>1 DEF TypeSpawns, Spawn
  <2>4. QED
    BY <1>1, <2>1, <2>2, <2>3 DEF TypeSpawns, Spawn, channelVars
<1>2. CASE UNCHANGED vars
  BY <1>2 DEF TypeOK, vars
<1>3. QED
  BY <1>1, <1>2, TypeView, TypeHandler, TypeDetacher, TypePump DEF Next

(* The variables keep their types. *)
THEOREM TermTypeCorrect == Spec => []TypeOK
<1>1. Init => TypeOK
  BY MaxSpawnAssumption, MaxPressAssumption
     DEF Init, TypeOK, Session, NoSession, Idle, Busy, NoBelief, Belief, Message, HandlerOp, DetacherOp
<1>2. QED
  BY <1>1, TypeStep, PTL DEF Spec

-----------------------------------------------------------------------------
(***************************************************************************)
(* What views are told. Said(c) is what c believes once it has heard all   *)
(* that is on its way to it: a message that is put there sets it, and a    *)
(* view that hears one does not change it. A view whose role rises to      *)
(* writer along the way will send its size.                                *)
(***************************************************************************)
Rising(c) ==
  \E i \in 1 .. Len(news[c]) - 1 : news[c][i].role # "writer" /\ news[c][i + 1].role = "writer"
Promoted(x, says) ==
  /\ x \in DOMAIN says /\ open[x]
  /\ says[x].role = "writer" /\ Said(x).role # "writer"

LEMMA TellSays ==
  ASSUME TypeOK, NEW says, \A y \in Client : y \in DOMAIN says => says[y] \in Belief,
         Tell(says), NEW x \in Client
  PROVE  /\ Said(x)' = IF x \in DOMAIN says /\ open[x] THEN says[x] ELSE Said(x)
         /\ ~(x \in DOMAIN says /\ open[x]) => news'[x] = news[x]
         /\ Rising(x) => Rising(x)'
         /\ Promoted(x, says) => Rising(x)'
<1>1. news'[x] = IF x \in DOMAIN says /\ open[x] THEN Append(news[x], says[x]) ELSE news[x]
  BY DEF Tell
<1>2. CASE ~(x \in DOMAIN says /\ open[x])
  BY <1>1, <1>2 DEF Said, Rising, Promoted
<1>3. CASE x \in DOMAIN says /\ open[x]
  <2>1. /\ news'[x] = Append(news[x], says[x]) /\ says[x] \in Belief
        /\ news[x] \in Seq(Belief) /\ Len(news[x]) \in Nat \ {0}
    BY <1>1, <1>3, NewsType
  <2> DEFINE n == Len(news[x])
  <2>2. /\ n \in Nat \ {0} /\ Len(news'[x]) = n + 1 /\ news'[x][n + 1] = says[x]
        /\ \A i \in 1 .. n : news'[x][i] = news[x][i]
    BY <2>1, AppendOf
  <2> HIDE DEF n
  <2>3. Said(x)' = says[x]
    BY <2>2 DEF Said
  <2>4. Rising(x) => Rising(x)'
    <3>1. SUFFICES ASSUME NEW i \in 1 .. n - 1,
                          news[x][i].role # "writer", news[x][i + 1].role = "writer"
                   PROVE  Rising(x)'
      BY DEF Rising, n
    <3>2. i \in 1 .. n /\ i + 1 \in 1 .. n /\ i \in 1 .. (n + 1) - 1
      BY <2>2
    <3>3. QED
      BY <2>2, <3>1, <3>2 DEF Rising
  <2>5. Promoted(x, says) => Rising(x)'
    <3>1. SUFFICES ASSUME says[x].role = "writer", news[x][n].role # "writer"
                   PROVE  Rising(x)'
      BY DEF Promoted, Said, n
    <3>2. n \in 1 .. n /\ n \in 1 .. (n + 1) - 1
      BY <2>2
    <3>3. QED
      BY <2>2, <3>1, <3>2 DEF Rising
  <2>6. QED
    BY <1>3, <2>3, <2>4, <2>5
<1>4. QED
  BY <1>2, <1>3

LEMMA HearSays ==
  ASSUME TypeOK, NEW c \in Client, Hear(c), NEW x \in Client
  PROVE  /\ Said(x)' = Said(x)
         /\ x # c => news'[x] = news[x] /\ inbox'[x] = inbox[x]
         /\ Rising(x) => Rising(x)' \/ (x = c /\ inbox'[x] = Append(inbox[x], "resize"))
<1>1. CASE x # c
  BY <1>1 DEF Hear, TypeOK, Said, Rising
<1>2. CASE x = c
  <2> DEFINE n == Len(news[c])
  <2>1. news[c] \in Seq(Belief) /\ news[c] # <<>> /\ Len(news[c]) # 1 /\ news'[c] = Tail(news[c])
    BY DEF Hear, Heard, TypeOK
  <2>2. /\ n \in Nat /\ n > 1 /\ Len(news'[c]) = n - 1
        /\ \A i \in 1 .. n - 1 : news'[c][i] = news[c][i + 1]
    BY <2>1, TailOf
  <2>3. Told(c) = news[c][1]
    BY DEF Told
  <2> HIDE DEF n
  <2>4. Said(c)' = Said(c)
    <3>1. n - 1 \in 1 .. n - 1 /\ (n - 1) + 1 = n
      BY <2>2
    <3>2. news'[c][n - 1] = news[c][n]
      BY <2>2, <3>1
    <3>3. QED
      BY <2>2, <3>2 DEF Said, n
  <2>5. Rising(c) => Rising(c)' \/ inbox'[c] = Append(inbox[c], "resize")
    <3>1. SUFFICES ASSUME NEW i \in 1 .. n - 1,
                          news[c][i].role # "writer", news[c][i + 1].role = "writer"
                   PROVE  Rising(c)' \/ inbox'[c] = Append(inbox[c], "resize")
      BY DEF Rising, n
    <3>2. CASE i = 1
      BY <2>3, <3>1, <3>2 DEF Hear, TypeOK
    <3>3. CASE i # 1
      <4>1. i - 1 \in 1 .. (n - 1) - 1 /\ i - 1 \in 1 .. n - 1 /\ (i - 1) + 1 = i /\ i \in 1 .. n - 1
        BY <2>2, <3>3
      <4>2. news'[c][i - 1] = news[c][i] /\ news'[c][(i - 1) + 1] = news[c][i + 1]
        BY <2>2, <4>1
      <4>3. QED
        BY <2>2, <3>1, <4>1, <4>2 DEF Rising
    <3>4. QED
      BY <3>2, <3>3
  <2>6. QED
    BY <1>2, <2>4, <2>5
<1>3. QED
  BY <1>1, <1>2

(* What each step that tells somebody something has said. *)
LEMMA JoinTells ==
  ASSUME TypeOK, NEW c \in Client, Join(c)
  PROVE  LET s == handler[c].s
             w == IF writer[s] = None THEN c ELSE writer[s]
             says == [x \in {c} |-> Role(x, IF w = c THEN "writer" ELSE "viewer", s)]
         IN /\ Tell(says) /\ \A y \in Client : y \in DOMAIN says => says[y] \in Belief
            /\ says[c].role = (IF w = c THEN "writer" ELSE "viewer") /\ says[c].s = s
<1> DEFINE s == handler[c].s
           w == IF writer[s] = None THEN c ELSE writer[s]
           r == IF w = c THEN "writer" ELSE "viewer"
           says == [x \in {c} |-> Role(x, r, s)]
<1>1. Tell(says)
  BY DEF Join
<1>2. s \in {NoSession} \cup Session /\ r \in {"none", "writer", "viewer"}
  BY DEF TypeOK
<1>3. Role(c, r, s) \in Belief /\ Said(c) \in Belief
  BY <1>2, NewsType
<1>4. Role(c, r, s).role = r /\ Role(c, r, s).s = s
  BY <1>3 DEF Role, Belief
<1>5. QED
  BY <1>1, <1>3, <1>4

LEMMA TakeOverTells ==
  ASSUME TypeOK, NEW c \in Client, TakeOver(c)
  PROVE  LET s == handler[c].s
             prev == writer[s]
             says == [x \in {c} \cup ({prev} \ {None}) |->
                        Role(x, IF x = c THEN "writer" ELSE "viewer", s)]
         IN /\ prev # c => Tell(says) /\ writer' = [writer EXCEPT ![s] = c]
                            /\ size' = [size EXCEPT ![s] = c]
            /\ prev = c => UNCHANGED <<writer, size, news, late>>
            /\ \A y \in Client : y \in DOMAIN says =>
                 says[y] \in Belief /\ says[y].s = s
                 /\ says[y].role = (IF y = c THEN "writer" ELSE "viewer")
<1> DEFINE s == handler[c].s
           prev == writer[s]
           says == [x \in {c} \cup ({prev} \ {None}) |->
                      Role(x, IF x = c THEN "writer" ELSE "viewer", s)]
<1>1. /\ prev # c => Tell(says) /\ writer' = [writer EXCEPT ![s] = c] /\ size' = [size EXCEPT ![s] = c]
      /\ prev = c => UNCHANGED <<writer, size, news, late>>
  BY DEF TakeOver
<1>2. s \in {NoSession} \cup Session
  BY DEF TypeOK
<1>3. ASSUME NEW y \in Client, y \in DOMAIN says
      PROVE  says[y] \in Belief /\ says[y].s = s
             /\ says[y].role = (IF y = c THEN "writer" ELSE "viewer")
  <2> DEFINE r == IF y = c THEN "writer" ELSE "viewer"
  <2>1. says[y] = Role(y, r, s) /\ r \in {"none", "writer", "viewer"}
    BY <1>3
  <2>2. Role(y, r, s) \in Belief /\ Said(y) \in Belief
    BY <1>2, <2>1, NewsType
  <2>3. Role(y, r, s).role = r /\ Role(y, r, s).s = s
    BY <2>2 DEF Role, Belief
  <2>4. QED
    BY <2>1, <2>2, <2>3
<1> HIDE DEF says
<1>4. QED
  BY <1>1, <1>3 DEF says

LEMMA LeaveTells ==
  ASSUME TypeOK, NEW c \in Client, Leave(c)
  PROVE  LET s == detacher[c].s
             rest == Without(clients[s], c)
             heir == IF rest = <<>> THEN None ELSE rest[Len(rest)]
             says == [x \in {heir} \ {None} |-> Role(x, "writer", s)]
         IN /\ writer[s] = c => Tell(says) /\ writer' = [writer EXCEPT ![s] = heir]
            /\ writer[s] # c => UNCHANGED <<writer, news>>
            /\ \A y \in Client : y \in DOMAIN says =>
                 says[y] \in Belief /\ says[y].s = s /\ says[y].role = "writer"
<1> DEFINE s == detacher[c].s
           rest == Without(clients[s], c)
           heir == IF rest = <<>> THEN None ELSE rest[Len(rest)]
           says == [x \in {heir} \ {None} |-> Role(x, "writer", s)]
<1>1. /\ writer[s] = c => Tell(says) /\ writer' = [writer EXCEPT ![s] = heir]
      /\ writer[s] # c => UNCHANGED <<writer, news>>
  BY DEF Leave
<1>2. s \in {NoSession} \cup Session
  BY DEF TypeOK
<1> HIDE DEF s, heir
<1>3. ASSUME NEW y \in Client, y \in DOMAIN says
      PROVE  says[y] \in Belief /\ says[y].s = s /\ says[y].role = "writer"
  <2>1. Role(y, "writer", s) \in Belief /\ Said(y) \in Belief
    BY <1>2, NewsType
  <2>2. Role(y, "writer", s).role = "writer" /\ Role(y, "writer", s).s = s
    BY <2>1 DEF Role, Belief
  <2>3. QED
    BY <1>3, <2>1, <2>2
<1> HIDE DEF says
<1>4. QED
  BY <1>1, <1>3 DEF says, heir, s

LEMMA ExitTells ==
  ASSUME TypeOK, NEW s \in Session, NEW c \in Client, TellExit(s, c)
  PROVE  LET says == [x \in {c} |-> Ended(x)]
         IN /\ Tell(says) /\ \A y \in Client : y \in DOMAIN says => says[y] \in Belief
            /\ says[c].role = Said(c).role /\ says[c].s = Said(c).s
<1>1. Ended(c) \in Belief /\ Said(c) \in Belief
  BY NewsType
<1>2. Ended(c).role = Said(c).role /\ Ended(c).s = Said(c).s
  BY <1>1 DEF Ended, Belief
<1>3. QED
  BY <1>1, <1>2 DEF TellExit

-----------------------------------------------------------------------------
(***************************************************************************)
(* The inductive invariant. A live shell is the one in the map, sessions   *)
(* that have not been spawned are unborn, and a client is only being       *)
(* detached once its channel has gone: without the last, Leave could       *)
(* demote a view that is still there and not tell it. What a view was told *)
(* last of all agrees with its session, whatever is still on its way.      *)
(***************************************************************************)
LiveIsCurrent ==
  \A s \in Session : /\ phase[s] = "running" => current = s
                     /\ s > spawned => phase[s] = "unborn"
DetachedIsClosed == \A c \in Client : detacher[c].op # "waiting" => ~open[c]
Written == \A s \in Session : clients[s] # <<>> => writer[s] # None
SaidAgreement ==
  \A c \in Client, s \in Session :
    open[c] /\ Said(c).role = "writer" /\ Said(c).s = s /\ phase[s] # "ended" => writer[s] = c
Inv == TypeOK /\ LiveIsCurrent /\ DetachedIsClosed /\ Written /\ SaidAgreement

roleVars == <<phase, clients, writer, open, news>>

(* A live shell stays the one in the map. *)
LEMMA LiveStep ==
  ASSUME TypeOK, LiveIsCurrent, [Next]_vars
  PROVE  LiveIsCurrent'
<1> USE DEF TypeOK, LiveIsCurrent
<1>1. ASSUME NEW s \in Session, ShellExits(s) \/ Unmap(s)
      PROVE  LiveIsCurrent'
  BY <1>1 DEF ShellExits, Unmap
<1>2. ASSUME NEW s \in Session, ClearClients(s)
      PROVE  LiveIsCurrent'
  BY <1>2 DEF ClearClients
<1>3. ASSUME NEW sizer, Spawn(sizer)
      PROVE  LiveIsCurrent'
  BY <1>3, MaxSpawnAssumption DEF Spawn, Session, NoSession
<1>4. CASE UNCHANGED <<phase, current, spawned>>
  BY <1>4
<1>5. ASSUME NEW c \in Client, HandlerStep(c)
      PROVE  UNCHANGED <<phase, current, spawned>> \/ Spawn(c)
  BY <1>5 DEF HandlerStep, HandleAttach, GetOrSpawn, SpawnFails, Join, HandleTakeover, TakeOver,
     HandleResize, Resize, HandleInput, CheckWriter, WriteKeys, LookUp, sessionVars
<1>6. ASSUME NEW c \in Client, ViewStep(c) \/ DetacherStep(c)
      PROVE  UNCHANGED <<phase, current, spawned>>
  BY <1>6 DEF ViewStep, Hear, PressTakeover, PressKey, Press, CloseChannel, DetacherStep,
     StartDetach, FindSession, Leave, sessionVars
<1>7. ASSUME NEW s \in Session, NEW c \in Client, TellExit(s, c)
      PROVE  UNCHANGED <<phase, current, spawned>>
  BY <1>7 DEF TellExit
<1>8. QED
  BY <1>1, <1>2, <1>3, <1>4, <1>5, <1>6, <1>7
     DEF Next, vars, PumpStep, TypeSpawns

(* Channels are only detached once they have closed. *)
LEMMA DetachedStep ==
  ASSUME TypeOK, DetachedIsClosed, [Next]_vars
  PROVE  DetachedIsClosed'
<1> USE DEF TypeOK, DetachedIsClosed
<1>1. ASSUME NEW c \in Client, StartDetach(c) \/ FindSession(c) \/ Leave(c)
      PROVE  DetachedIsClosed'
  BY ZenonT(60), <1>1 DEF StartDetach, FindSession, Leave, Busy
<1>2. ASSUME NEW c \in Client, CloseChannel(c)
      PROVE  DetachedIsClosed'
  BY <1>2 DEF CloseChannel
<1>3. CASE UNCHANGED <<detacher, open>>
  BY <1>3
<1>4. ASSUME NEW c \in Client, HandlerStep(c) \/ Hear(c) \/ PressTakeover(c) \/ PressKey(c)
      PROVE  UNCHANGED <<detacher, open>>
  BY <1>4 DEF HandlerStep, HandleAttach, GetOrSpawn, SpawnFails, Join, HandleTakeover, TakeOver,
     HandleResize, Resize, HandleInput, CheckWriter, WriteKeys, LookUp, Hear, PressTakeover, PressKey, Press
<1>5. ASSUME NEW s \in Session, ShellExits(s) \/ PumpStep(s)
      PROVE  UNCHANGED <<detacher, open>>
  BY <1>5 DEF ShellExits, PumpStep, Unmap, ClearClients, TellExit, channelVars
<1>6. QED
  BY <1>1, <1>2, <1>3, <1>4, <1>5
     DEF Next, vars, ViewStep, DetacherStep, TypeSpawns, channelVars

(* Steps that touch no role. *)
LEMMA QuietStep ==
  ASSUME Written, SaidAgreement, UNCHANGED roleVars
  PROVE  Written' /\ SaidAgreement'
BY DEF Written, SaidAgreement, Said, roleVars

(* A view that was told nothing new agrees as it did, if its shell has the   *)
(* writer that it had.                                                       *)
LEMMA SameSaid ==
  ASSUME SaidAgreement, TypeOK,
         \A x \in Client : open'[x] => open[x] /\ Said(x)'.role = Said(x).role /\ Said(x)'.s = Said(x).s,
         \A s \in Session : phase'[s] # "ended" => phase[s] # "ended" /\ writer'[s] = writer[s]
  PROVE  SaidAgreement'
BY DEF SaidAgreement

LEMMA RoleStep ==
  ASSUME Inv, [Next]_vars
  PROVE  Written' /\ SaidAgreement'
<1> USE NoneAssumption DEF Inv
<1>0. TypeOK /\ Written /\ SaidAgreement
  OBVIOUS
<1>1. ASSUME NEW c \in Client, CloseChannel(c)
      PROVE  Written' /\ SaidAgreement'
  <2>1. UNCHANGED <<phase, clients, writer>>
    BY <1>1 DEF CloseChannel, sessionVars
  <2>2. \A x \in Client : open'[x] => open[x] /\ news'[x] = news[x]
    BY <1>0, <1>1 DEF CloseChannel, TypeOK
  <2>3. SaidAgreement'
    BY <1>0, <2>1, <2>2, SameSaid DEF Said
  <2>4. QED
    BY <1>0, <2>1, <2>3 DEF Written
<1>2. ASSUME NEW sizer, Spawn(sizer), UNCHANGED <<open, news>>
      PROVE  Written' /\ SaidAgreement'
  <2>1. spawned' \in Session /\ UNCHANGED <<clients, writer, open, news>>
    BY <1>0, <1>2, MaxSpawnAssumption DEF Spawn, Session, TypeOK
  <2>2. phase[spawned'] = "unborn"
    BY <1>0, <1>2, <2>1, MaxSpawnAssumption DEF Spawn, LiveIsCurrent, Session, TypeOK
  <2>3. \A s \in Session : phase'[s] # "ended" => phase[s] # "ended"
    BY <1>0, <1>2, <2>1, <2>2 DEF Spawn, TypeOK
  <2>4. SaidAgreement'
    BY <1>0, <2>1, <2>3, SameSaid DEF Said
  <2>5. QED
    BY <1>0, <2>1, <2>4 DEF Written
<1>3. ASSUME NEW c \in Client, SpawnFails(c)
      PROVE  UNCHANGED roleVars
  BY <1>3 DEF SpawnFails, sessionVars, roleVars
<1>4. ASSUME NEW c \in Client, Join(c)
      PROVE  Written' /\ SaidAgreement'
  <2> DEFINE s == handler[c].s
             w == IF writer[s] = None THEN c ELSE writer[s]
             says == [x \in {c} |-> Role(x, IF w = c THEN "writer" ELSE "viewer", s)]
  <2>1. /\ UNCHANGED <<phase, open>>
        /\ clients' = [clients EXCEPT ![s] = Append(@, c)]
        /\ writer' = [writer EXCEPT ![s] = w]
    BY <1>4 DEF Join
  <2>2. /\ Tell(says) /\ \A y \in Client : y \in DOMAIN says => says[y] \in Belief
        /\ says[c].role = (IF w = c THEN "writer" ELSE "viewer") /\ says[c].s = s
        /\ DOMAIN says = {c}
    BY <1>0, <1>4, JoinTells
  <2> HIDE DEF says
  <2>3. \A x \in Client : Said(x)' = IF x = c /\ open[x] THEN says[x] ELSE Said(x)
    BY <1>0, <2>2, TellSays
  <2>4. Written'
    BY <1>0, <2>1 DEF Written, TypeOK
  <2>5. \A t \in Session : writer'[t] = IF t = s THEN w ELSE writer[t]
    BY <1>0, <2>1 DEF TypeOK
  <2> HIDE DEF s
  <2>6. SaidAgreement'
    <3> SUFFICES ASSUME NEW x \in Client, NEW t \in Session, open[x],
                        Said(x)'.role = "writer", Said(x)'.s = t, phase[t] # "ended"
                 PROVE  writer'[t] = x
      BY <2>1 DEF SaidAgreement
    <3>1. CASE x = c
      BY <2>2, <2>3, <2>5, <3>1
    <3>2. CASE x # c
      <4>1. writer[t] = x
        BY <1>0, <2>3, <3>2 DEF SaidAgreement
      <4>2. QED
        BY <2>5, <4>1
    <3>3. QED
      BY <3>1, <3>2
  <2>7. QED
    BY <2>4, <2>6
<1>5. ASSUME NEW c \in Client, TakeOver(c)
      PROVE  Written' /\ SaidAgreement'
  <2> DEFINE s == handler[c].s
             prev == writer[s]
             says == [x \in {c} \cup ({prev} \ {None}) |->
                        Role(x, IF x = c THEN "writer" ELSE "viewer", s)]
  <2>1. UNCHANGED <<phase, clients, open>>
    BY <1>5 DEF TakeOver
  <2>2. /\ prev # c => Tell(says) /\ writer' = [writer EXCEPT ![s] = c]
        /\ prev = c => UNCHANGED <<writer, news>>
        /\ \A y \in Client : y \in DOMAIN says =>
             says[y] \in Belief /\ says[y].s = s
             /\ says[y].role = (IF y = c THEN "writer" ELSE "viewer")
        /\ DOMAIN says = {c} \cup ({prev} \ {None})
    BY <1>0, <1>5, TakeOverTells
  <2>3. CASE prev = c
    BY <1>0, <2>1, <2>2, <2>3, QuietStep DEF roleVars
  <2>4. CASE prev # c
    <3> HIDE DEF says
    <3>1. \A x \in Client : Said(x)' = IF x \in DOMAIN says /\ open[x] THEN says[x] ELSE Said(x)
      BY <1>0, <2>2, <2>4, TellSays
    <3>2. \A t \in Session : writer'[t] = IF t = s THEN c ELSE writer[t]
      BY <1>0, <2>2, <2>4 DEF TypeOK
    <3> HIDE DEF s
    <3>3. Written'
      BY <1>0, <2>1, <3>2 DEF Written
    <3>4. SaidAgreement'
      <4> SUFFICES ASSUME NEW x \in Client, NEW t \in Session, open[x],
                          Said(x)'.role = "writer", Said(x)'.s = t, phase[t] # "ended"
                   PROVE  writer'[t] = x
        BY <2>1 DEF SaidAgreement
      <4>1. CASE x = c
        BY <2>2, <3>1, <3>2, <4>1
      <4>2. CASE x # c /\ x = prev
        BY <2>2, <3>1, <4>2
      <4>3. CASE x # c /\ x # prev
        <5>1. writer[t] = x
          BY <1>0, <2>2, <3>1, <4>3 DEF SaidAgreement
        <5>2. QED
          BY <3>2, <4>3, <5>1
      <4>4. QED
        BY <4>1, <4>2, <4>3
    <3>5. QED
      BY <3>3, <3>4
  <2>5. QED
    BY <2>3, <2>4
<1>6. ASSUME NEW c \in Client, Leave(c)
      PROVE  Written' /\ SaidAgreement'
  <2> DEFINE s == detacher[c].s
             rest == Without(clients[s], c)
             heir == IF rest = <<>> THEN None ELSE rest[Len(rest)]
             says == [x \in {heir} \ {None} |-> Role(x, "writer", s)]
  <2>1. /\ UNCHANGED <<phase, open>> /\ ~open[c]
        /\ clients' = [clients EXCEPT ![s] = rest]
    BY <1>6 DEF Leave, DetachedIsClosed
  <2>2. /\ writer[s] = c => Tell(says) /\ writer' = [writer EXCEPT ![s] = heir]
        /\ writer[s] # c => UNCHANGED <<writer, news>>
        /\ \A y \in Client : y \in DOMAIN says =>
             says[y] \in Belief /\ says[y].s = s /\ says[y].role = "writer"
        /\ DOMAIN says = {heir} \ {None}
    BY <1>0, <1>6, LeaveTells
  <2>3. s \in Session =>
          /\ rest \in Seq(Client)
          /\ clients[s] = <<>> => rest = <<>>
    BY <1>0, WithoutType DEF TypeOK
  <2>4. s \in Session /\ rest # <<>> => heir # None
    <3> HIDE DEF rest
    <3>1. QED
      BY <2>3
  <2>5. \A t \in Session : clients'[t] = IF t = s THEN rest ELSE clients[t]
    BY <1>0, <2>1 DEF TypeOK
  <2> HIDE DEF rest, heir, says
  <2>6. CASE writer[s] # c
    <3>1. SaidAgreement'
      BY <1>0, <2>1, <2>2, <2>6, SameSaid DEF Said
    <3>2. Written'
      <4> SUFFICES ASSUME NEW t \in Session, clients'[t] # <<>> PROVE writer[t] # None
        BY <2>2, <2>6 DEF Written
      <4>1. clients[t] # <<>>
        BY <2>3, <2>5
      <4>2. QED
        BY <1>0, <4>1 DEF Written
    <3>3. QED
      BY <3>1, <3>2
  <2>7. CASE writer[s] = c
    <3>1. \A x \in Client : Said(x)' = IF x \in DOMAIN says /\ open[x] THEN says[x] ELSE Said(x)
      BY <1>0, <2>2, <2>7, TellSays
    <3>2. \A t \in Session : writer'[t] = IF t = s THEN heir ELSE writer[t]
      BY <1>0, <2>2, <2>7 DEF TypeOK
    <3> HIDE DEF s
    <3>3. Written'
      <4> SUFFICES ASSUME NEW t \in Session, clients'[t] # <<>> PROVE writer'[t] # None
        BY DEF Written
      <4>1. CASE t = s
        BY <2>4, <2>5, <3>2, <4>1
      <4>2. CASE t # s
        BY <1>0, <2>5, <3>2, <4>2 DEF Written
      <4>3. QED
        BY <4>1, <4>2
    <3>4. SaidAgreement'
      <4> SUFFICES ASSUME NEW x \in Client, NEW t \in Session, open[x],
                          Said(x)'.role = "writer", Said(x)'.s = t, phase[t] # "ended"
                   PROVE  writer'[t] = x
        BY <2>1 DEF SaidAgreement
      <4>1. CASE x \in DOMAIN says
        BY <2>2, <3>1, <3>2, <4>1
      <4>2. CASE x \notin DOMAIN says
        <5>1. writer[t] = x
          BY <1>0, <3>1, <4>2 DEF SaidAgreement
        <5>2. t # s
          BY <2>1, <2>7, <5>1
        <5>3. QED
          BY <3>2, <5>1, <5>2
      <4>3. QED
        BY <4>1, <4>2
    <3>5. QED
      BY <3>3, <3>4
  <2>8. QED
    BY <2>6, <2>7
<1>7. ASSUME NEW s \in Session, ShellExits(s) \/ Unmap(s) \/ ClearClients(s)
      PROVE  Written' /\ SaidAgreement'
  <2>1. UNCHANGED <<open, news>>
    BY <1>7 DEF ShellExits, Unmap, ClearClients, channelVars
  <2>2. \A t \in Session : /\ phase'[t] # "ended" => phase[t] # "ended" /\ writer'[t] = writer[t]
                           /\ clients'[t] # <<>> => clients'[t] = clients[t] /\ writer'[t] = writer[t]
    BY <1>0, <1>7 DEF ShellExits, Unmap, ClearClients, TypeOK
  <2>3. SaidAgreement'
    BY <1>0, <2>1, <2>2, SameSaid DEF Said
  <2>4. QED
    BY <1>0, <2>2, <2>3 DEF Written
<1>10. ASSUME NEW s \in Session, NEW c \in Client, TellExit(s, c)
      PROVE  Written' /\ SaidAgreement'
  <2> DEFINE says == [x \in {c} |-> Ended(x)]
  <2>1. UNCHANGED <<phase, clients, writer, open>>
    BY <1>10 DEF TellExit
  <2>2. /\ Tell(says) /\ \A y \in Client : y \in DOMAIN says => says[y] \in Belief
        /\ says[c].role = Said(c).role /\ says[c].s = Said(c).s /\ DOMAIN says = {c}
    BY <1>0, <1>10, ExitTells
  <2> HIDE DEF says
  <2>3. \A x \in Client : Said(x)' = IF x = c /\ open[x] THEN says[x] ELSE Said(x)
    BY <1>0, <2>2, TellSays
  <2>4. \A x \in Client : Said(x)'.role = Said(x).role /\ Said(x)'.s = Said(x).s
    BY <2>2, <2>3
  <2>5. SaidAgreement'
    BY <1>0, <2>1, <2>4, SameSaid
  <2>6. QED
    BY <1>0, <2>1, <2>5 DEF Written
<1>11. CASE UNCHANGED roleVars
  BY <1>0, <1>11, QuietStep
<1>12. ASSUME NEW c \in Client, PressTakeover(c) \/ PressKey(c) \/ StartDetach(c) \/ FindSession(c)
       PROVE  UNCHANGED roleVars
  BY <1>12 DEF PressTakeover, PressKey, Press, StartDetach, FindSession, sessionVars, roleVars
<1>13. ASSUME NEW c \in Client,
              HandleAttach(c) \/ HandleTakeover(c) \/ HandleResize(c) \/ HandleInput(c)
                \/ Resize(c) \/ CheckWriter(c) \/ WriteKeys(c)
       PROVE  UNCHANGED roleVars
  BY <1>13 DEF HandleAttach, HandleTakeover, HandleResize, HandleInput, LookUp, Resize,
     CheckWriter, WriteKeys, sessionVars, roleVars
<1>14. ASSUME NEW c \in Client, GetOrSpawn(c)
       PROVE  Written' /\ SaidAgreement'
  <2>1. UNCHANGED <<open, news>>
    BY <1>14 DEF GetOrSpawn
  <2>2. UNCHANGED sessionVars \/ Spawn(c)
    BY <1>14 DEF GetOrSpawn
  <2>3. QED
    BY <1>2, <1>11, <2>1, <2>2 DEF sessionVars, roleVars
<1>15. CASE TypeSpawns
  BY <1>2, <1>15 DEF TypeSpawns, channelVars
<1>16. CASE UNCHANGED vars
  BY <1>11, <1>16 DEF vars, roleVars
<1>17. ASSUME NEW c \in Client, Hear(c)
       PROVE  Written' /\ SaidAgreement'
  <2>1. UNCHANGED <<phase, clients, writer, open>>
    BY <1>17 DEF Hear, sessionVars
  <2>2. \A x \in Client : Said(x)' = Said(x)
    BY <1>0, <1>17, HearSays
  <2>3. SaidAgreement'
    BY <1>0, <2>1, <2>2, SameSaid
  <2>4. QED
    BY <1>0, <2>1, <2>3 DEF Written
<1> HIDE DEF Inv
<1>18. QED
  BY <1>1, <1>3, <1>4, <1>5, <1>6, <1>7, <1>10, <1>11, <1>12, <1>13, <1>14, <1>15, <1>16, <1>17
     DEF Next, ViewStep, HandlerStep, DetacherStep, PumpStep

THEOREM TermInvariant == Spec => []Inv
<1>1. Init => Inv
  BY MaxSpawnAssumption, MaxPressAssumption
     DEF Init, Inv, TypeOK, LiveIsCurrent, DetachedIsClosed, Written, SaidAgreement, Said,
         Session, NoSession, Idle, Busy, NoBelief, Belief, Message, HandlerOp, DetacherOp
<1>2. Inv /\ [Next]_vars => Inv'
  BY TypeStep, LiveStep, DetachedStep, RoleStep DEF Inv
<1>3. QED
  BY <1>1, <1>2, PTL DEF Spec

(* A thread never has two live shells. *)
THEOREM TermOneShell == Spec => []OneShell
<1>1. Inv => OneShell
  BY DEF Inv, LiveIsCurrent, OneShell
<1>2. QED
  BY <1>1, TermInvariant, PTL

-----------------------------------------------------------------------------
(***************************************************************************)
(* Who watches a live shell, who writes it, and the size it has.           *)
(*                                                                         *)
(* A client that becomes the writer either has the shell sized to itself   *)
(* in the same critical section, or is told that it writes and answers     *)
(* with a resize: until that is handled it is on the way to the view, in   *)
(* the channel's queue or in its handler's hands. A client that watches a  *)
(* live shell and writes it was told so last, and one that writes it       *)
(* watches it unless it is late.                                           *)
(*                                                                         *)
(* What carries that through the departures and takeovers: a channel       *)
(* attaches once, so one that is about to has been told nothing and no     *)
(* session knows it; it is in one session's list at most, and once; what   *)
(* a watcher looked up, was told last or writes is the shell it watches    *)
(* (otherwise an heir that still believed it wrote some other shell would  *)
(* send no size); and its goroutine has yet to take it off the list, which *)
(* TellExit could only undo for a watcher of a shell that has ended.       *)
(***************************************************************************)
In(q, m) == \E i \in 1 .. Len(q) : q[i] = m
Distinct(q) == \A i, j \in 1 .. Len(q) : q[i] = q[j] => i = j
Says(c, m) == In(inbox[c], m)
NewClient(c) == Says(c, "attach") \/ handler[c].op \in {"attaching", "joining"}
Unknown(c) ==
  \A s \in Session : ~In(clients[s], c) /\ writer[s] # c /\ c \notin toTell[s]
Watches(c, s) == phase[s] = "running" /\ In(clients[s], c)

AttachesOnce ==
  \A c \in Client :
    /\ Says(c, "attach") => inbox[c] = <<"attach">> /\ handler[c] = Idle
    /\ NewClient(c) => news[c] = <<NoBelief>> /\ Unknown(c)
OneSession ==
  \A c \in Client, s, t \in Session : In(clients[s], c) /\ In(clients[t], c) => s = t
NoTwice == \A s \in Session : Distinct(clients[s])
Numbered ==
  /\ current <= spawned
  /\ \A c \in Client :
       /\ handler[c].op \in {"joining", "taking"} => handler[c].s \in 1 .. spawned
       /\ detacher[c].op = "leaving" => detacher[c].s \in 1 .. spawned
  /\ \A s \in Session : s > spawned => clients[s] = <<>> /\ writer[s] = None
InItsSession ==
  \A c \in Client, s \in Session : Watches(c, s) =>
    /\ handler[c].op = "taking" => handler[c].s = s
    /\ Said(c).role = "writer" => Said(c).s = s
    /\ \A t \in Session : writer[t] = c => t = s
    /\ \A t \in Session : c \notin toTell[t]
Knows ==
  \A c \in Client, s \in Session :
    Watches(c, s) /\ writer[s] = c /\ open[c] => Said(c).role = "writer"
WriterWatches ==
  \A c \in Client, s \in Session :
    phase[s] = "running" /\ writer[s] = c => In(clients[s], c) \/ c \in late[s]
Attended ==
  \A c \in Client, s \in Session : Watches(c, s) => WillLeave(c, s) \/ c \in late[s]
SizeComes ==
  \A c \in Client, s \in Session :
    phase[s] = "running" /\ writer[s] = c /\ open[c] =>
      size[s] = c \/ Rising(c) \/ Says(c, "resize") \/ handler[c] = Busy("resizing", s)
SInv ==
  /\ Inv /\ AttachesOnce /\ OneSession /\ NoTwice /\ Numbered
  /\ InItsSession /\ Knows /\ WriterWatches /\ Attended /\ SizeComes

(* What is in a list that grows, shrinks from the front or loses an entry. *)
LEMMA InAppend ==
  ASSUME NEW S, NEW q \in Seq(S), NEW m \in S, NEW x
  PROVE  In(Append(q, m), x) <=> In(q, x) \/ x = m
<1>1. /\ Len(Append(q, m)) = Len(q) + 1 /\ Append(q, m)[Len(q) + 1] = m
      /\ \A i \in 1 .. Len(q) : Append(q, m)[i] = q[i]
      /\ Len(q) \in Nat
  OBVIOUS
<1>2. \A i : i \in 1 .. Len(q) + 1 <=> i \in 1 .. Len(q) \/ i = Len(q) + 1
  BY <1>1
<1>3. QED
  BY <1>1, <1>2 DEF In

LEMMA InTail ==
  ASSUME NEW S, NEW q \in Seq(S), q # <<>>, NEW x
  PROVE  In(q, x) <=> In(Tail(q), x) \/ x = Head(q)
<1>1. /\ Len(q) \in Nat /\ Len(q) >= 1 /\ Head(q) = q[1]
      /\ Len(Tail(q)) = Len(q) - 1 /\ \A i \in 1 .. Len(q) - 1 : Tail(q)[i] = q[i + 1]
  OBVIOUS
<1>2. ASSUME In(q, x) PROVE In(Tail(q), x) \/ x = Head(q)
  <2>1. PICK i \in 1 .. Len(q) : q[i] = x
    BY <1>2 DEF In
  <2>2. CASE i = 1
    BY <1>1, <2>1, <2>2
  <2>3. CASE i # 1
    <3>1. i - 1 \in 1 .. Len(q) - 1 /\ Tail(q)[i - 1] = x
      BY <1>1, <2>1, <2>3
    <3>2. QED
      BY <1>1, <3>1 DEF In
  <2>4. QED
    BY <2>2, <2>3
<1>3. ASSUME In(Tail(q), x) PROVE In(q, x)
  <2>1. PICK i \in 1 .. Len(q) - 1 : q[i + 1] = x
    BY <1>1, <1>3 DEF In
  <2>2. i + 1 \in 1 .. Len(q)
    BY <1>1, <2>1
  <2>3. QED
    BY <2>1, <2>2 DEF In
<1>4. In(q, Head(q))
  BY <1>1 DEF In
<1>5. QED
  BY <1>2, <1>3, <1>4

LEMMA InOne == ASSUME NEW m, NEW x PROVE (In(<<m>>, x) <=> x = m) /\ ~In(<<>>, x)
  BY DEF In

(* What Leave leaves of a list. *)
LEMMA WithoutAt ==
  ASSUME NEW q \in Seq(Client), NEW c \in Client, In(q, c)
  PROVE  \E k \in 1 .. Len(q) :
           /\ q[k] = c
           /\ Len(Without(q, c)) = Len(q) - 1
           /\ \A i \in 1 .. Len(q) - 1 : Without(q, c)[i] = IF i < k THEN q[i] ELSE q[i + 1]
<1> DEFINE k == CHOOSE i \in 1 .. Len(q) : q[i] = c
           a == SubSeq(q, 1, k - 1)
           b == SubSeq(q, k + 1, Len(q))
<1>1. k \in 1 .. Len(q) /\ q[k] = c /\ Without(q, c) = a \o b
  BY DEF In, Without
<1> HIDE DEF k
<1>2. /\ a \in Seq(Client) /\ b \in Seq(Client)
      /\ Len(a) = k - 1 /\ Len(b) = Len(q) - k
      /\ \A i \in 1 .. Len(a) : a[i] = q[i]
      /\ \A i \in 1 .. Len(b) : b[i] = q[k + i]
  BY <1>1
<1> HIDE DEF a, b
<1>3. /\ Len(a \o b) = Len(a) + Len(b)
      /\ \A i \in 1 .. Len(a) + Len(b) : (a \o b)[i] = IF i <= Len(a) THEN a[i] ELSE b[i - Len(a)]
  <2>1. a \in Seq(Client) /\ b \in Seq(Client)
    BY <1>2
  <2>2. QED
    BY ONLY <2>1
<1>4. Len(a) + Len(b) = Len(q) - 1
  BY <1>1, <1>2
<1>5. ASSUME NEW i \in 1 .. Len(q) - 1
      PROVE  (a \o b)[i] = IF i < k THEN q[i] ELSE q[i + 1]
  <2>1. (a \o b)[i] = IF i <= Len(a) THEN a[i] ELSE b[i - Len(a)]
    BY <1>3, <1>4
  <2>2. CASE i < k
    BY <1>1, <1>2, <2>1, <2>2
  <2>3. CASE ~(i < k)
    <3>1. i - Len(a) \in 1 .. Len(b) /\ k + (i - Len(a)) = i + 1 /\ ~(i <= Len(a))
      BY <1>1, <1>2, <2>3
    <3>2. QED
      BY <1>2, <2>1, <2>3, <3>1
  <2>4. QED
    BY <2>2, <2>3
<1>6. QED
  BY <1>1, <1>3, <1>4, <1>5

LEMMA InWithout ==
  ASSUME NEW q \in Seq(Client), NEW c \in Client, NEW x
  PROVE  /\ In(Without(q, c), x) => In(q, x)
         /\ In(q, x) /\ x # c => In(Without(q, c), x)
<1>1. CASE ~In(q, c)
  BY <1>1 DEF Without, In
<1>2. CASE In(q, c)
  <2> DEFINE r == Without(q, c)
  <2>1. PICK k \in 1 .. Len(q) :
          /\ q[k] = c /\ Len(r) = Len(q) - 1
          /\ \A i \in 1 .. Len(q) - 1 : r[i] = IF i < k THEN q[i] ELSE q[i + 1]
    BY <1>2, WithoutAt
  <2> HIDE DEF r
  <2>2. ASSUME In(r, x) PROVE In(q, x)
    <3>1. PICK i \in 1 .. Len(q) - 1 : r[i] = x
      BY <2>1, <2>2 DEF In
    <3>2. i \in 1 .. Len(q) /\ i + 1 \in 1 .. Len(q) /\ (q[i] = x \/ q[i + 1] = x)
      BY <2>1, <3>1
    <3>3. QED
      BY <3>2 DEF In
  <2>3. ASSUME In(q, x), x # c PROVE In(r, x)
    <3>1. PICK i \in 1 .. Len(q) : q[i] = x
      BY <2>3 DEF In
    <3>2. CASE i < k
      <4>1. i \in 1 .. Len(q) - 1 /\ r[i] = x
        BY <2>1, <3>1, <3>2
      <4>2. QED
        BY <2>1, <4>1 DEF In
    <3>3. CASE ~(i < k)
      <4>1. i # k
        BY <2>1, <2>3, <3>1
      <4>2. i - 1 \in 1 .. Len(q) - 1 /\ (i - 1) + 1 = i /\ ~(i - 1 < k)
        BY <3>3, <4>1
      <4>3. r[i - 1] = x
        BY <2>1, <3>1, <4>2
      <4>4. QED
        BY <2>1, <4>2, <4>3 DEF In
    <3>4. QED
      BY <3>2, <3>3
  <2>4. QED
    BY <2>2, <2>3 DEF r
<1>3. QED
  BY <1>1, <1>2

LEMMA DistinctWithout ==
  ASSUME NEW q \in Seq(Client), NEW c \in Client, Distinct(q)
  PROVE  Distinct(Without(q, c)) /\ ~In(Without(q, c), c)
<1>1. CASE ~In(q, c)
  BY <1>1 DEF Without, In
<1>2. CASE In(q, c)
  <2> DEFINE r == Without(q, c)
  <2>1. PICK k \in 1 .. Len(q) :
          /\ q[k] = c /\ Len(r) = Len(q) - 1
          /\ \A i \in 1 .. Len(q) - 1 : r[i] = IF i < k THEN q[i] ELSE q[i + 1]
    BY <1>2, WithoutAt
  <2> HIDE DEF r
  <2> DEFINE at(i) == IF i < k THEN i ELSE i + 1
  <2>2. \A i \in 1 .. Len(r) : r[i] = q[at(i)] /\ at(i) \in 1 .. Len(q) /\ at(i) # k
    BY <2>1
  <2>3. \A i, j \in 1 .. Len(r) : at(i) = at(j) => i = j
    BY <2>1
  <2> HIDE DEF at
  <2>4. Distinct(r)
    BY <2>2, <2>3 DEF Distinct
  <2>5. ~In(r, c)
    BY <2>1, <2>2 DEF In, Distinct
  <2>6. QED
    BY <2>4, <2>5 DEF r
<1>3. QED
  BY <1>1, <1>2

LEMMA DistinctAppend ==
  ASSUME NEW q \in Seq(Client), NEW c \in Client, Distinct(q), ~In(q, c)
  PROVE  Distinct(Append(q, c))
<1>1. /\ Len(q) \in Nat /\ Len(Append(q, c)) = Len(q) + 1 /\ Append(q, c)[Len(q) + 1] = c
      /\ \A i \in 1 .. Len(q) : Append(q, c)[i] = q[i]
  OBVIOUS
<1>2. \A i \in 1 .. Len(q) + 1 : i \in 1 .. Len(q) \/ i = Len(q) + 1
  BY <1>1
<1>3. QED
  BY <1>1, <1>2 DEF Distinct, In

LEMMA LastIn ==
  ASSUME NEW S, NEW q \in Seq(S), q # <<>>
  PROVE  In(q, q[Len(q)]) /\ q[Len(q)] \in S
  BY DEF In

(* What is left when the handler has taken the first message. *)
LEMMA DropSays ==
  ASSUME TypeOK, NEW c \in Client, NEW m, Take(c, m), Drop(c)
  PROVE  /\ \A x \in Client : x # c => inbox'[x] = inbox[x]
         /\ \A k : In(inbox[c], k) <=> In(inbox'[c], k) \/ k = m
         /\ inbox[c] = <<m>> => inbox'[c] = <<>>
<1>1. inbox[c] \in Seq(Message) /\ inbox[c] # <<>> /\ Head(inbox[c]) = m
  BY DEF TypeOK, Take
<1>2. inbox' = [inbox EXCEPT ![c] = Tail(inbox[c])] /\ DOMAIN inbox = Client
  BY DEF Drop, TypeOK
<1>3. inbox'[c] = Tail(inbox[c])
  BY <1>2
<1>4. \A k : In(inbox[c], k) <=> In(Tail(inbox[c]), k) \/ k = Head(inbox[c])
  BY <1>1, InTail
<1>5. inbox[c] = <<m>> => Tail(inbox[c]) = <<>>
  OBVIOUS
<1>6. QED
  BY <1>1, <1>2, <1>3, <1>4, <1>5

(* The heir that Leave finds is one of those who stay, and they were there. *)
LEMMA HeirStays ==
  ASSUME NEW q \in Seq(Client), NEW c \in Client, Without(q, c) # <<>>
  PROVE  /\ Without(q, c)[Len(Without(q, c))] \in Client
         /\ In(q, Without(q, c)[Len(Without(q, c))])
         /\ In(Without(q, c), Without(q, c)[Len(Without(q, c))])
<1>1. Without(q, c) \in Seq(Client)
  BY WithoutType
<1>2. QED
  BY <1>1, LastIn, InWithout

LEMMA ClientSetIn == \A s \in Session : \A x : x \in ClientSet(s) <=> In(clients[s], x)
  BY DEF ClientSet, In

(***************************************************************************)
(* Nobody attaches twice.                                                  *)
(***************************************************************************)

(* A channel that is about to attach has been told nothing. *)
LEMMA NewIsUntold ==
  ASSUME SInv, NEW c \in Client, NewClient(c)
  PROVE  /\ news[c] = <<NoBelief>> /\ Heard(c) /\ Unknown(c)
         /\ Told(c).role = "none" /\ Said(c).role = "none"
<1>1. news[c] = <<NoBelief>> /\ Unknown(c)
  BY DEF SInv, AttachesOnce
<1>2. Len(<<NoBelief>>) = 1 /\ Head(<<NoBelief>>) = NoBelief /\ <<NoBelief>>[1] = NoBelief
  OBVIOUS
<1>3. QED
  BY <1>1, <1>2 DEF Heard, Told, Said, NoBelief

LEMMA OnceView ==
  ASSUME SInv, NEW c \in Client, ViewStep(c)
  PROVE  AttachesOnce'
<1> USE DEF sessionVars
<1>0. TypeOK
  BY DEF SInv, Inv
<1>1. /\ UNCHANGED <<clients, writer, toTell, handler>>
      /\ \A x \in Client : x # c => inbox'[x] = inbox[x] /\ news'[x] = news[x]
  BY <1>0 DEF ViewStep, Hear, PressTakeover, PressKey, Press, CloseChannel, TypeOK
<1>2. \A x \in Client : Unknown(x)' <=> Unknown(x)
  BY <1>1 DEF Unknown
<1>3. /\ Says(c, "attach")' => inbox'[c] = <<"attach">> /\ Says(c, "attach")
      /\ NewClient(c)' => NewClient(c) /\ news'[c] = <<NoBelief>>
  <2>1. CASE CloseChannel(c)
    <3>1. news'[c] = <<NoBelief>>
      BY <1>0, <2>1 DEF CloseChannel, TypeOK
    <3>2. \/ inbox'[c] = <<>>
          \/ inbox[c] # <<>> /\ inbox'[c] = <<Head(inbox[c])>>
          \/ inbox'[c] = inbox[c]
      BY <1>0, <2>1 DEF CloseChannel, TypeOK
    <3>3. inbox[c] # <<>> => In(inbox[c], Head(inbox[c]))
      BY <1>0, InTail DEF TypeOK
    <3>4. ~In(<<>>, "attach") /\ (In(<<Head(inbox[c])>>, "attach") => Head(inbox[c]) = "attach")
      BY InOne
    <3>5. Says(c, "attach") => inbox[c] = <<"attach">>
      BY DEF SInv, AttachesOnce
    <3>6. QED
      BY <1>1, <3>1, <3>2, <3>3, <3>4, <3>5 DEF Says, NewClient
  <2>2. CASE PressTakeover(c) \/ PressKey(c)
    <3>1. /\ inbox'[c] = <<"takeover">> \/ inbox'[c] = <<"input">>
          /\ Told(c).role # "none"
      BY <1>0, <2>2 DEF PressTakeover, PressKey, Press, TypeOK
    <3>2. ~In(<<"takeover">>, "attach") /\ ~In(<<"input">>, "attach")
      BY InOne
    <3>3. ~NewClient(c)
      BY <3>1, NewIsUntold
    <3>4. QED
      BY <1>1, <3>1, <3>2, <3>3 DEF Says, NewClient
  <2>3. CASE Hear(c)
    <3>1. ~NewClient(c)
      BY <2>3, NewIsUntold DEF Hear
    <3>2. inbox'[c] = inbox[c] \/ inbox'[c] = Append(inbox[c], "resize")
      BY <1>0, <2>3 DEF Hear, TypeOK
    <3>3. inbox[c] \in Seq(Message) /\ "resize" \in Message
      BY <1>0 DEF TypeOK, Message
    <3>4. \A m : In(Append(inbox[c], "resize"), m) <=> In(inbox[c], m) \/ m = "resize"
      BY <3>3, InAppend
    <3>5. Says(c, "attach")' => Says(c, "attach")
      BY <3>2, <3>4 DEF Says
    <3>6. QED
      BY <1>1, <3>1, <3>5 DEF NewClient
  <2>4. QED
    BY <2>1, <2>2, <2>3 DEF ViewStep
<1>4. ASSUME NEW x \in Client, x # c
      PROVE  /\ Says(x, "attach")' <=> Says(x, "attach")
             /\ NewClient(x)' <=> NewClient(x)
  BY <1>1, <1>4 DEF Says, NewClient
<1>5. QED
  BY <1>1, <1>2, <1>3, <1>4 DEF SInv, AttachesOnce

(* A shell that a handler or a detacher is about to enter has been spawned. *)
LEMMA HeldIsASession ==
  ASSUME SInv, NEW c \in Client
  PROVE  /\ handler[c].op \in {"joining", "taking"} =>
              handler[c].s \in Session /\ ~(handler[c].s > spawned)
         /\ detacher[c].op = "leaving" =>
              detacher[c].s \in Session /\ ~(detacher[c].s > spawned)
<1>1. /\ handler[c].op \in {"joining", "taking"} => handler[c].s \in 1 .. spawned
      /\ detacher[c].op = "leaving" => detacher[c].s \in 1 .. spawned
  BY DEF SInv, Numbered
<1>2. spawned \in 0 .. MaxSpawn
  BY DEF SInv, Inv, TypeOK
<1>3. QED
  BY <1>1, <1>2, MaxSpawnAssumption DEF Session

(* Handlers that hold no message of their own view take one or let one go. *)
LEMMA NotNew ==
  ASSUME SInv, NEW c \in Client, handler[c].op \notin {"idle", "attaching", "joining"}
  PROVE  ~NewClient(c) /\ ~Says(c, "attach")
  BY DEF SInv, AttachesOnce, NewClient, Idle

(* Clients that are told something are none that are about to attach. *)
LEMMA OnceTell ==
  ASSUME SInv, NEW says, Tell(says), UNCHANGED inbox,
         \A x \in Client :
           \/ handler[x].op # "idle" /\ handler'[x] = Idle
           \/ handler'[x] = handler[x] /\ (NewClient(x) => x \notin DOMAIN says /\ Unknown(x)')
  PROVE  AttachesOnce'
<1> SUFFICES ASSUME NEW x \in Client
             PROVE  /\ Says(x, "attach")' => inbox'[x] = <<"attach">> /\ handler'[x] = Idle
                    /\ NewClient(x)' => news'[x] = <<NoBelief>> /\ Unknown(x)'
  BY DEF AttachesOnce
<1>1. /\ Says(x, "attach") => inbox[x] = <<"attach">> /\ handler[x] = Idle
      /\ NewClient(x) => news[x] = <<NoBelief>> /\ Unknown(x)
  BY DEF SInv, AttachesOnce
<1>2. /\ x \notin DOMAIN says => news'[x] = news[x]
      /\ Says(x, "attach")' <=> Says(x, "attach")
  BY DEF Tell, Says
<1>3. CASE handler[x].op # "idle" /\ handler'[x] = Idle
  BY <1>1, <1>2, <1>3 DEF NewClient, Idle
<1>4. CASE handler'[x] = handler[x] /\ (NewClient(x) => x \notin DOMAIN says /\ Unknown(x)')
  BY <1>1, <1>2, <1>4 DEF NewClient
<1>5. QED
  BY <1>3, <1>4

(* Steps of one handler that no view hears of. *)
LEMMA OnceQuietly ==
  ASSUME SInv, NEW c \in Client,
         UNCHANGED <<clients, writer, toTell, news>>,
         \A x \in Client : x # c => inbox'[x] = inbox[x] /\ handler'[x] = handler[x],
         ~Says(c, "attach")', NewClient(c)' => NewClient(c)
  PROVE  AttachesOnce'
<1>1. \A x \in Client : Unknown(x)' <=> Unknown(x)
  BY DEF Unknown
<1>2. \A x \in Client : x # c => (NewClient(x)' <=> NewClient(x)) /\ (Says(x, "attach")' <=> Says(x, "attach"))
  BY DEF NewClient, Says
<1>3. QED
  BY <1>1, <1>2 DEF SInv, AttachesOnce

LEMMA OnceHandler ==
  ASSUME SInv, NEW c \in Client, HandlerStep(c)
  PROVE  AttachesOnce'
<1> USE DEF sessionVars
<1>0. TypeOK
  BY DEF SInv, Inv
<1>1. CASE HandleAttach(c)
  <2>1. /\ \A x \in Client : x # c => inbox'[x] = inbox[x]
        /\ In(inbox[c], "attach")
        /\ inbox[c] = <<"attach">> => inbox'[c] = <<>>
    BY <1>0, <1>1, DropSays DEF HandleAttach
  <2>2. NewClient(c) /\ inbox'[c] = <<>>
    BY <2>1 DEF SInv, AttachesOnce, NewClient, Says
  <2>3. ~Says(c, "attach")'
    BY <2>2, InOne DEF Says
  <2>4. /\ UNCHANGED <<clients, writer, toTell, news>>
        /\ \A x \in Client : x # c => handler'[x] = handler[x]
    BY <1>0, <1>1 DEF HandleAttach, TypeOK
  <2>5. QED
    BY <2>1, <2>2, <2>3, <2>4, OnceQuietly
<1>2. CASE GetOrSpawn(c)
  <2>1. UNCHANGED <<clients, writer, toTell, news, inbox>>
    BY <1>2 DEF GetOrSpawn, Spawn
  <2>2. NewClient(c) /\ \A x \in Client : x # c => handler'[x] = handler[x]
    BY <1>0, <1>2 DEF GetOrSpawn, NewClient, TypeOK
  <2>3. ~Says(c, "attach")
    BY <1>2 DEF SInv, AttachesOnce, GetOrSpawn, Idle
  <2>4. ~Says(c, "attach")'
    BY <2>1, <2>3 DEF Says
  <2>5. QED
    BY <2>1, <2>2, <2>4, OnceQuietly
<1>3. CASE SpawnFails(c)
  <2>1. UNCHANGED <<clients, writer, toTell, news, inbox>> /\ handler[c].op = "attaching"
    BY <1>3 DEF SpawnFails
  <2>2. handler'[c] = Idle /\ \A x \in Client : x # c => handler'[x] = handler[x]
    BY <1>0, <1>3 DEF SpawnFails, TypeOK
  <2>3. ~Says(c, "attach") /\ NewClient(c)
    BY <2>1 DEF SInv, AttachesOnce, NewClient, Idle
  <2>4. QED
    BY <2>1, <2>2, <2>3, OnceQuietly DEF Says
<1>4. CASE Join(c)
  <2> DEFINE s == handler[c].s
             w == IF writer[s] = None THEN c ELSE writer[s]
             says == [x \in {c} |-> Role(x, IF w = c THEN "writer" ELSE "viewer", s)]
  <2>1. Tell(says) /\ DOMAIN says = {c} /\ UNCHANGED inbox
    BY <1>4 DEF Join
  <2>2. /\ handler[c].op # "idle" /\ handler'[c] = Idle
        /\ \A x \in Client : x # c => handler'[x] = handler[x]
        /\ clients' = [clients EXCEPT ![s] = Append(clients[s], c)]
        /\ writer' = [writer EXCEPT ![s] = w] /\ toTell' = toTell
    BY <1>0, <1>4 DEF Join, TypeOK
  <2>3. ASSUME NEW x \in Client, x # c, NewClient(x) PROVE Unknown(x)'
    <3> SUFFICES ASSUME NEW t \in Session
                 PROVE  ~In(clients'[t], x) /\ writer'[t] # x /\ x \notin toTell'[t]
      BY DEF Unknown
    <3>1. ~In(clients[t], x) /\ writer[t] # x /\ x \notin toTell[t] /\ clients[t] \in Seq(Client)
      BY <1>0, <2>3 DEF Unknown, SInv, AttachesOnce, TypeOK
    <3>2. \/ clients'[t] = clients[t] /\ writer'[t] = writer[t]
          \/ clients'[t] = Append(clients[t], c) /\ writer'[t] \in {c, writer[t]}
      BY <1>0, <2>2 DEF TypeOK
    <3>3. ~In(Append(clients[t], c), x)
      BY <2>3, <3>1, InAppend
    <3>4. QED
      BY <2>2, <2>3, <3>1, <3>2, <3>3
  <2> HIDE DEF says
  <2>4. QED
    BY <2>1, <2>2, <2>3, OnceTell
<1>5. CASE HandleTakeover(c) \/ HandleResize(c) \/ HandleInput(c)
  <2>1. PICK m \in {"takeover", "resize", "input"}, op \in {"taking", "resizing", "checking"} :
          LookUp(c, m, op)
    BY <1>5 DEF HandleTakeover, HandleResize, HandleInput
  <2>2. ~Says(c, "attach")
    <3>1. handler[c] = Idle /\ Head(inbox[c]) = m
      BY <2>1 DEF LookUp, Take
    <3>2. inbox[c] # <<"attach">>
      BY <3>1
    <3>3. QED
      BY <3>2 DEF SInv, AttachesOnce
  <2>3. /\ \A x \in Client : x # c => inbox'[x] = inbox[x]
        /\ ~Says(c, "attach")'
    BY <1>0, <2>1, <2>2, DropSays DEF LookUp, Says
  <2>4. /\ handler[c] = Idle /\ handler'[c].op \in {"idle", "taking", "resizing", "checking"}
        /\ UNCHANGED <<clients, writer, toTell, news>>
        /\ \A x \in Client : x # c => handler'[x] = handler[x]
    BY <1>0, <2>1 DEF LookUp, Take, TypeOK, Idle, Busy
  <2>5. QED
    BY <2>3, <2>4, OnceQuietly DEF NewClient
<1>6. CASE Resize(c) \/ CheckWriter(c) \/ WriteKeys(c)
  <2>1. /\ handler[c].op \in {"resizing", "checking", "typing"}
        /\ handler'[c].op \in {"idle", "typing"}
        /\ UNCHANGED <<clients, writer, toTell, news, inbox>>
        /\ \A x \in Client : x # c => handler'[x] = handler[x]
    BY <1>0, <1>6 DEF Resize, CheckWriter, WriteKeys, TypeOK, Idle, Busy
  <2>2. ~Says(c, "attach")
    BY <2>1, NotNew
  <2>3. QED
    BY <2>1, <2>2, OnceQuietly DEF NewClient, Says
<1>7. CASE TakeOver(c)
  <2> DEFINE s == handler[c].s
             prev == writer[s]
             says == [x \in {c} \cup ({prev} \ {None}) |->
                         Role(x, IF x = c THEN "writer" ELSE "viewer", s)]
  <2>1. /\ handler[c].op = "taking" /\ handler'[c] = Idle
        /\ \A x \in Client : x # c => handler'[x] = handler[x]
        /\ UNCHANGED <<clients, toTell>>
    BY <1>0, <1>7 DEF TakeOver, TypeOK
  <2>2. ~NewClient(c) /\ ~Says(c, "attach")
    BY <2>1, NotNew
  <2>3. CASE prev = c
    <3>1. UNCHANGED <<writer, news, inbox>>
      BY <1>7, <2>3 DEF TakeOver
    <3>2. QED
      BY <2>1, <2>2, <3>1, OnceQuietly DEF NewClient, Says, Idle
  <2>4. CASE prev # c
    <3>1. Tell(says) /\ writer' = [writer EXCEPT ![s] = c] /\ UNCHANGED inbox
      BY <1>7, <2>4 DEF TakeOver
    <3>2. s \in Session
      BY <2>1, HeldIsASession
    <3>3. ASSUME NEW x \in Client, x # c, NewClient(x)
          PROVE  x \notin DOMAIN says /\ Unknown(x)'
      <4>1. Unknown(x)
        BY <3>3 DEF SInv, AttachesOnce
      <4>2. x # prev
        BY <3>2, <4>1 DEF Unknown
      <4>3. \A t \in Session : writer'[t] # x
        BY <1>0, <3>1, <3>3, <4>1 DEF Unknown, TypeOK
      <4>4. QED
        BY <2>1, <3>3, <4>1, <4>2, <4>3 DEF Unknown
    <3> HIDE DEF says
    <3>4. QED
      BY <2>1, <3>1, <3>3, OnceTell
  <2>5. QED
    BY <2>3, <2>4
<1>8. QED
  BY <1>1, <1>2, <1>3, <1>4, <1>5, <1>6, <1>7 DEF HandlerStep

LEMMA OnceLeave ==
  ASSUME SInv, NEW c \in Client, DetacherStep(c)
  PROVE  AttachesOnce'
<1> USE DEF sessionVars
<1>0. TypeOK
  BY DEF SInv, Inv
<1>1. CASE StartDetach(c) \/ FindSession(c)
  <2>1. UNCHANGED <<clients, writer, toTell, news, inbox, handler>>
    BY <1>1 DEF StartDetach, FindSession
  <2>2. QED
    BY <2>1 DEF SInv, AttachesOnce, NewClient, Says, Unknown
<1>2. CASE Leave(c)
  <2> DEFINE s == detacher[c].s
             rest == Without(clients[s], c)
             heir == IF rest = <<>> THEN None ELSE rest[Len(rest)]
             says == [x \in {heir} \ {None} |-> Role(x, "writer", s)]
  <2>0. s \in Session
    BY <1>2, HeldIsASession DEF Leave
  <2>1. /\ handler' = handler /\ toTell' = toTell /\ inbox' = inbox
        /\ clients' = [clients EXCEPT ![s] = rest]
        /\ \/ /\ writer[s] = c
              /\ writer' = [writer EXCEPT ![s] = heir] /\ Tell(says)
           \/ UNCHANGED <<writer, news>>
    BY <1>2 DEF Leave
  <2>2. \A t \in Session, x \in Client : In(clients'[t], x) => In(clients[t], x)
    <3>1. \A t \in Session : clients[t] \in Seq(Client) /\ clients'[t] \in {clients[t], Without(clients[t], c)}
      BY <1>0, <2>1 DEF TypeOK
    <3>2. QED
      BY <3>1, InWithout
  <2>3. \A x \in Client : NewClient(x) => Unknown(x)
    BY DEF SInv, AttachesOnce
  <2>4. CASE UNCHANGED <<writer, news>>
    <3>1. \A x \in Client : Unknown(x) => Unknown(x)'
      BY <2>1, <2>2, <2>4 DEF Unknown
    <3>2. \A x \in Client : /\ Says(x, "attach")' <=> Says(x, "attach")
                            /\ NewClient(x)' <=> NewClient(x)
      BY <2>1, <2>4 DEF NewClient, Says
    <3>3. QED
      BY <2>1, <2>4, <3>1, <3>2 DEF SInv, AttachesOnce
  <2>5. CASE writer' = [writer EXCEPT ![s] = heir] /\ Tell(says)
    <3>1. ASSUME NEW x \in Client, NewClient(x)
          PROVE  x \notin DOMAIN says /\ Unknown(x)'
      <4>1. Unknown(x)
        BY <2>3, <3>1
      <4>2. x # heir
        <5>1. CASE rest = <<>>
          BY <5>1, NoneAssumption
        <5>2. CASE rest # <<>>
          <6>1. clients[s] \in Seq(Client)
            BY <1>0, <2>0 DEF TypeOK
          <6>2. In(clients[s], heir)
            BY <5>2, <6>1, HeirStays
          <6>3. QED
            BY <2>0, <4>1, <6>2 DEF Unknown
        <5>3. QED
          BY <5>1, <5>2
      <4> HIDE DEF heir
      <4>3. \A t \in Session : writer'[t] # x
        BY <1>0, <2>5, <4>1, <4>2 DEF Unknown, TypeOK
      <4>4. QED
        BY <2>1, <2>2, <4>1, <4>2, <4>3 DEF Unknown
    <3> HIDE DEF says
    <3>2. QED
      BY <2>1, <2>5, <3>1, OnceTell
  <2>6. QED
    BY <2>1, <2>4, <2>5
<1>3. QED
  BY <1>1, <1>2 DEF DetacherStep

LEMMA OncePump ==
  ASSUME SInv, NEW s \in Session, ShellExits(s) \/ PumpStep(s)
  PROVE  AttachesOnce'
<1> USE DEF channelVars
<1>0. TypeOK
  BY DEF SInv, Inv
<1>1. CASE ShellExits(s) \/ Unmap(s)
  <2>1. UNCHANGED <<clients, writer, toTell, news, inbox, handler>>
    BY <1>1 DEF ShellExits, Unmap
  <2>2. QED
    BY <2>1 DEF SInv, AttachesOnce, NewClient, Says, Unknown
<1>2. CASE ClearClients(s)
  <2>1. UNCHANGED <<news, inbox, handler>>
    BY <1>2 DEF ClearClients
  <2>2. ASSUME NEW x \in Client, Unknown(x) PROVE Unknown(x)'
    <3> SUFFICES ASSUME NEW t \in Session
                 PROVE  ~In(clients'[t], x) /\ writer'[t] # x /\ x \notin toTell'[t]
      BY DEF Unknown
    <3>1. ~In(clients[t], x) /\ writer[t] # x /\ x \notin toTell[t]
      BY <2>2 DEF Unknown
    <3>2. /\ clients'[t] \in {clients[t], <<>>} /\ writer'[t] \in {writer[t], None}
          /\ toTell'[t] \in {toTell[t], ClientSet(t)}
      BY <1>0, <1>2 DEF ClearClients, TypeOK
    <3>3. ~In(<<>>, x)
      BY InOne
    <3>4. QED
      BY <3>1, <3>2, <3>3, ClientSetIn, NoneAssumption
  <2>3. \A x \in Client : /\ Says(x, "attach")' <=> Says(x, "attach")
                          /\ NewClient(x)' <=> NewClient(x)
    BY <2>1 DEF NewClient, Says
  <2>4. QED
    BY <2>1, <2>2, <2>3 DEF SInv, AttachesOnce
<1>3. ASSUME NEW c \in Client, TellExit(s, c)
      PROVE  AttachesOnce'
  <2> DEFINE says == [x \in {c} |-> Ended(x)]
  <2>1. /\ Tell(says) /\ DOMAIN says = {c} /\ c \in toTell[s]
        /\ UNCHANGED <<clients, writer, handler, inbox>>
    BY <1>3 DEF TellExit
  <2>2. \A t \in Session : \A x : x \in toTell'[t] => x \in toTell[t]
    BY <1>0, <1>3 DEF TellExit, TypeOK
  <2>3. \A x \in Client : Unknown(x) => Unknown(x)'
    BY <2>1, <2>2 DEF Unknown
  <2>4. \A x \in Client : NewClient(x) => Unknown(x) /\ x # c
    BY <2>1 DEF SInv, AttachesOnce, Unknown
  <2> HIDE DEF says
  <2>5. QED
    BY <2>1, <2>3, <2>4, OnceTell
<1>4. QED
  BY <1>1, <1>2, <1>3 DEF PumpStep

LEMMA OnceStep == SInv /\ [Next]_vars => AttachesOnce'
<1> SUFFICES ASSUME SInv, [Next]_vars PROVE AttachesOnce'
  OBVIOUS
<1>1. CASE UNCHANGED <<clients, writer, toTell, news, inbox, handler>>
  BY <1>1 DEF SInv, AttachesOnce, NewClient, Says, Unknown
<1>2. QED
  BY <1>1, OnceView, OnceHandler, OnceLeave, OncePump
     DEF Next, TypeSpawns, Spawn, channelVars, vars

(***************************************************************************)
(* Who is in a session's list, and what its members know.                  *)
(***************************************************************************)
(* The steps that change a list. *)
LEMMA ClientsStep ==
  ASSUME [Next]_vars
  PROVE  \/ clients' = clients
         \/ \E c \in Client : Join(c) \/ Leave(c)
         \/ \E s \in Session : ClearClients(s)
<1>1. ASSUME NEW c \in Client, HandlerStep(c)
      PROVE  clients' = clients \/ Join(c)
  BY <1>1 DEF HandlerStep, HandleAttach, GetOrSpawn, Spawn, SpawnFails, HandleTakeover, TakeOver,
     HandleResize, Resize, HandleInput, CheckWriter, WriteKeys, LookUp, sessionVars
<1>2. ASSUME NEW c \in Client, ViewStep(c) \/ DetacherStep(c)
      PROVE  clients' = clients \/ Leave(c)
  BY <1>2 DEF ViewStep, Hear, PressTakeover, PressKey, Press, CloseChannel, DetacherStep,
     StartDetach, FindSession, sessionVars
<1>3. ASSUME NEW t \in Session, ShellExits(t) \/ PumpStep(t)
      PROVE  clients' = clients \/ ClearClients(t)
  BY <1>3 DEF ShellExits, PumpStep, Unmap, TellExit
<1>4. CASE TypeSpawns \/ UNCHANGED vars
  BY <1>4 DEF TypeSpawns, Spawn, vars
<1>5. QED
  BY <1>1, <1>2, <1>3, <1>4 DEF Next

LEMMA MembersStep ==
  ASSUME SInv, [Next]_vars, NEW s \in Session, NEW x \in Client, In(clients'[s], x)
  PROVE  In(clients[s], x) \/ (Join(x) /\ handler[x].s = s)
<1>0. TypeOK
  BY DEF SInv, Inv
<1>1. CASE clients' = clients
  BY <1>1
<1>2. ASSUME NEW c \in Client, Join(c)
      PROVE  In(clients[s], x) \/ (c = x /\ handler[x].s = s)
  <2>1. clients[s] \in Seq(Client)
    BY <1>0 DEF TypeOK
  <2>2. clients'[s] = IF s = handler[c].s THEN Append(clients[s], c) ELSE clients[s]
    BY <1>0, <1>2 DEF Join, TypeOK
  <2>3. In(Append(clients[s], c), x) => In(clients[s], x) \/ x = c
    BY <2>1, InAppend
  <2>4. QED
    BY <2>2, <2>3
<1>3. ASSUME NEW c \in Client, Leave(c)
      PROVE  In(clients[s], x)
  <2>1. clients[s] \in Seq(Client) /\ clients'[s] \in {clients[s], Without(clients[s], c)}
    BY <1>0, <1>3 DEF Leave, TypeOK
  <2>2. QED
    BY <2>1, InWithout
<1>4. ASSUME NEW t \in Session, ClearClients(t)
      PROVE  In(clients[s], x)
  <2>1. clients'[s] \in {clients[s], <<>>}
    BY <1>0, <1>4 DEF ClearClients, TypeOK
  <2>2. QED
    BY <2>1, InOne
<1>5. QED
  BY <1>1, <1>2, <1>3, <1>4, ClientsStep

(* A channel that joins was in no list. *)
LEMMA JoinsNew ==
  ASSUME SInv, NEW c \in Client, Join(c)
  PROVE  Unknown(c) /\ Said(c).role = "none"
  BY NewIsUntold DEF NewClient, Join

LEMMA OneSessionStep == SInv /\ [Next]_vars => OneSession'
<1> SUFFICES ASSUME SInv, [Next]_vars, NEW c \in Client, NEW s \in Session, NEW t \in Session,
                    In(clients'[s], c), In(clients'[t], c)
             PROVE  s = t
  BY DEF OneSession
<1>1. /\ In(clients[s], c) \/ (Join(c) /\ handler[c].s = s)
      /\ In(clients[t], c) \/ (Join(c) /\ handler[c].s = t)
  BY MembersStep
<1>2. QED
  BY <1>1, JoinsNew DEF SInv, OneSession, Unknown

(* What a step does to the numbers of the shells. *)
LEMMA SpawnCounts ==
  ASSUME TypeOK, NEW sizer, Spawn(sizer)
  PROVE  /\ spawned' = spawned + 1 /\ current' = spawned' /\ spawned' \in Session
         /\ \A s \in Session : /\ phase'[s] = IF s = spawned' THEN "running" ELSE phase[s]
                               /\ s # spawned' => size'[s] = size[s]
         /\ UNCHANGED <<clients, writer, toTell>>
  BY MaxSpawnAssumption DEF TypeOK, Spawn, Session

LEMMA CountsStep ==
  ASSUME SInv, [Next]_vars
  PROVE  \/ UNCHANGED <<current, spawned>>
         \/ current' = NoSession /\ spawned' = spawned
         \/ spawned' = spawned + 1 /\ current' = spawned'
<1>1. ASSUME NEW c \in Client, HandlerStep(c)
      PROVE  UNCHANGED <<current, spawned>> \/ (spawned' = spawned + 1 /\ current' = spawned')
  BY <1>1 DEF HandlerStep, HandleAttach, GetOrSpawn, Spawn, SpawnFails, Join, HandleTakeover, TakeOver,
     HandleResize, Resize, HandleInput, CheckWriter, WriteKeys, LookUp, sessionVars
<1>2. ASSUME NEW c \in Client, ViewStep(c) \/ DetacherStep(c)
      PROVE  UNCHANGED <<current, spawned>>
  BY <1>2 DEF ViewStep, Hear, PressTakeover, PressKey, Press, CloseChannel, DetacherStep,
     StartDetach, FindSession, Leave, sessionVars
<1>3. ASSUME NEW s \in Session, ShellExits(s) \/ PumpStep(s)
      PROVE  spawned' = spawned /\ current' \in {current, NoSession}
  BY <1>3 DEF ShellExits, PumpStep, Unmap, ClearClients, TellExit
<1>4. CASE TypeSpawns \/ UNCHANGED vars
  BY <1>4 DEF TypeSpawns, Spawn, vars
<1>5. QED
  BY <1>1, <1>2, <1>3, <1>4 DEF Next

(* A handler and a detacher take the number they hold from the map. *)
LEMMA HeldStep ==
  ASSUME SInv, [Next]_vars, NEW x \in Client
  PROVE  /\ handler'[x].op \in {"joining", "taking"} =>
              \/ handler'[x] = handler[x]
              \/ handler'[x].op = "joining" /\ handler'[x].s = current' /\ current' # NoSession
              \/ handler'[x].op = "taking" /\ handler'[x].s = current
                 /\ current # NoSession /\ UNCHANGED current
         /\ detacher'[x].op = "leaving" =>
              \/ detacher'[x] = detacher[x]
              \/ detacher'[x].s = current /\ current # NoSession /\ UNCHANGED current
<1>0. TypeOK
  BY DEF SInv, Inv
<1> USE DEF sessionVars, channelVars, Busy, Idle
<1>1. ASSUME NEW c \in Client, HandlerStep(c)
      PROVE  /\ detacher' = detacher
             /\ x # c => handler'[x] = handler[x]
  BY <1>0, <1>1 DEF HandlerStep, HandleAttach, GetOrSpawn, SpawnFails, Join, HandleTakeover, TakeOver,
     HandleResize, Resize, HandleInput, CheckWriter, WriteKeys, LookUp, TypeOK
<1>2. ASSUME HandlerStep(x), ~GetOrSpawn(x), handler'[x].op \in {"joining", "taking"}
      PROVE  \/ handler'[x] = handler[x]
             \/ handler'[x].op = "taking" /\ handler'[x].s = current
                /\ current # NoSession /\ UNCHANGED current
  BY <1>0, <1>2 DEF HandlerStep, HandleAttach, SpawnFails, Join, HandleTakeover, TakeOver,
     HandleResize, Resize, HandleInput, CheckWriter, WriteKeys, LookUp, TypeOK
<1>3. ASSUME GetOrSpawn(x)
      PROVE  handler'[x].op = "joining" /\ handler'[x].s = current' /\ current' # NoSession
  <2>1. handler'[x].op = "joining" /\ handler'[x].s = current'
    BY <1>0, <1>3 DEF GetOrSpawn, TypeOK
  <2>2. CASE current # NoSession /\ UNCHANGED sessionVars
    BY <2>1, <2>2
  <2>3. CASE Spawn(x)
    <3>1. current' \in Session
      BY <1>0, <2>3, SpawnCounts
    <3>2. QED
      BY <2>1, <3>1, MaxSpawnAssumption DEF Session, NoSession
  <2>4. QED
    BY <1>3, <2>1, <2>2, <2>3 DEF GetOrSpawn
<1>4. ASSUME NEW c \in Client, ViewStep(c)
      PROVE  UNCHANGED <<handler, detacher>>
  BY <1>4 DEF ViewStep, Hear, PressTakeover, PressKey, Press, CloseChannel
<1>5. ASSUME NEW c \in Client, DetacherStep(c)
      PROVE  /\ UNCHANGED <<handler, current>>
             /\ detacher'[x].op = "leaving" =>
                  detacher'[x] = detacher[x] \/ (detacher'[x].s = current /\ current # NoSession)
  BY <1>0, <1>5 DEF DetacherStep, StartDetach, FindSession, Leave, TypeOK
<1>6. ASSUME NEW s \in Session, ShellExits(s) \/ PumpStep(s)
      PROVE  UNCHANGED <<handler, detacher>>
  BY <1>6 DEF ShellExits, PumpStep, Unmap, ClearClients, TellExit
<1>7. CASE TypeSpawns \/ UNCHANGED vars
  BY <1>7 DEF TypeSpawns, vars
<1>8. QED
  BY <1>1, <1>2, <1>3, <1>4, <1>5, <1>6, <1>7 DEF Next

(* Nobody joins, or writes, a shell that has not been spawned. *)
LEMMA EmptyStep ==
  ASSUME SInv, [Next]_vars, NEW s \in Session, s > spawned
  PROVE  clients'[s] = <<>> /\ writer'[s] = None
<1>0. TypeOK /\ clients[s] = <<>> /\ writer[s] = None
  BY DEF SInv, Inv, Numbered
<1>1. CASE UNCHANGED <<clients, writer>>
  BY <1>0, <1>1
<1>2. ASSUME NEW c \in Client, HandlerStep(c)
      PROVE  clients'[s] = <<>> /\ writer'[s] = None
  <2>1. CASE Join(c) \/ TakeOver(c)
    <3>1. s # handler[c].s
      BY <2>1, HeldIsASession DEF Join, TakeOver
    <3>2. QED
      BY <1>0, <2>1, <3>1 DEF Join, TakeOver, TypeOK
  <2>2. CASE ~(Join(c) \/ TakeOver(c))
    <3>1. UNCHANGED <<clients, writer>>
      BY <1>2, <2>2 DEF HandlerStep, HandleAttach, GetOrSpawn, Spawn, SpawnFails, HandleTakeover,
         HandleResize, Resize, HandleInput, CheckWriter, WriteKeys, LookUp, sessionVars
    <3>2. QED
      BY <1>1, <3>1
  <2>3. QED
    BY <2>1, <2>2
<1>3. ASSUME NEW c \in Client, ViewStep(c) \/ DetacherStep(c)
      PROVE  clients'[s] = <<>> /\ writer'[s] = None
  <2>1. CASE Leave(c)
    <3>1. s # detacher[c].s
      BY <2>1, HeldIsASession DEF Leave
    <3>2. clients'[s] = clients[s] /\ writer'[s] = writer[s]
      BY <1>0, <2>1, <3>1 DEF Leave, TypeOK
    <3>3. QED
      BY <1>0, <3>2
  <2>2. CASE ~Leave(c)
    <3>1. UNCHANGED <<clients, writer>>
      BY <1>3, <2>2 DEF ViewStep, Hear, PressTakeover, PressKey, Press, CloseChannel, DetacherStep,
         StartDetach, FindSession, sessionVars
    <3>2. QED
      BY <1>1, <3>1
  <2>3. QED
    BY <2>1, <2>2
<1>4. ASSUME NEW t \in Session, ShellExits(t) \/ PumpStep(t)
      PROVE  clients'[s] = <<>> /\ writer'[s] = None
  BY <1>0, <1>4 DEF ShellExits, PumpStep, Unmap, ClearClients, TellExit, TypeOK
<1>5. CASE TypeSpawns \/ UNCHANGED vars
  BY <1>1, <1>5 DEF TypeSpawns, Spawn, vars
<1>6. QED
  BY <1>2, <1>3, <1>4, <1>5 DEF Next

LEMMA NumberedStep == SInv /\ [Next]_vars => Numbered'
<1> SUFFICES ASSUME SInv, [Next]_vars PROVE Numbered'
  OBVIOUS
<1>0. TypeOK /\ TypeOK' /\ Numbered
  BY TypeStep DEF SInv, Inv
<1>1. current' <= spawned' /\ spawned <= spawned' /\ spawned' \in Nat /\ spawned \in Nat
      /\ (current' = current => current \in 0 .. spawned') /\ current' \in 0 .. spawned'
  BY <1>0, CountsStep DEF Numbered, TypeOK, Session, NoSession
<1>2. ASSUME NEW c \in Client
      PROVE  /\ handler'[c].op \in {"joining", "taking"} => handler'[c].s \in 1 .. spawned'
             /\ detacher'[c].op = "leaving" => detacher'[c].s \in 1 .. spawned'
  <2>1. /\ handler[c].op \in {"joining", "taking"} => handler[c].s \in 1 .. spawned
        /\ detacher[c].op = "leaving" => detacher[c].s \in 1 .. spawned
    BY <1>0 DEF Numbered
  <2>2. /\ current' # NoSession => current' \in 1 .. spawned'
        /\ \A s : s \in 1 .. spawned => s \in 1 .. spawned'
    BY <1>1 DEF NoSession
  <2>3. QED
    BY <2>1, <2>2, HeldStep
<1>3. ASSUME NEW s \in Session, s > spawned'
      PROVE  clients'[s] = <<>> /\ writer'[s] = None
  <2>1. s > spawned
    BY <1>1, <1>3 DEF Session
  <2>2. QED
    BY <2>1, EmptyStep
<1>4. QED
  BY <1>1, <1>2, <1>3 DEF Numbered

(* A shell that lives did so before, or has just been spawned. *)
LEMMA RunningStep ==
  ASSUME SInv, [Next]_vars, NEW s \in Session, phase'[s] = "running"
  PROVE  phase[s] = "running" \/ s > spawned
<1>0. TypeOK
  BY DEF SInv, Inv
<1>1. ASSUME NEW sizer, Spawn(sizer)
      PROVE  phase[s] = "running" \/ s > spawned
  <2>1. spawned' = spawned + 1 /\ phase'[s] = IF s = spawned' THEN "running" ELSE phase[s]
    BY <1>0, <1>1, SpawnCounts
  <2>2. spawned \in Nat
    BY <1>0 DEF TypeOK
  <2>3. QED
    BY <2>1, <2>2
<1>2. ASSUME NEW c \in Client, HandlerStep(c)
      PROVE  phase' = phase \/ Spawn(c)
  BY <1>2 DEF HandlerStep, HandleAttach, GetOrSpawn, SpawnFails, Join, HandleTakeover, TakeOver,
     HandleResize, Resize, HandleInput, CheckWriter, WriteKeys, LookUp, sessionVars
<1>3. ASSUME NEW c \in Client, ViewStep(c) \/ DetacherStep(c)
      PROVE  phase' = phase
  BY <1>3 DEF ViewStep, Hear, PressTakeover, PressKey, Press, CloseChannel, DetacherStep,
     StartDetach, FindSession, Leave, sessionVars
<1>4. ASSUME NEW t \in Session, ShellExits(t) \/ PumpStep(t)
      PROVE  phase[s] = "running"
  BY <1>0, <1>4 DEF ShellExits, PumpStep, Unmap, ClearClients, TellExit, TypeOK
<1>5. QED
  BY <1>1, <1>2, <1>3, <1>4 DEF Next, TypeSpawns, vars

(* A shell that is watched was watched, or somebody has just joined it. *)
LEMMA WatchesStep ==
  ASSUME SInv, [Next]_vars, NEW c \in Client, NEW s \in Session, Watches(c, s)'
  PROVE  phase[s] = "running" /\ (Watches(c, s) \/ (Join(c) /\ handler[c].s = s))
<1>1. In(clients[s], c) \/ (Join(c) /\ handler[c].s = s)
  BY MembersStep DEF Watches
<1>2. phase[s] = "running" \/ s > spawned
  BY RunningStep DEF Watches
<1>3. ~(s > spawned)
  <2>1. s > spawned => ~In(clients[s], c)
    BY InOne DEF SInv, Numbered
  <2>2. Join(c) => ~(handler[c].s > spawned)
    BY HeldIsASession DEF Join
  <2>3. QED
    BY <1>1, <2>1, <2>2
<1>4. QED
  BY <1>1, <1>2, <1>3 DEF Watches

LEMMA NoTwiceStep == SInv /\ [Next]_vars => NoTwice'
<1> SUFFICES ASSUME SInv, [Next]_vars, NEW s \in Session PROVE Distinct(clients'[s])
  BY DEF NoTwice
<1>0. TypeOK /\ Distinct(clients[s]) /\ clients[s] \in Seq(Client)
  BY DEF SInv, Inv, TypeOK, NoTwice
<1>1. CASE clients' = clients
  BY <1>0, <1>1
<1>2. ASSUME NEW c \in Client, Join(c)
      PROVE  Distinct(clients'[s])
  <2>1. clients'[s] = IF s = handler[c].s THEN Append(clients[s], c) ELSE clients[s]
    BY <1>0, <1>2 DEF Join, TypeOK
  <2>2. ~In(clients[s], c)
    BY <1>2, JoinsNew DEF Unknown
  <2>3. QED
    BY <1>0, <2>1, <2>2, DistinctAppend
<1>3. ASSUME NEW c \in Client, Leave(c)
      PROVE  Distinct(clients'[s])
  <2>1. clients'[s] \in {clients[s], Without(clients[s], c)}
    BY <1>0, <1>3 DEF Leave, TypeOK
  <2>2. QED
    BY <1>0, <2>1, DistinctWithout
<1>4. ASSUME NEW t \in Session, ClearClients(t)
      PROVE  Distinct(clients'[s])
  <2>1. clients'[s] \in {clients[s], <<>>}
    BY <1>0, <1>4 DEF ClearClients, TypeOK
  <2>2. QED
    BY <1>0, <2>1 DEF Distinct
<1>5. QED
  BY <1>1, <1>2, <1>3, <1>4, ClientsStep

(* The steps that change a writer. *)
LEMMA WritersStep ==
  ASSUME [Next]_vars
  PROVE  \/ writer' = writer
         \/ \E c \in Client : Join(c) \/ TakeOver(c) \/ Leave(c)
         \/ \E s \in Session : ClearClients(s)
<1>1. ASSUME NEW x \in Client, HandlerStep(x)
      PROVE  writer' = writer \/ Join(x) \/ TakeOver(x)
  BY <1>1 DEF HandlerStep, HandleAttach, GetOrSpawn, Spawn, SpawnFails, HandleTakeover,
     HandleResize, Resize, HandleInput, CheckWriter, WriteKeys, LookUp, sessionVars
<1>2. ASSUME NEW x \in Client, ViewStep(x) \/ DetacherStep(x)
      PROVE  writer' = writer \/ Leave(x)
  BY <1>2 DEF ViewStep, Hear, PressTakeover, PressKey, Press, CloseChannel, DetacherStep,
     StartDetach, FindSession, sessionVars
<1>3. ASSUME NEW t \in Session, ShellExits(t) \/ PumpStep(t)
      PROVE  writer' = writer \/ ClearClients(t)
  BY <1>3 DEF ShellExits, PumpStep, Unmap, TellExit
<1>4. CASE TypeSpawns \/ UNCHANGED vars
  BY <1>4 DEF TypeSpawns, Spawn, vars
<1>5. QED
  BY <1>1, <1>2, <1>3, <1>4 DEF Next

(* A client comes to write a shell when it joins it, takes it over or is in  *)
(* its list when the writer leaves.                                          *)
LEMMA WriterStep ==
  ASSUME SInv, [Next]_vars, NEW c \in Client, NEW s \in Session, writer'[s] = c
  PROVE  \/ writer[s] = c
         \/ Join(c) /\ handler[c].s = s
         \/ TakeOver(c) /\ handler[c].s = s
         \/ In(clients[s], c) /\ In(clients'[s], c)
<1>0. TypeOK
  BY DEF SInv, Inv
<1>1. CASE writer' = writer
  BY <1>1
<1>2. ASSUME NEW x \in Client, Join(x)
      PROVE  writer[s] = c \/ (Join(c) /\ handler[c].s = s)
  BY <1>0, <1>2 DEF Join, TypeOK
<1>3. ASSUME NEW x \in Client, TakeOver(x)
      PROVE  writer[s] = c \/ (TakeOver(c) /\ handler[c].s = s)
  <2>1. writer' = writer \/ writer' = [writer EXCEPT ![handler[x].s] = x]
    BY <1>3 DEF TakeOver
  <2>2. QED
    BY <1>0, <1>3, <2>1 DEF TypeOK
<1>4. ASSUME NEW x \in Client, Leave(x)
      PROVE  writer[s] = c \/ (In(clients[s], c) /\ In(clients'[s], c))
  <2> DEFINE t == detacher[x].s
             rest == Without(clients[t], x)
             heir == IF rest = <<>> THEN None ELSE rest[Len(rest)]
  <2>1. /\ writer' = writer \/ writer' = [writer EXCEPT ![t] = heir]
        /\ clients' = [clients EXCEPT ![t] = rest]
    BY <1>4 DEF Leave
  <2>2. CASE writer[s] # c
    <3>1. t = s /\ heir = c /\ clients'[t] = rest
      BY <1>0, <2>1, <2>2 DEF TypeOK
    <3>2. rest # <<>> /\ clients[t] \in Seq(Client)
      BY <1>0, <3>1, NoneAssumption DEF TypeOK
    <3>3. In(clients[t], c) /\ In(rest, c)
      BY <3>1, <3>2, HeirStays
    <3>4. QED
      BY <3>1, <3>3
  <2>3. QED
    BY <2>2
<1>5. ASSUME NEW t \in Session, ClearClients(t)
      PROVE  writer[s] = c
  BY <1>0, <1>5, NoneAssumption DEF ClearClients, TypeOK
<1>6. QED
  BY <1>1, <1>2, <1>3, <1>4, <1>5, WritersStep

(* A client that comes to write a shell is told so, and its role rises on   *)
(* the way to its view unless it was told before that it writes some shell. *)
LEMMA NewWriterIsTold ==
  ASSUME SInv, [Next]_vars, NEW c \in Client, NEW s \in Session,
         writer'[s] = c, writer[s] # c, open[c]
  PROVE  /\ Said(c)'.role = "writer"
         /\ Said(c).role # "writer" => Rising(c)'
<1>0. TypeOK
  BY DEF SInv, Inv
<1>1. ASSUME NEW says, Tell(says), \A y \in Client : y \in DOMAIN says => says[y] \in Belief,
             c \in DOMAIN says, says[c].role = "writer"
      PROVE  Said(c)'.role = "writer" /\ (Said(c).role # "writer" => Rising(c)')
  BY <1>0, <1>1, TellSays DEF Promoted
<1>2. ASSUME NEW x \in Client, Join(x)
      PROVE  Said(c)'.role = "writer" /\ (Said(c).role # "writer" => Rising(c)')
  <2> DEFINE t == handler[x].s
             w == IF writer[t] = None THEN x ELSE writer[t]
             says == [y \in {x} |-> Role(y, IF w = x THEN "writer" ELSE "viewer", t)]
  <2>1. /\ Tell(says) /\ \A y \in Client : y \in DOMAIN says => says[y] \in Belief
        /\ says[x].role = (IF w = x THEN "writer" ELSE "viewer") /\ DOMAIN says = {x}
    BY <1>0, <1>2, JoinTells
  <2>2. t = s /\ w = c /\ c = x
    <3>1. writer' = [writer EXCEPT ![t] = w]
      BY <1>2 DEF Join
    <3>2. QED
      BY <1>0, <3>1 DEF TypeOK
  <2> HIDE DEF says
  <2>3. QED
    BY <1>1, <2>1, <2>2
<1>3. ASSUME NEW x \in Client, TakeOver(x)
      PROVE  Said(c)'.role = "writer" /\ (Said(c).role # "writer" => Rising(c)')
  <2> DEFINE t == handler[x].s
             prev == writer[t]
             says == [y \in {x} \cup ({prev} \ {None}) |->
                        Role(y, IF y = x THEN "writer" ELSE "viewer", t)]
  <2>1. /\ prev # x => Tell(says) /\ writer' = [writer EXCEPT ![t] = x]
        /\ prev = x => UNCHANGED writer
        /\ \A y \in Client : y \in DOMAIN says =>
             says[y] \in Belief /\ says[y].role = (IF y = x THEN "writer" ELSE "viewer")
        /\ x \in DOMAIN says
    BY <1>0, <1>3, TakeOverTells
  <2>2. c = x /\ prev # x
    BY <1>0, <2>1 DEF TypeOK
  <2> HIDE DEF says
  <2>3. QED
    BY <1>1, <2>1, <2>2
<1>4. ASSUME NEW x \in Client, Leave(x)
      PROVE  Said(c)'.role = "writer" /\ (Said(c).role # "writer" => Rising(c)')
  <2> DEFINE t == detacher[x].s
             rest == Without(clients[t], x)
             heir == IF rest = <<>> THEN None ELSE rest[Len(rest)]
             says == [y \in {heir} \ {None} |-> Role(y, "writer", t)]
  <2>1. /\ writer[t] = x => Tell(says) /\ writer' = [writer EXCEPT ![t] = heir]
        /\ writer[t] # x => UNCHANGED <<writer, news>>
        /\ \A y \in Client : y \in DOMAIN says =>
             says[y] \in Belief /\ says[y].s = t /\ says[y].role = "writer"
    BY <1>0, <1>4, LeaveTells, Zenon
  <2>2. DOMAIN says = {heir} \ {None}
    OBVIOUS
  <2> HIDE DEF says, heir
  <2>3. c = heir /\ writer[t] = x
    BY <1>0, <2>1 DEF TypeOK
  <2>4. QED
    BY <1>1, <2>1, <2>2, <2>3, NoneAssumption
<1>5. ASSUME NEW t \in Session, ClearClients(t)
      PROVE  FALSE
  BY <1>0, <1>5, NoneAssumption DEF ClearClients, TypeOK
<1>6. QED
  BY <1>2, <1>3, <1>4, <1>5, WritersStep

(* The steps that tell somebody something, or let a view hear it. *)
LEMMA NewsStep ==
  ASSUME [Next]_vars
  PROVE  \/ news' = news
         \/ \E c \in Client : Hear(c) \/ CloseChannel(c) \/ Join(c) \/ TakeOver(c) \/ Leave(c)
         \/ \E c \in Client, s \in Session : TellExit(s, c)
<1>1. ASSUME NEW x \in Client, HandlerStep(x)
      PROVE  news' = news \/ Join(x) \/ TakeOver(x)
  BY <1>1 DEF HandlerStep, HandleAttach, GetOrSpawn, SpawnFails, HandleTakeover,
     HandleResize, Resize, HandleInput, CheckWriter, WriteKeys, LookUp
<1>2. ASSUME NEW x \in Client, ViewStep(x) \/ DetacherStep(x)
      PROVE  news' = news \/ Hear(x) \/ CloseChannel(x) \/ Leave(x)
  BY <1>2 DEF ViewStep, PressTakeover, PressKey, Press, DetacherStep, StartDetach, FindSession
<1>3. ASSUME NEW t \in Session, ShellExits(t) \/ Unmap(t) \/ ClearClients(t)
      PROVE  news' = news
  BY <1>3 DEF ShellExits, Unmap, ClearClients, channelVars
<1>4. CASE TypeSpawns \/ UNCHANGED vars
  BY <1>4 DEF TypeSpawns, channelVars, vars
<1>5. QED
  BY <1>1, <1>2, <1>3, <1>4 DEF Next, PumpStep

(* What a client is told last: the role it joins with, that it took a shell *)
(* over or lost it, or that it inherits one it watches.                     *)
LEMMA SaidStep ==
  ASSUME SInv, [Next]_vars, NEW c \in Client
  PROVE  \/ Said(c)'.role = Said(c).role /\ Said(c)'.s = Said(c).s
         \/ ~open'[c] /\ Said(c)'.role = "none"
         \/ Join(c) /\ Said(c)'.s = handler[c].s
         \/ TakeOver(c) /\ Said(c)'.s = handler[c].s /\ Said(c)'.role = "writer"
         \/ \E x \in Client : /\ TakeOver(x) /\ x # c /\ writer[handler[x].s] = c
                              /\ writer'[handler[x].s] = x /\ Said(c)'.role = "viewer"
         \/ \E s \in Session : In(clients[s], c) /\ Said(c)'.s = s /\ Said(c)'.role = "writer"
<1>0. TypeOK
  BY DEF SInv, Inv
<1>1. CASE news'[c] = news[c]
  BY <1>1 DEF Said
<1>2. ASSUME NEW x \in Client, Hear(x)
      PROVE  Said(c)' = Said(c)
  BY <1>0, <1>2, HearSays
<1>3. ASSUME NEW x \in Client, CloseChannel(x)
      PROVE  news'[c] = news[c] \/ (~open'[c] /\ Said(c)'.role = "none")
  <2>1. x # c => news'[c] = news[c]
    BY <1>0, <1>3 DEF CloseChannel, TypeOK
  <2>2. x = c => news'[c] = <<NoBelief>> /\ ~open'[c]
    BY <1>0, <1>3 DEF CloseChannel, TypeOK
  <2>3. <<NoBelief>>[Len(<<NoBelief>>)] = NoBelief
    OBVIOUS
  <2>4. x = c => Said(c)' = NoBelief /\ ~open'[c]
    BY <2>2, <2>3 DEF Said
  <2>5. NoBelief.role = "none"
    BY DEF NoBelief
  <2>6. QED
    BY <2>1, <2>4, <2>5
<1>4. ASSUME NEW x \in Client, Join(x)
      PROVE  news'[c] = news[c] \/ Said(c)' = Said(c) \/ (Join(c) /\ Said(c)'.s = handler[c].s)
  <2> DEFINE t == handler[x].s
             w == IF writer[t] = None THEN x ELSE writer[t]
             says == [y \in {x} |-> Role(y, IF w = x THEN "writer" ELSE "viewer", t)]
  <2>1. /\ Tell(says) /\ \A y \in Client : y \in DOMAIN says => says[y] \in Belief
        /\ says[x].s = t /\ DOMAIN says = {x}
    BY <1>0, <1>4, JoinTells
  <2> HIDE DEF says
  <2>2. QED
    BY <1>0, <1>4, <2>1, TellSays
<1>5. ASSUME NEW x \in Client, TakeOver(x)
      PROVE  \/ news'[c] = news[c]
             \/ TakeOver(c) /\ Said(c)'.s = handler[c].s /\ Said(c)'.role = "writer"
             \/ /\ x # c /\ writer[handler[x].s] = c
                /\ writer'[handler[x].s] = x /\ Said(c)'.role = "viewer"
  <2> DEFINE t == handler[x].s
             prev == writer[t]
             says == [y \in {x} \cup ({prev} \ {None}) |->
                        Role(y, IF y = x THEN "writer" ELSE "viewer", t)]
  <2>0. t \in Session
    BY <1>5, HeldIsASession DEF TakeOver
  <2>1. /\ prev # x => Tell(says) /\ writer' = [writer EXCEPT ![t] = x]
        /\ prev = x => UNCHANGED news
        /\ \A y \in Client : y \in DOMAIN says =>
             says[y] \in Belief /\ says[y].s = t
             /\ says[y].role = (IF y = x THEN "writer" ELSE "viewer")
        /\ DOMAIN says = {x} \cup ({prev} \ {None})
    BY <1>0, <1>5, TakeOverTells
  <2>2. prev # x => writer'[t] = x
    BY <1>0, <2>0, <2>1 DEF TypeOK
  <2>3. ASSUME prev # x
        PROVE  /\ c \in DOMAIN says /\ open[c] => Said(c)' = says[c]
               /\ ~(c \in DOMAIN says /\ open[c]) => news'[c] = news[c]
    <3> HIDE DEF says
    <3>1. QED
      BY <1>0, <2>1, <2>3, TellSays
  <2> HIDE DEF says
  <2>4. QED
    BY <1>5, <2>1, <2>2, <2>3
<1>6. ASSUME NEW x \in Client, Leave(x)
      PROVE  \/ news'[c] = news[c]
             \/ \E s \in Session : In(clients[s], c) /\ Said(c)'.s = s /\ Said(c)'.role = "writer"
  <2> DEFINE t == detacher[x].s
             rest == Without(clients[t], x)
             heir == IF rest = <<>> THEN None ELSE rest[Len(rest)]
             says == [y \in {heir} \ {None} |-> Role(y, "writer", t)]
  <2>1. /\ writer[t] = x => Tell(says)
        /\ writer[t] # x => UNCHANGED news
        /\ \A y \in Client : y \in DOMAIN says =>
             says[y] \in Belief /\ says[y].s = t /\ says[y].role = "writer"
        /\ DOMAIN says = {heir} \ {None}
    BY <1>0, <1>6, LeaveTells
  <2>2. t \in Session /\ clients[t] \in Seq(Client)
    BY <1>0, <1>6, HeldIsASession DEF Leave, TypeOK
  <2>3. heir # None => In(clients[t], heir)
    BY <2>2, HeirStays
  <2> HIDE DEF says, heir
  <2>4. QED
    BY <1>0, <2>1, <2>2, <2>3, TellSays
<1>7. ASSUME NEW s \in Session, NEW x \in Client, TellExit(s, x)
      PROVE  Said(c)'.role = Said(c).role /\ Said(c)'.s = Said(c).s
  <2> DEFINE says == [y \in {x} |-> Ended(y)]
  <2>1. /\ Tell(says) /\ \A y \in Client : y \in DOMAIN says => says[y] \in Belief
        /\ says[x].role = Said(x).role /\ says[x].s = Said(x).s /\ DOMAIN says = {x}
    BY <1>0, <1>7, ExitTells
  <2> HIDE DEF says
  <2>2. QED
    BY <1>0, <2>1, TellSays
<1>8. QED
  BY <1>1, <1>2, <1>3, <1>4, <1>5, <1>6, <1>7, NewsStep

(* Pump's copy of the clients is taken from the list of its own session. *)
LEMMA ToTellStep ==
  ASSUME SInv, [Next]_vars, NEW c \in Client, NEW t \in Session, c \in toTell'[t]
  PROVE  c \in toTell[t] \/ (In(clients[t], c) /\ phase[t] = "unmapped")
<1>0. TypeOK
  BY DEF SInv, Inv
<1>1. ASSUME NEW s \in Session, ShellExits(s) \/ PumpStep(s)
      PROVE  c \in toTell[t] \/ (In(clients[t], c) /\ phase[t] = "unmapped")
  <2>1. CASE ClearClients(s)
    <3>1. /\ phase[s] = "unmapped"
          /\ toTell'[t] = IF t = s THEN ClientSet(s) ELSE toTell[t]
      BY <1>0, <2>1 DEF ClearClients, TypeOK
    <3>2. c \in ClientSet(s) => In(clients[s], c)
      BY ClientSetIn
    <3>3. QED
      BY <3>1, <3>2
  <2>2. ASSUME NEW x \in Client, TellExit(s, x)
        PROVE  c \in toTell[t]
    BY <1>0, <2>2 DEF TellExit, TypeOK
  <2>3. CASE ShellExits(s) \/ Unmap(s)
    BY <2>3 DEF ShellExits, Unmap
  <2>4. QED
    BY <1>1, <2>1, <2>2, <2>3 DEF PumpStep
<1>2. ASSUME NEW x \in Client, HandlerStep(x)
      PROVE  toTell' = toTell
  BY <1>2 DEF HandlerStep, HandleAttach, GetOrSpawn, Spawn, SpawnFails, Join, HandleTakeover, TakeOver,
     HandleResize, Resize, HandleInput, CheckWriter, WriteKeys, LookUp, sessionVars
<1>3. ASSUME NEW x \in Client, ViewStep(x) \/ DetacherStep(x)
      PROVE  toTell' = toTell
  BY <1>3 DEF ViewStep, Hear, PressTakeover, PressKey, Press, CloseChannel, DetacherStep,
     StartDetach, FindSession, Leave, sessionVars
<1>4. CASE TypeSpawns \/ UNCHANGED vars
  BY <1>4 DEF TypeSpawns, Spawn, vars
<1>5. QED
  BY <1>1, <1>2, <1>3, <1>4 DEF Next

LEMMA InItsSessionStep == SInv /\ [Next]_vars => InItsSession'
<1> SUFFICES ASSUME SInv, [Next]_vars, NEW c \in Client, NEW s \in Session, Watches(c, s)'
             PROVE  /\ handler'[c].op = "taking" => handler'[c].s = s
                    /\ Said(c)'.role = "writer" => Said(c)'.s = s
                    /\ \A t \in Session : writer'[t] = c => t = s
                    /\ \A t \in Session : c \notin toTell'[t]
  BY DEF InItsSession
<1>0. TypeOK
  BY DEF SInv, Inv
<1>1. CASE Join(c) /\ handler[c].s = s
  <2>1. handler'[c] = Idle /\ handler[c].op # "taking" /\ ~TakeOver(c) /\ toTell' = toTell
    BY <1>0, <1>1 DEF Join, TakeOver, TypeOK
  <2>2. Unknown(c) /\ Said(c).role = "none"
    BY <1>1, JoinsNew
  <2>3. Said(c)'.role = "writer" => Said(c)'.s = s
    BY <1>1, <2>1, <2>2, SaidStep DEF Unknown
  <2>4. \A t \in Session : writer'[t] = c => t = s
    BY <1>1, <2>1, <2>2, WriterStep DEF Unknown
  <2>5. QED
    BY <2>1, <2>2, <2>3, <2>4 DEF Unknown, Idle
<1>2. CASE Watches(c, s)
  <2>1. /\ handler[c].op = "taking" => handler[c].s = s
        /\ Said(c).role = "writer" => Said(c).s = s
        /\ \A t \in Session : writer[t] = c => t = s
        /\ \A t \in Session : c \notin toTell[t]
    BY <1>2 DEF SInv, InItsSession
  <2>2. current = s /\ phase[s] = "running"
    BY <1>2 DEF SInv, Inv, LiveIsCurrent, Watches
  <2>3. \A t \in Session : In(clients[t], c) => t = s
    BY <1>2 DEF SInv, OneSession, Watches
  <2>4. ~Join(c) /\ (TakeOver(c) => handler[c].s = s)
    BY <1>2, <2>1, JoinsNew DEF Unknown, Watches, TakeOver
  <2>5. handler'[c].op = "taking" => handler'[c].s = s
    BY <2>1, <2>2, HeldStep
  <2>6. Said(c)'.role = "writer" => Said(c)'.s = s
    BY <2>1, <2>3, <2>4, SaidStep
  <2>7. \A t \in Session : writer'[t] = c => t = s
    BY <2>1, <2>3, <2>4, WriterStep
  <2>8. \A t \in Session : c \notin toTell'[t]
    BY <2>1, <2>2, <2>3, ToTellStep
  <2>9. QED
    BY <2>5, <2>6, <2>7, <2>8
<1>3. QED
  BY <1>1, <1>2, WatchesStep

(* A channel that has closed stays closed. *)
LEMMA OpenStep ==
  ASSUME SInv, [Next]_vars, NEW c \in Client, open'[c]
  PROVE  open[c]
<1>0. TypeOK
  BY DEF SInv, Inv
<1>1. ASSUME NEW x \in Client, HandlerStep(x) \/ DetacherStep(x)
      PROVE  open' = open
  BY <1>1 DEF HandlerStep, HandleAttach, GetOrSpawn, SpawnFails, Join, HandleTakeover, TakeOver,
     HandleResize, Resize, HandleInput, CheckWriter, WriteKeys, LookUp, DetacherStep,
     StartDetach, FindSession, Leave
<1>2. ASSUME NEW x \in Client, ViewStep(x)
      PROVE  open[c]
  BY <1>0, <1>2 DEF ViewStep, Hear, PressTakeover, PressKey, Press, CloseChannel, TypeOK
<1>3. ASSUME NEW t \in Session, ShellExits(t) \/ PumpStep(t)
      PROVE  open' = open
  BY <1>3 DEF ShellExits, PumpStep, Unmap, ClearClients, TellExit, channelVars
<1>4. QED
  BY <1>1, <1>2, <1>3 DEF Next, TypeSpawns, channelVars, vars

LEMMA KnowsStep == SInv /\ [Next]_vars => Knows'
<1> SUFFICES ASSUME SInv, [Next]_vars, NEW c \in Client, NEW s \in Session,
                    Watches(c, s)', writer'[s] = c, open'[c]
             PROVE  Said(c)'.role = "writer"
  BY DEF Knows
<1>1. open[c]
  BY OpenStep
<1>2. CASE writer[s] # c
  BY <1>1, <1>2, NewWriterIsTold
<1>3. CASE writer[s] = c
  <2>1. ~Join(c)
    BY <1>3, JoinsNew DEF Unknown
  <2>2. Watches(c, s)
    BY <2>1, WatchesStep
  <2>3. Said(c).role = "writer"
    BY <1>1, <1>3, <2>2 DEF SInv, Knows
  <2>4. ASSUME NEW x \in Client, x # c, TakeOver(x), writer[handler[x].s] = c, writer'[handler[x].s] = x
        PROVE  FALSE
    <3>1. handler[x].s \in Session
      BY <2>4, HeldIsASession DEF TakeOver
    <3>2. handler[x].s = s
      BY <2>2, <2>4, <3>1 DEF SInv, InItsSession
    <3>3. QED
      BY <2>4, <3>2
  <2>5. QED
    BY <2>1, <2>3, <2>4, SaidStep
<1>4. QED
  BY <1>2, <1>3

(* Who was once late for a shell stays so. *)
LEMMA LateStep ==
  ASSUME SInv, [Next]_vars, NEW s \in Session
  PROVE  late[s] \subseteq late'[s]
<1>0. TypeOK
  BY DEF SInv, Inv
<1>1. ASSUME NEW x \in Client, HandlerStep(x)
      PROVE  late[s] \subseteq late'[s]
  <2>1. CASE Join(x) \/ TakeOver(x)
    <3>1. late' = late \/ late' = [late EXCEPT ![handler[x].s] = @ \cup {x}]
      BY <2>1 DEF Join, TakeOver
    <3>2. late'[s] = late[s] \/ late'[s] = late[s] \cup {x}
      BY <1>0, <3>1 DEF TypeOK
    <3>3. QED
      BY <3>2
  <2>2. CASE ~(Join(x) \/ TakeOver(x))
    <3>1. late' = late
      BY <1>1, <2>2 DEF HandlerStep, HandleAttach, GetOrSpawn, Spawn, SpawnFails, HandleTakeover,
         HandleResize, Resize, HandleInput, CheckWriter, WriteKeys, LookUp, sessionVars
    <3>2. QED
      BY <3>1
  <2>3. QED
    BY <2>1, <2>2
<1>2. ASSUME NEW x \in Client, ViewStep(x) \/ DetacherStep(x)
      PROVE  late' = late
  BY <1>2 DEF ViewStep, Hear, PressTakeover, PressKey, Press, CloseChannel, DetacherStep,
     StartDetach, FindSession, Leave, sessionVars
<1>3. ASSUME NEW t \in Session, ShellExits(t) \/ PumpStep(t)
      PROVE  late' = late
  BY <1>3 DEF ShellExits, PumpStep, Unmap, ClearClients, TellExit
<1>4. QED
  BY <1>1, <1>2, <1>3 DEF Next, TypeSpawns, Spawn, vars

(* The members of a live shell stay, but for those who leave. *)
LEMMA MembersStay ==
  ASSUME SInv, [Next]_vars, NEW s \in Session, NEW c \in Client,
         In(clients[s], c), phase'[s] = "running"
  PROVE  In(clients'[s], c) \/ (Leave(c) /\ detacher[c].s = s)
<1>0. TypeOK /\ clients[s] \in Seq(Client)
  BY DEF SInv, Inv, TypeOK
<1>1. CASE clients' = clients
  BY <1>1
<1>2. ASSUME NEW x \in Client, Join(x)
      PROVE  In(clients'[s], c)
  <2>1. clients'[s] = clients[s] \/ clients'[s] = Append(clients[s], x)
    BY <1>0, <1>2 DEF Join, TypeOK
  <2>2. In(Append(clients[s], x), c)
    BY <1>0, InAppend
  <2>3. QED
    BY <2>1, <2>2
<1>3. ASSUME NEW x \in Client, Leave(x)
      PROVE  In(clients'[s], c) \/ (x = c /\ detacher[c].s = s)
  <2>1. clients'[s] = IF s = detacher[x].s THEN Without(clients[s], x) ELSE clients[s]
    BY <1>0, <1>3 DEF Leave, TypeOK
  <2>2. x # c => In(Without(clients[s], x), c)
    BY <1>0, InWithout
  <2>3. QED
    BY <2>1, <2>2
<1>4. ASSUME NEW t \in Session, ClearClients(t)
      PROVE  clients'[s] = clients[s]
  BY <1>0, <1>4 DEF ClearClients, TypeOK
<1>5. QED
  BY <1>1, <1>2, <1>3, <1>4, ClientsStep

LEMMA WriterWatchesStep == SInv /\ [Next]_vars => WriterWatches'
<1> SUFFICES ASSUME SInv, [Next]_vars, NEW c \in Client, NEW s \in Session,
                    phase'[s] = "running", writer'[s] = c
             PROVE  In(clients'[s], c) \/ c \in late'[s]
  BY DEF WriterWatches
<1>0. TypeOK /\ clients[s] \in Seq(Client)
  BY DEF SInv, Inv, TypeOK
<1>1. phase[s] = "running"
  BY RunningStep, EmptyStep, NoneAssumption
<1>2. CASE writer[s] = c
  <2>1. In(clients[s], c) \/ c \in late[s]
    BY <1>1, <1>2 DEF SInv, WriterWatches
  <2>2. CASE c \in late[s]
    BY <2>2, LateStep
  <2>3. CASE In(clients[s], c) /\ Leave(c) /\ detacher[c].s = s
    <3> DEFINE rest == Without(clients[s], c)
               heir == IF rest = <<>> THEN None ELSE rest[Len(rest)]
    <3>1. clients'[s] = rest /\ writer'[s] = heir
      BY <1>0, <1>2, <2>3 DEF Leave, TypeOK
    <3>2. rest # <<>> /\ heir = c
      BY <3>1, NoneAssumption
    <3>3. QED
      BY <1>0, <3>1, <3>2, HeirStays
  <2>4. QED
    BY <2>1, <2>2, <2>3, MembersStay
<1>3. CASE Join(c) /\ handler[c].s = s
  <2>1. clients'[s] = Append(clients[s], c)
    BY <1>0, <1>3 DEF Join, TypeOK
  <2>2. QED
    BY <1>0, <2>1, InAppend
<1>4. CASE TakeOver(c) /\ handler[c].s = s /\ writer[s] # c
  <2>1. /\ clients' = clients
        /\ late' = IF c \in ClientSet(s) THEN late ELSE [late EXCEPT ![s] = @ \cup {c}]
    BY <1>4 DEF TakeOver
  <2>2. c \in ClientSet(s) => In(clients[s], c)
    BY ClientSetIn
  <2>3. QED
    BY <1>0, <2>1, <2>2 DEF TypeOK
<1>5. QED
  BY <1>2, <1>3, <1>4, WriterStep

(* The goroutine that will take a watcher off its list goes on to do so. *)
LEMMA WillLeaveStep ==
  ASSUME SInv, [Next]_vars, NEW c \in Client, NEW s \in Session, Watches(c, s), WillLeave(c, s)
  PROVE  WillLeave(c, s)' \/ (Leave(c) /\ detacher[c].s = s)
<1>0. TypeOK
  BY DEF SInv, Inv
<1>1. ~NewClient(c) /\ current = s /\ current # NoSession /\ \A t \in Session : c \notin toTell[t]
  <2>1. ~NewClient(c)
    BY DEF SInv, AttachesOnce, Unknown, Watches
  <2>2. QED
    BY <2>1, MaxSpawnAssumption
       DEF SInv, Inv, LiveIsCurrent, InItsSession, Watches, Session, NoSession
<1>2. CASE detacher'[c] = detacher[c] /\ (attached[c] => attached'[c])
  BY <1>2 DEF WillLeave
<1>3. ASSUME NEW x \in Client, HandlerStep(x)
      PROVE  detacher'[c] = detacher[c] /\ (attached[c] => attached'[c])
  <2>1. CASE HandleAttach(x)
    BY <1>0, <2>1 DEF HandleAttach, TypeOK
  <2>2. CASE SpawnFails(x)
    <3>1. x # c
      BY <1>1, <2>2 DEF SpawnFails, NewClient
    <3>2. QED
      BY <1>0, <2>2, <3>1 DEF SpawnFails, TypeOK
  <2>3. CASE ~(HandleAttach(x) \/ SpawnFails(x))
    BY <1>3, <2>3 DEF HandlerStep, GetOrSpawn, Join, HandleTakeover, TakeOver,
       HandleResize, Resize, HandleInput, CheckWriter, WriteKeys, LookUp
  <2>4. QED
    BY <2>1, <2>2, <2>3
<1>4. ASSUME NEW x \in Client, DetacherStep(x), x # c
      PROVE  detacher'[c] = detacher[c] /\ (attached[c] => attached'[c])
  BY <1>0, <1>4 DEF DetacherStep, StartDetach, FindSession, Leave, TypeOK
<1>5. CASE StartDetach(c)
  <2>1. detacher[c].op = "waiting" /\ attached[c]
    BY <1>5 DEF StartDetach, WillLeave, Busy
  <2>2. detacher'[c].op = "detaching"
    BY <1>0, <1>5, <2>1 DEF StartDetach, Busy, TypeOK
  <2>3. QED
    BY <2>2 DEF WillLeave
<1>6. CASE FindSession(c)
  <2>1. detacher'[c] = Busy("leaving", s)
    BY <1>0, <1>1, <1>6 DEF FindSession, TypeOK
  <2>2. QED
    BY <2>1 DEF WillLeave
<1>7. CASE Leave(c)
  BY <1>7 DEF Leave, WillLeave, Busy
<1>8. ASSUME NEW x \in Client, ViewStep(x)
      PROVE  UNCHANGED <<detacher, attached>>
  BY <1>8 DEF ViewStep, Hear, PressTakeover, PressKey, Press, CloseChannel
<1>9. ASSUME NEW t \in Session, ShellExits(t) \/ PumpStep(t)
      PROVE  detacher'[c] = detacher[c] /\ (attached[c] => attached'[c])
  <2>1. ASSUME NEW x \in Client, TellExit(t, x)
        PROVE  detacher' = detacher /\ attached'[c] = attached[c]
    BY <1>0, <1>1, <2>1 DEF TellExit, TypeOK
  <2>2. CASE ShellExits(t) \/ Unmap(t) \/ ClearClients(t)
    BY <2>2 DEF ShellExits, Unmap, ClearClients, channelVars
  <2>3. QED
    BY <1>9, <2>1, <2>2 DEF PumpStep
<1>10. CASE TypeSpawns \/ UNCHANGED vars
  BY <1>2, <1>10 DEF TypeSpawns, channelVars, vars
<1>11. QED
  BY <1>2, <1>3, <1>4, <1>5, <1>6, <1>7, <1>8, <1>9, <1>10 DEF Next, DetacherStep

LEMMA AttendedStep == SInv /\ [Next]_vars => Attended'
<1> SUFFICES ASSUME SInv, [Next]_vars, NEW c \in Client, NEW s \in Session, Watches(c, s)'
             PROVE  WillLeave(c, s)' \/ c \in late'[s]
  BY DEF Attended
<1>0. TypeOK /\ clients[s] \in Seq(Client) /\ Distinct(clients[s])
  BY DEF SInv, Inv, TypeOK, NoTwice
<1>1. CASE Join(c) /\ handler[c].s = s
  <2>1. /\ UNCHANGED <<attached, detacher>>
        /\ late' = IF WillLeave(c, s) THEN late ELSE [late EXCEPT ![s] = @ \cup {c}]
    BY <1>1 DEF Join
  <2>2. WillLeave(c, s)' <=> WillLeave(c, s)
    BY <2>1 DEF WillLeave
  <2>3. QED
    BY <1>0, <2>1, <2>2 DEF TypeOK
<1>2. CASE Watches(c, s)
  <2>1. CASE c \in late[s]
    BY <2>1, LateStep
  <2>2. CASE WillLeave(c, s)
    <3>1. ASSUME Leave(c), detacher[c].s = s PROVE FALSE
      <4>1. clients'[s] = Without(clients[s], c)
        BY <1>0, <3>1 DEF Leave, TypeOK
      <4>2. QED
        BY <1>0, <4>1, DistinctWithout DEF Watches
    <3>2. QED
      BY <1>2, <2>2, <3>1, WillLeaveStep
  <2>3. QED
    BY <1>2, <2>1, <2>2 DEF SInv, Attended
<1>3. QED
  BY <1>1, <1>2, WatchesStep

(***************************************************************************)
(* The writer's size is on its way until the shell has it.                 *)
(***************************************************************************)
Comes(c, s) ==
  size[s] = c \/ Rising(c) \/ Says(c, "resize") \/ handler[c] = Busy("resizing", s)

(* A view whose role will rise to writer still will, or has and says so. *)
LEMMA RisingStep ==
  ASSUME SInv, [Next]_vars, NEW c \in Client, open'[c], Rising(c)
  PROVE  Rising(c)' \/ Says(c, "resize")'
<1>0. TypeOK /\ inbox[c] \in Seq(Message) /\ "resize" \in Message
  BY DEF SInv, Inv, TypeOK, Message
<1>1. CASE news'[c] = news[c]
  BY <1>1 DEF Rising
<1>2. ASSUME NEW says, Tell(says), \A y \in Client : y \in DOMAIN says => says[y] \in Belief
      PROVE  Rising(c)'
  BY <1>0, <1>2, TellSays
<1>3. ASSUME NEW x \in Client, Hear(x)
      PROVE  Rising(c)' \/ Says(c, "resize")'
  <2>1. In(Append(inbox[c], "resize"), "resize")
    BY <1>0, InAppend
  <2>2. QED
    BY <1>0, <1>3, <2>1, HearSays DEF Says
<1>4. ASSUME NEW x \in Client, CloseChannel(x)
      PROVE  news'[c] = news[c]
  BY <1>0, <1>4 DEF CloseChannel, TypeOK
<1>5. ASSUME NEW x \in Client, Join(x) \/ TakeOver(x) \/ Leave(x)
      PROVE  Rising(c)'
  <2>1. CASE Join(x)
    <3>1. PICK says : Tell(says) /\ \A y \in Client : y \in DOMAIN says => says[y] \in Belief
      BY <1>0, <2>1, JoinTells
    <3>2. QED
      BY <1>2, <3>1
  <2>2. CASE TakeOver(x)
    <3> DEFINE t == handler[x].s
               prev == writer[t]
               says == [y \in {x} \cup ({prev} \ {None}) |->
                          Role(y, IF y = x THEN "writer" ELSE "viewer", t)]
    <3>1. /\ prev # x => Tell(says)
          /\ prev = x => news' = news
          /\ \A y \in Client : y \in DOMAIN says => says[y] \in Belief
      BY <1>0, <2>2, TakeOverTells
    <3> HIDE DEF says
    <3>2. QED
      BY <1>2, <3>1 DEF Rising
  <2>3. CASE Leave(x)
    <3> DEFINE t == detacher[x].s
               rest == Without(clients[t], x)
               heir == IF rest = <<>> THEN None ELSE rest[Len(rest)]
               says == [y \in {heir} \ {None} |-> Role(y, "writer", t)]
    <3>1. /\ writer[t] = x => Tell(says)
          /\ writer[t] # x => news' = news
          /\ \A y \in Client : y \in DOMAIN says => says[y] \in Belief
      BY <1>0, <2>3, LeaveTells
    <3> HIDE DEF says
    <3>2. QED
      BY <1>2, <3>1 DEF Rising
  <2>4. QED
    BY <1>5, <2>1, <2>2, <2>3
<1>6. ASSUME NEW s \in Session, NEW x \in Client, TellExit(s, x)
      PROVE  Rising(c)'
  <2>1. PICK says : Tell(says) /\ \A y \in Client : y \in DOMAIN says => says[y] \in Belief
    BY <1>0, <1>6, ExitTells
  <2>2. QED
    BY <1>2, <2>1
<1>7. QED
  BY <1>1, <1>3, <1>4, <1>5, <1>6, NewsStep DEF Rising

(* A resize that is queued stays so until the handler takes it. *)
LEMMA ResizeStep ==
  ASSUME SInv, [Next]_vars, NEW c \in Client, NEW s \in Session,
         phase[s] = "running", open'[c], Says(c, "resize")
  PROVE  Says(c, "resize")' \/ handler'[c] = Busy("resizing", s)
<1>0. TypeOK /\ inbox[c] \in Seq(Message) /\ "resize" \in Message
  BY DEF SInv, Inv, TypeOK, Message
<1>1. CASE inbox'[c] = inbox[c]
  BY <1>1 DEF Says
<1>2. ASSUME NEW x \in Client, ViewStep(x)
      PROVE  Says(c, "resize")'
  <2>1. CASE Hear(x)
    <3>1. inbox'[c] = inbox[c] \/ inbox'[c] = Append(inbox[c], "resize")
      BY <1>0, <2>1 DEF Hear, TypeOK
    <3>2. In(Append(inbox[c], "resize"), "resize")
      BY <1>0, InAppend
    <3>3. QED
      BY <1>1, <3>1, <3>2 DEF Says
  <2>2. CASE PressTakeover(x) \/ PressKey(x)
    <3>1. inbox[x] = <<>> /\ (x # c => inbox'[c] = inbox[c])
      BY <1>0, <2>2 DEF PressTakeover, PressKey, Press, TypeOK
    <3>2. ~In(<<>>, "resize")
      BY InOne
    <3>3. QED
      BY <3>1, <3>2 DEF Says
  <2>3. CASE CloseChannel(x)
    <3>1. inbox'[c] = inbox[c]
      BY <1>0, <2>3 DEF CloseChannel, TypeOK
    <3>2. QED
      BY <3>1 DEF Says
  <2>4. QED
    BY <1>2, <2>1, <2>2, <2>3 DEF ViewStep
<1>3. ASSUME NEW x \in Client, NEW m, Take(x, m), Drop(x), m # "resize"
      PROVE  Says(c, "resize")'
  <2>1. /\ x # c => inbox'[c] = inbox[c]
        /\ In(inbox[x], "resize") => In(inbox'[x], "resize")
    BY <1>0, <1>3, DropSays
  <2>2. QED
    BY <2>1 DEF Says
<1>4. ASSUME NEW x \in Client, HandleResize(x)
      PROVE  inbox'[c] = inbox[c] \/ handler'[c] = Busy("resizing", s)
  <2>1. LookUp(x, "resize", "resizing")
    BY <1>4 DEF HandleResize
  <2>2. current = s /\ current # NoSession
    BY MaxSpawnAssumption DEF SInv, Inv, LiveIsCurrent, Session, NoSession
  <2>3. x = c => handler'[c] = Busy("resizing", s)
    BY <1>0, <2>1, <2>2 DEF LookUp, TypeOK
  <2>4. x # c => inbox'[c] = inbox[c]
    BY <1>0, <2>1, DropSays DEF LookUp
  <2>5. QED
    BY <2>3, <2>4
<1>5. ASSUME NEW x \in Client, HandlerStep(x)
      PROVE  \/ inbox' = inbox \/ HandleResize(x)
             \/ \E m : Take(x, m) /\ Drop(x) /\ m # "resize"
  <2>1. CASE HandleAttach(x) \/ HandleTakeover(x) \/ HandleInput(x)
    <3>1. \E m \in {"attach", "takeover", "input"} : Take(x, m) /\ Drop(x)
      BY <2>1 DEF HandleAttach, HandleTakeover, HandleInput, LookUp
    <3>2. QED
      BY <3>1
  <2>2. CASE ~(HandleAttach(x) \/ HandleTakeover(x) \/ HandleInput(x))
    BY <1>5, <2>2 DEF HandlerStep, GetOrSpawn, SpawnFails, Join, TakeOver, Resize, CheckWriter, WriteKeys
  <2>3. QED
    BY <2>1, <2>2
<1>6. ASSUME NEW x \in Client, DetacherStep(x)
      PROVE  inbox' = inbox
  BY <1>6 DEF DetacherStep, StartDetach, FindSession, Leave
<1>7. ASSUME NEW t \in Session, ShellExits(t) \/ PumpStep(t)
      PROVE  inbox' = inbox
  BY <1>7 DEF ShellExits, PumpStep, Unmap, ClearClients, TellExit, channelVars
<1>8. CASE TypeSpawns \/ UNCHANGED vars
  BY <1>1, <1>8 DEF TypeSpawns, channelVars, vars
<1>9. QED
  BY <1>1, <1>2, <1>3, <1>4, <1>5, <1>6, <1>7, <1>8 DEF Next

(* A resize that is being handled gives the shell its writer's size, and a   *)
(* shell that has it keeps it while the writer stays.                        *)
LEMMA SizeStep ==
  ASSUME SInv, [Next]_vars, NEW c \in Client, NEW s \in Session,
         phase[s] = "running", writer[s] = c, writer'[s] = c,
         size[s] = c \/ handler[c] = Busy("resizing", s)
  PROVE  size'[s] = c \/ handler'[c] = Busy("resizing", s)
<1>0. TypeOK /\ current = s /\ current # NoSession
  BY MaxSpawnAssumption DEF SInv, Inv, LiveIsCurrent, Session, NoSession
<1>1. CASE size'[s] = size[s] /\ handler'[c] = handler[c]
  BY <1>1
<1>2. ASSUME NEW x \in Client, Resize(x)
      PROVE  size'[s] = c \/ handler'[c] = Busy("resizing", s)
  <2>1. /\ size' = IF writer[handler[x].s] = x THEN [size EXCEPT ![handler[x].s] = x] ELSE size
        /\ x # c => handler'[c] = handler[c]
    BY <1>0, <1>2 DEF Resize, TypeOK
  <2>2. CASE size[s] = c
    BY <1>0, <2>1, <2>2 DEF TypeOK
  <2>3. CASE handler[c] = Busy("resizing", s)
    <3>1. x = c => size'[s] = c
      BY <1>0, <2>1, <2>3 DEF Busy, TypeOK
    <3>2. QED
      BY <2>1, <2>3, <3>1
  <2>4. QED
    BY <2>2, <2>3
<1>3. ASSUME NEW x \in Client, HandlerStep(x), ~Resize(x)
      PROVE  size'[s] = c \/ handler'[c] = Busy("resizing", s)
  <2>1. handler[c] = Busy("resizing", s) => handler'[c] = handler[c]
    <3>1. handler[c] = Busy("resizing", s) => handler[c].op = "resizing" /\ handler[c] # Idle
      BY DEF Busy, Idle
    <3>2. x = c => handler[c] = Idle \/ handler[c].op \in {"attaching", "joining", "taking", "checking", "typing"}
      BY <1>3 DEF HandlerStep, HandleAttach, GetOrSpawn, SpawnFails, Join, HandleTakeover, TakeOver,
         HandleResize, HandleInput, CheckWriter, WriteKeys, LookUp, Take
    <3>3. x # c => handler'[c] = handler[c]
      BY <1>0, <1>3 DEF HandlerStep, HandleAttach, GetOrSpawn, SpawnFails, Join, HandleTakeover, TakeOver,
         HandleResize, HandleInput, CheckWriter, WriteKeys, LookUp, TypeOK
    <3>4. QED
      BY <3>1, <3>2, <3>3
  <2>2. CASE TakeOver(x)
    <3>1. \/ UNCHANGED <<writer, size>>
          \/ /\ writer' = [writer EXCEPT ![handler[x].s] = x]
             /\ size' = [size EXCEPT ![handler[x].s] = x]
      BY <2>2 DEF TakeOver
    <3>2. size'[s] = size[s] \/ size'[s] = c
      BY <1>0, <3>1 DEF TypeOK
    <3>3. QED
      BY <2>1, <3>2
  <2>3. CASE ~TakeOver(x)
    <3>1. size' = size
      BY <1>0, <1>3, <2>3 DEF HandlerStep, HandleAttach, GetOrSpawn, Spawn, SpawnFails, Join,
         HandleTakeover, HandleResize, HandleInput, CheckWriter, WriteKeys, LookUp, sessionVars
    <3>2. QED
      BY <2>1, <3>1
  <2>4. QED
    BY <2>2, <2>3
<1>4. ASSUME NEW x \in Client, ViewStep(x) \/ DetacherStep(x)
      PROVE  UNCHANGED <<size, handler>>
  BY <1>4 DEF ViewStep, Hear, PressTakeover, PressKey, Press, CloseChannel, DetacherStep,
     StartDetach, FindSession, Leave, sessionVars
<1>5. ASSUME NEW t \in Session, ShellExits(t) \/ PumpStep(t)
      PROVE  UNCHANGED <<size, handler>>
  BY <1>5 DEF ShellExits, PumpStep, Unmap, ClearClients, TellExit, channelVars
<1>6. ~TypeSpawns
  BY <1>0 DEF TypeSpawns, Spawn
<1>7. QED
  BY <1>1, <1>2, <1>3, <1>4, <1>5, <1>6 DEF Next, vars

LEMMA SizeComesStep == SInv /\ [Next]_vars => SizeComes'
<1> SUFFICES ASSUME SInv, [Next]_vars, NEW c \in Client, NEW s \in Session,
                    phase'[s] = "running", writer'[s] = c, open'[c]
             PROVE  Comes(c, s)'
  BY DEF SizeComes, Comes
<1>1. TypeOK /\ open[c]
  BY OpenStep DEF SInv, Inv
<1>2. phase[s] = "running"
  BY RunningStep, EmptyStep, NoneAssumption
<1>3. CASE writer[s] = c
  <2>1. Comes(c, s)
    BY <1>1, <1>2, <1>3 DEF SInv, SizeComes, Comes
  <2>2. QED
    BY <1>2, <1>3, <2>1, RisingStep, ResizeStep, SizeStep DEF Comes
<1>4. CASE writer[s] # c
  <2>1. CASE Said(c).role # "writer"
    BY <1>1, <1>4, <2>1, NewWriterIsTold DEF Comes
  <2>2. CASE Said(c).role = "writer"
    <3>1. ~Join(c)
      BY <2>2, JoinsNew
    <3>2. CASE TakeOver(c) /\ handler[c].s = s
      BY <1>1, <1>4, <3>2 DEF TakeOver, TypeOK, Comes
    <3>3. CASE In(clients[s], c)
      <4>1. Said(c).s = s
        BY <1>2, <2>2, <3>3 DEF SInv, InItsSession, Watches
      <4>2. writer[s] = c
        BY <1>1, <1>2, <2>2, <4>1 DEF SInv, Inv, SaidAgreement
      <4>3. QED
        BY <1>4, <4>2
    <3>4. QED
      BY <1>4, <3>1, <3>2, <3>3, WriterStep
  <2>3. QED
    BY <2>1, <2>2
<1>5. QED
  BY <1>3, <1>4

THEOREM TermSizeInvariant == Spec => []SInv
<1>1. Init => SInv
  <2> SUFFICES ASSUME Init PROVE SInv
    OBVIOUS
  <2>1. Inv
    BY MaxSpawnAssumption, MaxPressAssumption
       DEF Init, Inv, TypeOK, LiveIsCurrent, DetachedIsClosed, Written, SaidAgreement, Said,
           Session, NoSession, Idle, Busy, NoBelief, Belief, Message, HandlerOp, DetacherOp
  <2>2. \A x : ~In(<<>>, x)
    BY InOne
  <2>3. AttachesOnce
    BY <2>2, NoneAssumption DEF Init, AttachesOnce, NewClient, Unknown, Idle
  <2>4. OneSession /\ NoTwice /\ InItsSession /\ Knows /\ Attended
    BY <2>2 DEF Init, OneSession, NoTwice, Distinct, InItsSession, Knows, Attended, Watches
  <2>5. Numbered
    BY MaxSpawnAssumption DEF Init, Numbered, Idle, Busy, NoSession, Session
  <2>6. SizeComes /\ WriterWatches
    BY NoneAssumption DEF Init, SizeComes, WriterWatches
  <2>7. QED
    BY <2>1, <2>3, <2>4, <2>5, <2>6 DEF SInv
<1>2. SInv /\ [Next]_vars => SInv'
  <2>1. Inv /\ [Next]_vars => Inv'
    BY TypeStep, LiveStep, DetachedStep, RoleStep DEF Inv
  <2>2. QED
    BY <2>1, OnceStep, OneSessionStep, NoTwiceStep, NumberedStep, InItsSessionStep, KnowsStep,
       WriterWatchesStep, AttendedStep, SizeComesStep DEF SInv
<1>3. QED
  BY <1>1, <1>2, PTL DEF Spec

(* A live shell that is watched is written by one of its watchers, and one  *)
(* whose departure will be noticed, but for the late clients.               *)
THEOREM TermHeadedSession == Spec => []HeadedSession
<1>1. SInv => HeadedSession
  <2> SUFFICES ASSUME SInv, NEW s \in Session,
                      phase[s] = "running", clients[s] # <<>>, writer[s] \notin late[s]
               PROVE  writer[s] \in ClientSet(s) /\ WillLeave(writer[s], s)
    BY DEF HeadedSession
  <2>1. writer[s] \in Client
    BY DEF SInv, Inv, TypeOK, Written
  <2>2. In(clients[s], writer[s])
    BY <2>1 DEF SInv, WriterWatches
  <2>3. WillLeave(writer[s], s)
    BY <2>1, <2>2 DEF SInv, Attended, Watches
  <2>4. QED
    BY <2>2, <2>3, ClientSetIn
<1>2. QED
  BY <1>1, TermSizeInvariant, PTL

(* A view that has heard all it was told believes it writes just the shell  *)
(* it writes.                                                               *)
THEOREM TermRoleAgreement == Spec => []RoleAgreement
<1>1. SInv => RoleAgreement
  <2> SUFFICES ASSUME SInv, NEW c \in Client, NEW s \in Session, open[c], Heard(c)
               PROVE  LET believes == Told(c).role = "writer" /\ Told(c).s = s
                      IN /\ believes /\ phase[s] # "ended" => writer[s] = c
                         /\ writer[s] = c /\ c \in ClientSet(s) /\ phase[s] = "running" => believes
    BY DEF RoleAgreement
  <2>1. Told(c) = Said(c)
    BY DEF Told, Said, Heard, SInv, Inv, TypeOK
  <2>2. Said(c).role = "writer" /\ Said(c).s = s /\ phase[s] # "ended" => writer[s] = c
    BY DEF SInv, Inv, SaidAgreement
  <2>3. ASSUME writer[s] = c, c \in ClientSet(s), phase[s] = "running"
        PROVE  Said(c).role = "writer" /\ Said(c).s = s
    <3>1. Watches(c, s)
      BY <2>3, ClientSetIn DEF Watches
    <3>2. QED
      BY <2>3, <3>1 DEF SInv, Knows, InItsSession
  <2>4. QED
    BY <2>1, <2>2, <2>3
<1>2. QED
  BY <1>1, TermSizeInvariant, PTL

(* Once every message has been handled, a live shell has the size of the   *)
(* connected client that writes it.                                        *)
THEOREM TermSizeFollowsWriter == Spec => []SizeFollowsWriter
<1>1. SInv => SizeFollowsWriter
  <2> SUFFICES ASSUME SInv, Quiet, NEW s \in Session,
                      phase[s] = "running", writer[s] # None, open[writer[s]]
               PROVE  size[s] = writer[s]
    BY DEF SizeFollowsWriter
  <2>1. writer[s] \in Client
    BY DEF SInv, Inv, TypeOK
  <2>2. handler[writer[s]] = Idle /\ inbox[writer[s]] = <<>> /\ Heard(writer[s])
    BY <2>1 DEF Quiet
  <2>3. Idle # Busy("resizing", s) /\ ~In(<<>>, "resize")
    BY InOne DEF Idle, Busy
  <2>4. ~Rising(writer[s])
    BY <2>2 DEF Heard, Rising
  <2>5. QED
    BY <2>1, <2>2, <2>3, <2>4 DEF SInv, SizeComes, Says
<1>2. QED
  BY <1>1, TermSizeInvariant, PTL
=============================================================================
