-------------------------------- MODULE Voice --------------------------------
(* The assistant's microphone (apps/web/src/lib/assistant/voice.ts and         *)
(* voice-live.ts) in the tabs of one account: turning it on takes several      *)
(* awaits, turning it off takes none, and a tab whose voice is on tells the    *)
(* others, which turn theirs off. What is heard and spoken is left out.        *)
EXTENDS Integers, FiniteSets

CONSTANTS
  Window,    \* the tabs with a voice, all connected to the Assistant object
  Engine,    \* voices they may have: "flux" (Workers AI) and "live" (GPT-Live)
  MaxTurnOn, \* bound on starts of each tab
  MaxTurnOff \* bound on stops by the user and lost connections, of all tabs together

ASSUME VoiceAssumption ==
  Engine \subseteq {"flux", "live"} /\ MaxTurnOn \in Nat \ {0} /\ MaxTurnOff \in Nat

VARIABLES
  voice,     \* by tab
  turnOffs,
  cutShort   \* history: tabs whose voice was stopped while a start was running

voiceVars == <<voice, turnOffs, cutShort>>

Begin == 1 .. MaxTurnOn
\* A start (by number) is at an await, or over. link: its socket, or peer connection.
\* mic: its microphone is open. stream, conn: which start's the engine has.
VoiceState ==
  [engine : Engine, on : {"off", "starting", "listening"}, begun : 0 .. MaxTurnOn,
   at : [Begin -> {"none", "check", "mic", "worklet", "connect", "over"}],
   mic : [Begin -> BOOLEAN], link : [Begin -> {"none", "connecting", "open", "closing", "closed"}],
   stream : 0 .. MaxTurnOn, conn : 0 .. MaxTurnOn, heard : Nat]

VoiceInit ==
  /\ voice \in [Window -> {[engine |-> e, on |-> "off", begun |-> 0, at |-> [k \in Begin |-> "none"],
                            mic |-> [k \in Begin |-> FALSE], link |-> [k \in Begin |-> "none"],
                            stream |-> 0, conn |-> 0, heard |-> 0] : e \in Engine}]
  /\ turnOffs = 0 /\ cutShort = {}

-----------------------------------------------------------------------------

\* stop, of either engine: what the engine has is let go. Another start's is not.
Stopped(v) ==
  [v EXCEPT !.on = "off", !.stream = 0, !.conn = 0,
            !.mic = [k \in Begin |-> @[k] /\ k # v.stream],
            !.link = [k \in Begin |-> IF k # v.conn THEN @[k]
                                      ELSE IF v.engine = "flux" /\ @[k] = "connecting" THEN "closing" ELSE "closed"]]

Running(v) == {k \in Begin : v.at[k] \notin {"none", "over"}}

\* Tab w becomes v, having stopped in between or not; a start that is done with the
\* voice on tells the other tabs (voiceOn).
VoiceBecomes(w, v) ==
  /\ voice' = [voice EXCEPT ![w] = v]
  /\ UNCHANGED cutShort
StopsAt(w, v) ==
  /\ voice' = [voice EXCEPT ![w] = Stopped(v)]
  /\ cutShort' = IF Running(v) = {} THEN cutShort ELSE cutShort \cup {w}

\* Fault: the others are not told.
DoneQuietly(w, v) ==
  /\ voice' = [voice EXCEPT ![w] = v]
  /\ UNCHANGED cutShort
Done(w, v) ==
  /\ voice' = [x \in Window |-> IF x = w THEN v
                                ELSE IF v.on # "off" THEN [voice[x] EXCEPT !.heard = @ + 1]
                                ELSE voice[x]]
  /\ UNCHANGED cutShort

\* engine.start: nothing if it is on.
EngineStarts(w, v, k) ==
  IF v.on # "off" THEN Done(w, [v EXCEPT !.at[k] = "over"])
  ELSE VoiceBecomes(w, [v EXCEPT !.on = "starting", !.at[k] = "mic"])

-----------------------------------------------------------------------------

\* Voice.start. GPT-Live is asked for first.
TurnOn(w) ==
  LET v == voice[w]
      k == v.begun + 1
      u == [v EXCEPT !.begun = k]
  IN /\ v.on = "off" /\ v.begun < MaxTurnOn
     /\ IF v.engine = "live" THEN VoiceBecomes(w, [u EXCEPT !.at[k] = "check"]) ELSE EngineStarts(w, u, k)
     /\ UNCHANGED turnOffs

Checked(w, k) ==
  /\ voice[w].at[k] = "check" /\ EngineStarts(w, voice[w], k)
  /\ UNCHANGED turnOffs

\* Voice.stop
TurnOff(w) ==
  /\ voice[w].on # "off" /\ turnOffs < MaxTurnOff /\ turnOffs' = turnOffs + 1
  /\ StopsAt(w, voice[w])

\* onVoiceElsewhere
HearElsewhere(w) ==
  LET v == [voice[w] EXCEPT !.heard = @ - 1]
  IN /\ voice[w].heard > 0
     /\ IF v.on = "off" THEN VoiceBecomes(w, v) ELSE StopsAt(w, v)
     /\ UNCHANGED turnOffs

\* openMic. GPT-Live makes its connection at once.
VoiceMicOpens(w, k) ==
  LET v == voice[w]
      u == [v EXCEPT !.mic[k] = TRUE, !.stream = k]
  IN /\ v.at[k] = "mic"
     /\ VoiceBecomes(w, IF v.engine = "flux" THEN [u EXCEPT !.at[k] = "worklet"]
                   ELSE [u EXCEPT !.at[k] = "connect", !.link[k] = "connecting", !.conn = k])
     /\ UNCHANGED turnOffs

\* An await of the start fails: the engine is stopped, whoever started it.
StartThrows(w, k) ==
  LET v == voice[w]
  IN /\ v.at[k] \in {"mic", "worklet"} \/ (v.at[k] = "connect" /\ v.engine = "live")
     /\ turnOffs < MaxTurnOff /\ turnOffs' = turnOffs + 1
     /\ StopsAt(w, [v EXCEPT !.at[k] = "over"])

\* The worklet is loaded. A stop has left no stream to read; else the socket is made.
WorkletReady(w, k) ==
  LET v == voice[w]
  IN /\ v.at[k] = "worklet"
     /\ IF v.stream = 0 THEN StopsAt(w, [v EXCEPT !.at[k] = "over"])
        ELSE VoiceBecomes(w, [v EXCEPT !.at[k] = "connect", !.link[k] = "connecting", !.conn = k])
     /\ UNCHANGED turnOffs

\* Flux: the socket opens, and the voice is on.
ListenOpens(w, k) ==
  LET v == voice[w]
  IN /\ v.engine = "flux" /\ v.at[k] = "connect" /\ v.link[k] = "connecting"
     /\ Done(w, [v EXCEPT !.at[k] = "over", !.link[k] = "open", !.on = "listening"])
     /\ UNCHANGED turnOffs

\* Flux: the socket that stop closed, or that is lost.
ListenFails(w, k) ==
  LET v == voice[w]
      u == [v EXCEPT !.link[k] = "closed", !.at[k] = "over"]
  IN /\ v.engine = "flux" /\ v.link[k] \in {"connecting", "closing", "open"}
     /\ IF v.link[k] = "closing" THEN UNCHANGED turnOffs
        ELSE turnOffs < MaxTurnOff /\ turnOffs' = turnOffs + 1
     /\ IF v.at[k] = "connect" THEN StopsAt(w, u)
        ELSE IF v.conn = k /\ v.on # "off" THEN StopsAt(w, [u EXCEPT !.conn = 0])
        ELSE VoiceBecomes(w, [u EXCEPT !.conn = IF @ = k THEN 0 ELSE @])

\* GPT-Live: the answer comes. A connection that was closed takes none.
LiveAnswered(w, k) ==
  LET v == voice[w]
      u == [v EXCEPT !.at[k] = "over"]
  IN /\ v.engine = "live" /\ v.at[k] = "connect"
     /\ IF v.link[k] = "closed" THEN StopsAt(w, u)
        ELSE Done(w, [u EXCEPT !.link[k] = "open"])
     /\ UNCHANGED turnOffs

\* GPT-Live: session.started, on a connection that nobody has closed.
SessionStarted(w, k) ==
  /\ voice[w].engine = "live" /\ voice[w].link[k] = "open"
  /\ VoiceBecomes(w, [voice[w] EXCEPT !.on = "listening"])
  /\ UNCHANGED turnOffs

\* GPT-Live: its connection drops, or nothing has been said for two minutes.
LiveEnds(w) ==
  LET v == voice[w]
  IN /\ v.engine = "live" /\ turnOffs < MaxTurnOff /\ turnOffs' = turnOffs + 1
     /\ \E k \in Begin : v.link[k] \in {"connecting", "open"}
     /\ StopsAt(w, v)

VoiceNext ==
  \E w \in Window :
    \/ TurnOn(w) \/ TurnOff(w) \/ HearElsewhere(w) \/ LiveEnds(w)
    \/ \E k \in Begin :
         \/ Checked(w, k) \/ VoiceMicOpens(w, k) \/ StartThrows(w, k) \/ WorkletReady(w, k)
         \/ ListenOpens(w, k) \/ ListenFails(w, k) \/ LiveAnswered(w, k) \/ SessionStarted(w, k)

VoiceSpec == VoiceInit /\ [][VoiceNext]_voiceVars

-----------------------------------------------------------------------------

VoiceTypeOK ==
  /\ voice \in [Window -> VoiceState]
  /\ turnOffs \in 0 .. MaxTurnOff /\ cutShort \subseteq Window

Settled == \A w \in Window : Running(voice[w]) = {} /\ voice[w].heard = 0
MicOpen(w) == \E k \in Begin : voice[w].mic[k]

\* One microphone at a time, once everybody has heard of everybody, unless a voice was
\* stopped before it had started: crossing announcements turn both off, a start that
\* fails lets its microphone go, and a voice that is off has none open.
MicsSettle ==
  Settled /\ cutShort = {} =>
    /\ \A w \in Window : MicOpen(w) => voice[w].on # "off"
    /\ Cardinality({w \in Window : MicOpen(w)}) <= 1

\* "One mic at a time across the account" (SPEC.md:745).
OneMic == Settled => Cardinality({w \in Window : MicOpen(w)}) <= 1
=============================================================================
