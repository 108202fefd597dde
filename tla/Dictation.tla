------------------------------ MODULE Dictation ------------------------------
(* Dictating into the composer (apps/web/src/lib/dictation.ts): the microphone *)
(* is recorded in chunks, sent over a socket to the Worker (routes/speech.ts), *)
(* which sends text back. The browser asks for the microphone, opens the       *)
(* socket, and hands over chunks and the end of the recording, in its own time.*)
EXTENDS Integers, Sequences

CONSTANTS
  MaxStart,  \* bound on calls of start
  MaxChunk   \* bound on chunks of one recording, the last one included

ASSUME DictationAssumption == MaxStart \in Nat \ {0} /\ MaxChunk \in Nat \ {0}

VARIABLES
  dictation,  \* by call of start, its stream, recorder, socket and timers
  dictations, \* calls of start made
  currentCall, \* session.current: the call whose session it is, 0 for null
  shown,      \* the hook's state, which the buttons follow
  mounted     \* whether the composer is there

dictVars == <<dictation, dictations, currentCall, shown, mounted>>

Dict == 1 .. MaxStart
Chunk == 1 .. MaxChunk
\* The recorder's stop event, and the message "stop".
Stop == 0
\* await: getUserMedia is pending. queue: what the recorder has yet to hand over.
\* sent: history, what went over the socket. given: history, times onText was called.
DictState ==
  [await : BOOLEAN, mic : BOOLEAN, rec : {"none", "recording", "inactive"}, chunks : 0 .. MaxChunk,
   queue : Seq(Chunk \cup {Stop}), ws : {"none", "connecting", "open", "closed"},
   pending : Seq(Chunk), sent : Seq(Chunk \cup {Stop}), heard : BOOLEAN, discard : BOOLEAN,
   done : BOOLEAN, finishing : BOOLEAN, given : 0 .. 2]

NoDict == [await |-> FALSE, mic |-> FALSE, rec |-> "none", chunks |-> 0, queue |-> <<>>, ws |-> "none",
           pending |-> <<>>, sent |-> <<>>, heard |-> FALSE, discard |-> FALSE, done |-> FALSE,
           finishing |-> FALSE, given |-> 0]

DictInit ==
  /\ dictation = [a \in Dict |-> NoDict] /\ dictations = 0
  /\ currentCall = 0 /\ shown = "idle" /\ mounted = TRUE

-----------------------------------------------------------------------------

\* rec.stop(), or its stream has ended: the last chunk and the end are handed over later.
RecStopped(d) ==
  IF d.rec # "recording" THEN d
  ELSE [d EXCEPT !.rec = "inactive", !.chunks = @ + 1, !.queue = @ \o <<d.chunks + 1, Stop>>]

\* end: once. What was heard is given to the composer, unless it is discarded.
Ended(d) ==
  IF d.done THEN d
  ELSE [RecStopped(d) EXCEPT !.done = TRUE, !.mic = FALSE, !.ws = "closed", !.finishing = FALSE,
                             !.given = IF ~d.discard /\ d.heard THEN @ + 1 ELSE @]

End(a, d) ==
  /\ dictation' = [dictation EXCEPT ![a] = Ended(d)]
  /\ IF d.done THEN UNCHANGED <<currentCall, shown>> ELSE currentCall' = 0 /\ shown' = "idle"

Sets(a, d) == dictation' = [dictation EXCEPT ![a] = d] /\ UNCHANGED <<currentCall, shown>>

-----------------------------------------------------------------------------
(* The composer's buttons. *)

\* start: nothing marks the wait for the microphone.
StartDictation ==
  /\ mounted /\ shown = "idle" /\ currentCall = 0 /\ dictations < MaxStart
  /\ dictations' = dictations + 1
  /\ dictation' = [dictation EXCEPT ![dictations'].await = TRUE]
  /\ UNCHANGED <<currentCall, shown, mounted>>

StopDictation ==
  /\ mounted /\ shown = "recording" /\ currentCall # 0 /\ dictation[currentCall].rec = "recording"
  /\ Sets(currentCall, RecStopped(dictation[currentCall]))
  /\ UNCHANGED <<dictations, mounted>>

Cancelled ==
  IF currentCall = 0 THEN UNCHANGED <<dictation, currentCall, shown>>
  ELSE End(currentCall, [dictation[currentCall] EXCEPT !.discard = TRUE])

CancelDictation ==
  /\ mounted /\ shown = "recording" /\ Cancelled
  /\ UNCHANGED <<dictations, mounted>>

\* The thread is left, and its composer with it.
LeaveThread ==
  /\ mounted /\ mounted' = FALSE /\ Cancelled
  /\ UNCHANGED dictations

-----------------------------------------------------------------------------
(* The browser and the Worker. *)

\* getUserMedia fails, or gives a stream that is recorded at once.
MicDenied(a) ==
  /\ dictation[a].await
  /\ Sets(a, [dictation[a] EXCEPT !.await = FALSE])
  /\ UNCHANGED <<dictations, mounted>>

MicOpens(a) ==
  /\ dictation[a].await
  /\ dictation' = [dictation EXCEPT ![a] = [@ EXCEPT !.await = FALSE, !.mic = TRUE, !.rec = "recording",
                                                      !.ws = "connecting"]]
  /\ currentCall' = a /\ shown' = "recording"
  /\ UNCHANGED <<dictations, mounted>>

\* Another chunk of the recording. The last place is left to the one that stop makes.
Recorded(a) ==
  /\ dictation[a].rec = "recording" /\ dictation[a].chunks < MaxChunk - 1
  /\ Sets(a, [dictation[a] EXCEPT !.chunks = @ + 1, !.queue = Append(@, dictation[a].chunks + 1)])
  /\ UNCHANGED <<dictations, mounted>>

\* MAX_RECORDING_MS, a timer that end clears; or the microphone is unplugged.
RecordingEnds(a) ==
  /\ dictation[a].rec = "recording" /\ ~dictation[a].done
  /\ Sets(a, RecStopped(dictation[a]))
  /\ UNCHANGED <<dictations, mounted>>

\* Fault: what is recorded before the socket is open is not kept.
DropsEarlyChunk(a) ==
  LET d == dictation[a]
  IN /\ d.queue # <<>> /\ Head(d.queue) # Stop
     /\ Sets(a, [d EXCEPT !.queue = Tail(@),
                          !.sent = IF d.discard \/ d.ws # "open" THEN @ ELSE Append(@, Head(d.queue))])
     /\ UNCHANGED <<dictations, mounted>>

\* ondataavailable
ChunkHandedOver(a) ==
  LET d == dictation[a]
      c == Head(d.queue)
  IN /\ d.queue # <<>> /\ c # Stop
     /\ Sets(a, IF d.discard THEN [d EXCEPT !.queue = Tail(@)]
                ELSE IF d.ws = "open" THEN [d EXCEPT !.queue = Tail(@), !.sent = Append(@, c)]
                ELSE [d EXCEPT !.queue = Tail(@), !.pending = Append(@, c)])
     /\ UNCHANGED <<dictations, mounted>>

\* Fault: the end is waited for only if the socket is there to tell it.
OnStopNoTimer(a) ==
  LET d == dictation[a]
      q == [d EXCEPT !.queue = Tail(@)]
  IN /\ d.queue # <<>> /\ Head(d.queue) = Stop
     /\ IF d.discard \/ d.done THEN Sets(a, q)
        ELSE /\ dictation' = [dictation EXCEPT ![a] =
                  IF d.ws = "open" THEN [q EXCEPT !.finishing = TRUE, !.sent = Append(@, Stop)] ELSE q]
             /\ shown' = "finishing" /\ UNCHANGED currentCall
     /\ UNCHANGED <<dictations, mounted>>

\* onstop
OnStop(a) ==
  LET d == dictation[a]
      q == [d EXCEPT !.queue = Tail(@)]
  IN /\ d.queue # <<>> /\ Head(d.queue) = Stop
     /\ IF d.discard \/ d.done THEN Sets(a, q)
        ELSE /\ dictation' = [dictation EXCEPT ![a] =
                  [q EXCEPT !.finishing = TRUE, !.sent = IF d.ws = "open" THEN Append(@, Stop) ELSE @]]
             /\ shown' = "finishing" /\ UNCHANGED currentCall
     /\ UNCHANGED <<dictations, mounted>>

\* FINISH_TIMEOUT_MS after onstop.
FinishTimeout(a) ==
  /\ dictation[a].finishing /\ End(a, dictation[a])
  /\ UNCHANGED <<dictations, mounted>>

\* onopen
SpeechOpens(a) ==
  LET d == dictation[a]
  IN /\ d.ws = "connecting"
     /\ Sets(a, [d EXCEPT !.ws = "open", !.pending = <<>>,
                          !.sent = @ \o d.pending \o (IF d.rec = "inactive" THEN <<Stop>> ELSE <<>>)])
     /\ UNCHANGED <<dictations, mounted>>

\* onmessage: the Worker sends what it made of the recording.
SpeechHeard(a) ==
  /\ dictation[a].ws = "open" /\ ~dictation[a].heard /\ dictation[a].sent # <<>>
  /\ Sets(a, [dictation[a] EXCEPT !.heard = TRUE])
  /\ UNCHANGED <<dictations, mounted>>

\* onclose: after the last words, by a failure, or by the Worker's time limit.
SpeechCloses(a) ==
  /\ dictation[a].ws \in {"connecting", "open"}
  /\ End(a, [dictation[a] EXCEPT !.ws = "closed"])
  /\ UNCHANGED <<dictations, mounted>>

-----------------------------------------------------------------------------

DictNext ==
  \/ StartDictation \/ StopDictation \/ CancelDictation \/ LeaveThread
  \/ \E a \in Dict :
       \/ MicDenied(a) \/ MicOpens(a) \/ Recorded(a) \/ RecordingEnds(a)
       \/ ChunkHandedOver(a) \/ OnStop(a) \/ FinishTimeout(a)
       \/ SpeechOpens(a) \/ SpeechHeard(a) \/ SpeechCloses(a)

DictSpec == DictInit /\ [][DictNext]_dictVars

\* Timers fire, and the recorder hands over what it has.
DictFairness ==
  \A a \in Dict : /\ WF_dictVars(RecordingEnds(a)) /\ WF_dictVars(FinishTimeout(a))
                  /\ WF_dictVars(ChunkHandedOver(a)) /\ WF_dictVars(OnStop(a))

DictTypeOK ==
  /\ dictation \in [Dict -> DictState] /\ dictations \in 0 .. MaxStart
  /\ currentCall \in 0 .. MaxStart /\ shown \in {"idle", "recording", "finishing"} /\ mounted \in BOOLEAN

\* Each chunk is there once and after all that come before it (Stop, 0, is none of them).
InOrder(s) ==
  /\ \A i, j \in DOMAIN s : i < j /\ s[j] # Stop => s[i] < s[j]
  /\ \A i \in DOMAIN s : \A c \in 1 .. s[i] : \E j \in 1 .. i : s[j] = c

\* "the first chunk holds the container header, so none can be dropped"
\* (dictation.ts:87): the socket carries a prefix of the recording, whichever of the
\* chunks came before it was open; and the text joins the draft once at most.
ChunksInOrder == \A a \in Dict : InOrder(dictation[a].sent) /\ dictation[a].given <= 1

\* A recording ends without anybody's help: its microphone does not stay open, though
\* the socket never opens or never closes.
RecordingIsBounded == \A a \in Dict : [](dictation[a].mic => <>~dictation[a].mic)
=============================================================================
