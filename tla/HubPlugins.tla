----------------------------- MODULE HubPlugins -----------------------------
(* What the account keeps for its devices' daemons: the Claude token          *)
(* (apps/worker/src/plugins/claude.ts) and a plugin's settings                *)
(* (plugin-settings.ts), inside the hub's Durable Object. Its storage reads    *)
(* and writes are atomic; sealing and opening a value is a wait in which       *)
(* another handler may run.                                                   *)
EXTENDS Integers, FiniteSets, Sequences

CONSTANTS
  Daemon,
  TokenSet,  \* requests that set the token, each to a token of its own
  Save,      \* requests that save settings
  Key,       \* settings; a save gives one key a value of its own, or clears it
  MaxAttach, \* bound on connections of a daemon
  NoValue

ASSUME ValueAssumption == NoValue \notin TokenSet \cup Save
ASSUME AttachAssumption == MaxAttach \in Nat

VARIABLES
  token,     \* the stored token
  settings,  \* the stored settings
  setting,   \* by request, how far its handler has come
  saves,     \* by request, how far it has come and what it has read
  greeting,  \* by daemon, what the handler of its hello has read and not yet sent
  attached,  \* by daemon, whether its features are attached to a live socket
  attaches,  \* connections so far
  silent,    \* by daemon, whether the hub has not heard of it for 60 s (DEVICE_SILENT_MS)
  updates,   \* by daemon, what is on its way to it
  holds,     \* by daemon, what it holds
  given,     \* history: by daemon, the last token and the last settings sent to it
             \* since its hello
  behind     \* history: by daemon, of what it was not given a change, being silent then,
             \* or was given an older value last

pluginVars == <<token, settings, setting, saves, greeting, attached, attaches, silent,
                updates, holds, given, behind>>

TokenOrNone == TokenSet \cup {NoValue}
Values == [Key -> Save \cup {NoValue}]
NoValues == [k \in Key |-> NoValue]
Update == [t : {"token"}, v : TokenOrNone] \cup [t : {"settings"}, v : Values]

PluginInit ==
  /\ token = NoValue /\ settings = NoValues
  /\ setting = [r \in TokenSet |-> "new"]
  /\ saves = [r \in Save |-> [st |-> "new", k |-> NoValue, v |-> NoValue, cur |-> NoValues]]
  /\ greeting = [d \in Daemon |-> {}]
  /\ attached = [d \in Daemon |-> FALSE] /\ attaches = [d \in Daemon |-> 0]
  /\ updates = [d \in Daemon |-> <<>>]
  /\ holds = [d \in Daemon |-> [token |-> NoValue, settings |-> NoValues]]
  /\ silent = [d \in Daemon |-> FALSE]
  /\ given = [d \in Daemon |-> {}] /\ behind = [d \in Daemon |-> {}]

-----------------------------------------------------------------------------

Attached == {d \in Daemon : attached[d]}

\* devicesWith, and the socket that deviceRpc finds: only a daemon heard of in the last
\* 60 s counts, though a silent one's socket is still open.
Reached == {d \in Attached : ~silent[d]}

\* deviceRpc to each of ds, as far as it reaches them.
Give(ds, m) ==
  /\ updates' = [d \in Daemon |-> IF d \in ds \cap Reached THEN Append(updates[d], m) ELSE updates[d]]
  /\ given' = [d \in Daemon |-> IF d \in ds \cap Reached THEN {u \in given[d] : u.t # m.t} \cup {m}
                                                          ELSE given[d]]

\* A change is sent to every daemon that takes it. Those that are not connected are
\* told as they connect; a silent one is not told.
TellAll(m) ==
  /\ Give(Daemon, m)
  /\ behind' = [d \in Daemon |-> IF d \in Reached THEN behind[d] \ {m.t}
                                 ELSE IF attached[d] THEN behind[d] \cup {m.t} ELSE behind[d]]

(* The token. *)

\* PUT /token: the token is sealed first. DELETE /token forgets it at once.
SetToken(r) ==
  /\ setting[r] = "new"
  /\ setting' = [setting EXCEPT ![r] = "sealing"]
  /\ UNCHANGED <<token, settings, saves, greeting, attached, attaches, silent, updates, holds, given, behind>>

\* Fault: connected daemons are not given the new token.
StoreTokenQuietly(r) ==
  /\ setting[r] = "sealing"
  /\ setting' = [setting EXCEPT ![r] = "done"]
  /\ token' = r
  /\ UNCHANGED <<settings, saves, greeting, attached, attaches, silent, updates, holds, given, behind>>

\* setToken from its put on: the daemons that take the token are given it.
StoreToken(r) ==
  /\ setting[r] = "sealing"
  /\ setting' = [setting EXCEPT ![r] = "done"]
  /\ token' = r
  /\ TellAll([t |-> "token", v |-> r])
  /\ UNCHANGED <<settings, saves, greeting, attached, attaches, silent, holds>>

ForgetToken(r) ==
  /\ setting[r] = "new" /\ token # NoValue
  /\ setting' = [setting EXCEPT ![r] = "done"]
  /\ token' = NoValue
  /\ TellAll([t |-> "token", v |-> NoValue])
  /\ UNCHANGED <<settings, saves, greeting, attached, attaches, silent, holds>>

(* Settings. *)

\* set: the stored values are read, then opened. With nothing to open and nothing
\* to seal the handler does not wait.
SaveReads(r) ==
  /\ saves[r].st = "new"
  /\ \E k \in Key, v \in {r, NoValue} :
       LET waits == settings # NoValues \/ v # NoValue
       IN /\ saves' = [saves EXCEPT ![r] = [st |-> IF waits THEN "merging" ELSE "done",
                                             k |-> k, v |-> v, cur |-> settings]]
          /\ IF waits THEN UNCHANGED <<updates, given, behind>>
             ELSE TellAll([t |-> "settings", v |-> NoValues])
  /\ UNCHANGED <<token, settings, setting, greeting, attached, attaches, silent, holds>>

\* The rest of set: the change merged into what was read is sealed, stored and given.
SaveStores(r) ==
  /\ saves[r].st = "merging"
  /\ LET new == [saves[r].cur EXCEPT ![saves[r].k] = saves[r].v]
     IN /\ settings' = new
        /\ TellAll([t |-> "settings", v |-> new])
  /\ saves' = [saves EXCEPT ![r].st = "done"]
  /\ UNCHANGED <<token, setting, greeting, attached, attaches, silent, holds>>

(* Devices. *)

\* A daemon's hello: its features are attached, and the plugins' onDaemonHello read
\* what is stored; a value that has to be opened is given later.
DaemonHello(d) ==
  /\ ~attached[d] /\ attaches[d] < MaxAttach
  /\ attached' = [attached EXCEPT ![d] = TRUE] /\ attaches' = [attaches EXCEPT ![d] = @ + 1]
  /\ greeting' = [greeting EXCEPT ![d] = @
       \cup (IF token = NoValue THEN {} ELSE {[t |-> "token", v |-> token]})
       \cup (IF settings = NoValues THEN {} ELSE {[t |-> "settings", v |-> settings]})]
  /\ LET now == IF token = NoValue THEN <<[t |-> "token", v |-> NoValue]>> ELSE <<>>
     IN /\ updates' = [updates EXCEPT ![d] = now]
        /\ given' = [given EXCEPT ![d] = {now[i] : i \in DOMAIN now}]
  /\ silent' = [silent EXCEPT ![d] = FALSE] /\ behind' = [behind EXCEPT ![d] = {}]
  /\ UNCHANGED <<token, settings, setting, saves, holds>>

\* The rest of onDaemonHello: what was read is given, though it may have changed since
\* (and by then to a later socket of the daemon, or to none).
HelloSends(d) ==
  /\ \E m \in greeting[d] :
       /\ greeting' = [greeting EXCEPT ![d] = @ \ {m}]
       /\ Give({d}, m)
       /\ LET fresh == m.v = (IF m.t = "token" THEN token ELSE settings)
          IN behind' = [behind EXCEPT ![d] = IF d \in Reached /\ fresh THEN @ \ {m.t}
                                             ELSE IF attached[d] THEN @ \cup {m.t} ELSE @]
  /\ UNCHANGED <<token, settings, setting, saves, attached, attaches, silent, holds>>

DaemonTakes(d) ==
  /\ updates[d] # <<>>
  /\ LET m == Head(updates[d])
     IN holds' = [holds EXCEPT ![d] = IF m.t = "token" THEN [@ EXCEPT !.token = m.v]
                                                     ELSE [@ EXCEPT !.settings = m.v]]
  /\ updates' = [updates EXCEPT ![d] = Tail(@)]
  /\ UNCHANGED <<token, settings, setting, saves, greeting, attached, attaches, silent, given, behind>>

\* A minute passes without a ping; the daemon pings again before the sweep closes it.
GoesSilent(d) ==
  /\ attached[d] /\ ~silent[d]
  /\ silent' = [silent EXCEPT ![d] = TRUE]
  /\ UNCHANGED <<token, settings, setting, saves, greeting, attached, attaches, updates, holds, given, behind>>

HeardAgain(d) ==
  /\ attached[d] /\ silent[d]
  /\ silent' = [silent EXCEPT ![d] = FALSE]
  /\ UNCHANGED <<token, settings, setting, saves, greeting, attached, attaches, updates, holds, given, behind>>

DaemonGone(d) ==
  /\ attached[d]
  /\ attached' = [attached EXCEPT ![d] = FALSE]
  /\ updates' = [updates EXCEPT ![d] = <<>>]
  /\ silent' = [silent EXCEPT ![d] = FALSE]
  /\ given' = [given EXCEPT ![d] = {}] /\ behind' = [behind EXCEPT ![d] = {}]
  /\ UNCHANGED <<token, settings, setting, saves, greeting, attaches, holds>>

PluginNext ==
  \/ \E r \in TokenSet : SetToken(r) \/ StoreToken(r) \/ ForgetToken(r)
  \/ \E r \in Save : SaveReads(r) \/ SaveStores(r)
  \/ \E d \in Daemon : DaemonHello(d) \/ HelloSends(d) \/ DaemonTakes(d)
                       \/ GoesSilent(d) \/ HeardAgain(d) \/ DaemonGone(d)

PluginSpec == PluginInit /\ [][PluginNext]_pluginVars

-----------------------------------------------------------------------------

PluginTypeOK ==
  /\ token \in TokenOrNone /\ settings \in Values
  /\ setting \in [TokenSet -> {"new", "sealing", "done"}]
  /\ saves \in [Save -> [st : {"new", "merging", "done"}, k : Key \cup {NoValue},
                          v : Save \cup {NoValue}, cur : Values]]
  /\ greeting \in [Daemon -> SUBSET Update]
  /\ attached \in [Daemon -> BOOLEAN] /\ attaches \in [Daemon -> 0 .. MaxAttach]
  /\ updates \in [Daemon -> Seq(Update)]
  /\ holds \in [Daemon -> [token : TokenOrNone, settings : Values]]
  /\ silent \in [Daemon -> BOOLEAN]
  /\ given \in [Daemon -> SUBSET Update] /\ behind \in [Daemon -> SUBSET {"token", "settings"}]

\* The last token and the last settings that a connected daemon was given, once its hello
\* has been served, are the stored ones: neither a change while it connects nor a hello
\* while a change is made falls between the two. Not told, and flagged behind until it is
\* given that value: a daemon that was silent as the value changed and pings again before
\* the sweep, and one whose hello's handler gives it what it read before the change after
\* the change. Nor is a daemon told as it connects that all settings were cleared while
\* it was away. (Of two saves at once, what is stored may lack the earlier one's change;
\* that is not this property's matter.)
StoredWasSent ==
  \A d \in Attached : greeting[d] = {} =>
    /\ "token" \in behind[d] \/ [t |-> "token", v |-> token] \in given[d]
    /\ \/ "settings" \in behind[d]
       \/ [t |-> "settings", v |-> settings] \in given[d]
       \/ settings = NoValues /\ \A u \in given[d] : u.t = "token"
=============================================================================
