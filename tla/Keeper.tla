-------------------------------- MODULE Keeper --------------------------------
(***************************************************************************)
(* The life of a generated credential across the runs of do-dba: the       *)
(* SecretStore and the keeper file of do_dba/secrets.py, with _run and     *)
(* adopt_secrets of do_dba/cli.py, which read the file when a run starts   *)
(* and push it when a credential has come into being.                      *)
(*                                                                         *)
(* A run mints at most one value for a name, so a value is named by the    *)
(* run that minted it; Earlier are values left by runs before these.       *)
(*                                                                         *)
(* What is abstracted:                                                     *)
(*  - A name stands for all its spellings (canonical); the quoting of a    *)
(*    value and the parsing of the exports are left out.                   *)
(*  - The servers are visited in any order: the operator lists them.       *)
(*  - Of a step and of a check, only the names it resolves are kept.       *)
(*  - A keeper file is written whole or not at all, by install: what comes *)
(*    before it in a write is in ScriptStaging.                            *)
(***************************************************************************)
EXTENDS FiniteSets, Naturals

CONSTANTS
  Runs,       \* the runs, each a process of its own
  Servers,    \* every server any of them works on
  Fleet,      \* [Runs -> the servers of that run]
  Names,      \* the names of credentials
  Earlier,    \* values minted before the first of these runs
  None,       \* no value
  Concurrent, \* runs may overlap
  ReadsFail,  \* reading a keeper file may fail
  WritesFail, \* so may writing one
  MaxLeft     \* how many writes may leave their install running, in all

ASSUME KeeperAssumption ==
  /\ Fleet \in [Runs -> (SUBSET Servers) \ {{}}]
  /\ None \notin Runs \cup Earlier
  /\ Runs \cap Earlier = {}
  /\ Concurrent \in BOOLEAN
  /\ ReadsFail \in BOOLEAN
  /\ WritesFail \in BOOLEAN
  /\ MaxLeft \in Nat

VARIABLES
  keeps,   \* [Runs -> keep_on_servers], fixed when the run starts
  phase,   \* where each run is
  todo,    \* the servers it has still to read, or to write
  store,   \* its SecretStore: the value of each name
  given,   \* <<server, name>>: a step took the value of that name there
  unsaved, \* store.unsaved
  clashed, \* <<server, name>> it reported as differing from the value it uses
  warned,  \* the servers it could not store the credentials on, and said so
  file,    \* the keeper file of each server
  saved,   \* secrets.json of each run
  left,    \* the writes given up on whose install was left running on its server
  loose    \* of those, the ones whose install still runs

memory == <<store, given, unsaved>>
told   == <<clashed, warned>>
late   == <<left, loose>>
vars   == <<keeps, phase, todo, memory, told, file, saved, late>>

Values   == Runs \cup Earlier
NoValues == [n \in Names |-> None]

Live(r)      == phase[r] \notin {"idle", "ended", "died"}
Visiting(r)  == phase[r] \in {"adopt", "push", "lastpush"}
Minted(r, n) == store[r][n] = r

-----------------------------------------------------------------------------
Init ==
  /\ keeps \in [Runs -> BOOLEAN]
  /\ phase = [r \in Runs |-> "idle"]
  /\ todo = [r \in Runs |-> {}]
  /\ store = [r \in Runs |-> NoValues]
  /\ given = [r \in Runs |-> {}]
  /\ unsaved = [r \in Runs |-> FALSE]
  /\ clashed = [r \in Runs |-> {}]
  /\ warned = [r \in Runs |-> {}]
  /\ file \in [Servers -> [Names -> Earlier \cup {None}]]
  /\ saved = [r \in Runs |-> NoValues]
  /\ left = {}
  /\ loose = {}

\* Run r goes on to phase p, with every server of its fleet ahead of it where p visits them.
Go(r, p) ==
  /\ phase' = [phase EXCEPT ![r] = p]
  /\ todo' = [todo EXCEPT ![r] = IF p \in {"adopt", "push", "lastpush"} THEN Fleet[r] ELSE {}]

\* Run r is done with server h; after the last one it goes on to phase p.
Visited(r, h, p) ==
  /\ todo' = [todo EXCEPT ![r] = @ \ {h}]
  /\ phase' = [phase EXCEPT ![r] = IF todo[r] = {h} THEN p ELSE @]

Start(r) ==
  /\ phase[r] = "idle"
  /\ Concurrent \/ \A s \in Runs : ~Live(s)
  /\ Go(r, IF keeps[r] THEN "adopt" ELSE "work")
  /\ UNCHANGED <<keeps, memory, told, file, saved, late>>

\* Not the code: the value read last wins.
LastWins(known, read) == [n \in Names |-> IF read[n] = None THEN known[n] ELSE read[n]]

\* The value read first wins; another server's value only fills a gap.
FirstWins(known, read) == [n \in Names |-> IF known[n] = None THEN read[n] ELSE known[n]]

\* One server's file is taken in.  A file that cannot be read is an empty one.
Adopt(r, h) ==
  /\ phase[r] = "adopt"
  /\ h \in todo[r]
  /\ \E read \in {file[h]} \cup (IF ReadsFail THEN {NoValues} ELSE {}) :
       /\ store' = [store EXCEPT ![r] = FirstWins(@, read)]
       /\ clashed' = [clashed EXCEPT ![r] = @ \cup
            ({h} \X {n \in Names : None \notin {read[n], store[r][n]} /\ read[n] # store[r][n]})]
  /\ Visited(r, h, "work")
  /\ UNCHANGED <<keeps, given, unsaved, warned, file, saved, late>>

\* Not the code: any use of a credential counts as a new one.
ResolveAsNew(r, used) ==
  /\ store' = [store EXCEPT ![r] = [n \in Names |->
                 IF n \in used /\ @[n] = None THEN r ELSE @[n]]]
  /\ unsaved' = [unsaved EXCEPT ![r] = @ \/ used # {}]

\* The placeholders of a command are replaced, and the missing values minted.
Resolve(r, used) ==
  /\ store' = [store EXCEPT ![r] = [n \in Names |->
                 IF n \in used /\ @[n] = None THEN r ELSE @[n]]]
  /\ unsaved' = [unsaved EXCEPT ![r] = @ \/ \E n \in used : store[r][n] = None]

\* A step ran on server h, and its result came back.
RunStep(r, h, used) ==
  /\ phase[r] = "work"
  /\ h \in Fleet[r]
  /\ Resolve(r, used)
  /\ given' = [given EXCEPT ![r] = @ \cup ({h} \X used)]
  /\ IF keeps[r] /\ unsaved'[r] THEN Go(r, "push") ELSE UNCHANGED <<phase, todo>>
  /\ UNCHANGED <<keeps, told, file, saved, late>>

\* A check of a "done" step resolves its placeholders, and pushes nothing.
MakeCheck(r, used) ==
  /\ phase[r] = "work"
  /\ Resolve(r, used)
  /\ UNCHANGED <<keeps, phase, todo, given, told, file, saved, late>>

\* Not the code: nothing new, nothing to write down.
LeaveLoopUnsaved(r, h, used) ==
  /\ phase[r] = "work"
  /\ h \in Fleet[r]
  /\ Resolve(r, used)
  /\ given' = [given EXCEPT ![r] = @ \cup ({h} \X used)]
  /\ Go(r, IF ~unsaved'[r] THEN "ended" ELSE IF keeps[r] THEN "lastpush" ELSE "save")
  /\ UNCHANGED <<keeps, told, file, saved, late>>

\* The loop returned, or Ctrl-C broke into it, perhaps with a step under way on server h
\* that had resolved its placeholders.
LeaveLoop(r, h, used) ==
  /\ phase[r] = "work"
  /\ h \in Fleet[r]
  /\ Resolve(r, used)
  /\ given' = [given EXCEPT ![r] = @ \cup ({h} \X used)]
  /\ Go(r, IF keeps[r] /\ unsaved'[r] THEN "lastpush" ELSE "save")
  /\ UNCHANGED <<keeps, told, file, saved, late>>

\* Not the code: only what this run minted is exported.
ExportsMinted(r) == [n \in Names |-> IF Minted(r, n) THEN r ELSE None]

\* The whole store is exported, what was inherited included.
Exports(r) == store[r]

\* The write of server h, told from the one an interrupted push had begun.
Write(r, h) == [run |-> r, server |-> h, again |-> phase[r] = "lastpush", book |-> Exports(r)]

\* The install of that write is left running.
LeftRunning(r, h) ==
  /\ Cardinality(left) < MaxLeft
  /\ left' = left \cup {Write(r, h)}
  /\ loose' = loose \cup {Write(r, h)}

\* Server h is sent the file.  A write that failed is reported, and its install may run on.
Send(r, h) ==
  \/ /\ file' = [file EXCEPT ![h] = Exports(r)]
     /\ UNCHANGED <<warned, late>>
  \/ /\ WritesFail
     /\ warned' = [warned EXCEPT ![r] = @ \cup {h}]
     /\ LeftRunning(r, h) \/ UNCHANGED late
     /\ UNCHANGED file

\* Not the code: the credentials count as saved from the first server on.
PushMarkedEarly(r, h) ==
  /\ phase[r] \in {"push", "lastpush"}
  /\ h \in todo[r]
  /\ Send(r, h)
  /\ Visited(r, h, IF phase[r] = "push" THEN "work" ELSE "save")
  /\ unsaved' = [unsaved EXCEPT ![r] = FALSE]
  /\ UNCHANGED <<keeps, store, given, clashed, saved>>

\* One server is sent the file.  After the last one the credentials count as saved,
\* whether or not any write went well.
Push(r, h) ==
  /\ phase[r] \in {"push", "lastpush"}
  /\ h \in todo[r]
  /\ Send(r, h)
  /\ Visited(r, h, IF phase[r] = "push" THEN "work" ELSE "save")
  /\ unsaved' = [unsaved EXCEPT ![r] = @ /\ todo[r] # {h}]
  /\ UNCHANGED <<keeps, store, given, clashed, saved>>

\* What is under way breaks off: a write, if there was one, may leave its install running.
BreakOff(r) ==
  \/ UNCHANGED late
  \/ /\ phase[r] \in {"push", "lastpush"}
     /\ \E h \in todo[r] : LeftRunning(r, h)

\* Ctrl-C while a push inside the loop is under way: it starts over.
InterruptPush(r) ==
  /\ phase[r] = "push"
  /\ BreakOff(r)
  /\ Go(r, IF unsaved[r] THEN "lastpush" ELSE "save")
  /\ UNCHANGED <<keeps, memory, told, file, saved>>

Save(r) ==
  /\ phase[r] = "save"
  /\ saved' = [saved EXCEPT ![r] = store[r]]
  /\ Go(r, "ended")
  /\ UNCHANGED <<keeps, memory, told, file, late>>

\* The process ends there and then: killed, or by a Ctrl-C that only main catches.
Die(r) ==
  /\ Live(r)
  /\ BreakOff(r)
  /\ Go(r, "died")
  /\ UNCHANGED <<keeps, memory, told, file, saved>>

\* An install that was left running puts its file in place, whatever was put there since.
Land ==
  /\ \E w \in loose :
       /\ file' = [file EXCEPT ![w.server] = w.book]
       /\ loose' = loose \ {w}
  /\ UNCHANGED <<keeps, phase, todo, memory, told, saved, left>>

AllOver ==
  /\ \A r \in Runs : phase[r] \in {"ended", "died"}
  /\ UNCHANGED vars

Next ==
  \/ \E r \in Runs :
       \/ Start(r)
       \/ \E h \in Servers : Adopt(r, h)
       \/ \E h \in Servers, used \in SUBSET Names : RunStep(r, h, used)
       \/ \E used \in SUBSET Names : MakeCheck(r, used)
       \/ \E h \in Servers, used \in SUBSET Names : LeaveLoop(r, h, used)
       \/ InterruptPush(r)
       \/ \E h \in Servers : Push(r, h)
       \/ Save(r)
       \/ Die(r)
  \/ Land
  \/ AllOver

Spec == Init /\ [][Next]_vars

-----------------------------------------------------------------------------
(***************************************************************************)
(* Properties.                                                             *)
(***************************************************************************)
Phases == {"idle", "adopt", "work", "push", "lastpush", "save", "ended", "died"}

Book == [Names -> Values \cup {None}]

Writes == [run : Runs, server : Servers, again : BOOLEAN, book : Book]

\* Every variable keeps its type; a run has servers ahead of it exactly while it visits
\* them, and owes them a push only over a value it minted.
TypeOK ==
  /\ keeps \in [Runs -> BOOLEAN]
  /\ phase \in [Runs -> Phases]
  /\ todo \in [Runs -> SUBSET Servers]
  /\ store \in [Runs -> Book]
  /\ given \in [Runs -> SUBSET (Servers \X Names)]
  /\ unsaved \in [Runs -> BOOLEAN]
  /\ clashed \in [Runs -> SUBSET (Servers \X Names)]
  /\ warned \in [Runs -> SUBSET Servers]
  /\ file \in [Servers -> Book]
  /\ saved \in [Runs -> Book]
  /\ left \subseteq Writes
  /\ loose \subseteq left
  /\ \A r \in Runs :
       /\ todo[r] \subseteq Fleet[r]
       /\ todo[r] # {} <=> Visiting(r)
       /\ unsaved[r] => \E n \in Names : Minted(r, n)

\* What is promised of the credentials, in terms of this module.
Promise == INSTANCE CredentialContract WITH
  known   <- store,
  taken   <- given,
  files   <- file,
  status  <- [r \in Runs |-> CASE phase[r] = "ended" -> "closed"
                              [] phase[r] = "died"  -> "lost"
                              [] OTHER              -> "open"],
  sent    <- loose,
  records <- saved

\* The credentials keep what CredentialContract promises: a run fixes a name's value once,
\* as a new one or one that a server of its own has; it uses, sends and writes down what
\* it has fixed and nothing else; and it writes to a server only if it minted something.
\* (adopt and _value, persist_secrets, write_keeper and save, between them.)
KeepsPromise == Promise!Spec

\* With one run at a time and files that can be read, a line of a keeper file is lost or
\* replaced only where a run said that the server's value differs from its own, or when
\* the install that an unfinished write had left running lands, or where the line had
\* come by such a write.  (write_keeper overwrites the whole file with what adopt_secrets
\* gathered.)
LinesStay ==
  [][\A h \in Servers, n \in Names :
       file[h][n] # None /\ file'[h][n] # file[h][n] =>
         \/ \E r \in Runs : <<h, n>> \in clashed[r]
         \/ \E w \in loose \ loose' : w.server = h
         \/ \E w \in left : w.server = h /\ w.book[n] = file[h][n]]_vars

\* With one run at a time, a minted credential that counts as saved is on every server
\* of its run, save where a failed write was reported, where a later run reported a
\* different value, or where an unfinished write that lacks it had left its install
\* running.  (persist_secrets in the loop, on interrupt and after the run.)
PushedOrTold ==
  \A r \in Runs, n \in Names :
    keeps[r] /\ Minted(r, n) /\ ~unsaved[r] =>
      \A h \in Fleet[r] :
        \/ file[h][n] = r
        \/ h \in warned[r]
        \/ \E s \in Runs : <<h, n>> \in clashed[s]
        \/ \E w \in left : w.server = h /\ w.book[n] # r

\* A value a run took to a server is in its secrets.json once it has ended, the ones it
\* could store nowhere else included, unless the process died.  (store.save on every
\* way out of _run.)
SavedAtTheEnd ==
  \A r \in Runs, h \in Servers, n \in Names :
    phase[r] = "ended" /\ <<h, n>> \in given[r] => saved[r][n] = store[r][n] /\ saved[r][n] # None

-----------------------------------------------------------------------------
(***************************************************************************)
(* What the documentation says of the credentials and the code does not do. *)
(***************************************************************************)

\* README.md, "Passwords the model never sees": "Each server keeps every credential of
\* the run in /etc/profile.d/dba-secrets.sh".  Only a minted value marks the store
\* unsaved: one read off another server and used on this one is not stored here.
EachServerKeepsItsOwn ==
  \A r \in Runs, h \in Servers, n \in Names :
    phase[r] = "ended" /\ keeps[r] /\ <<h, n>> \in given[r] => file[h][n] # None

\* secrets.py, on _unsaved: "A value exists that no server has been told about yet."
\* It is cleared after the attempt, whether or not any server could be told.
SavedMeansTold ==
  \A r \in Runs, n \in Names :
    keeps[r] /\ Minted(r, n) /\ ~unsaved[r] => \E h \in Servers : file[h][n] = r
=============================================================================
