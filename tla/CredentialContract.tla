-------------------------- MODULE CredentialContract --------------------------
(***************************************************************************)
(* What the credentials of do-dba promise, whatever runs do to each other  *)
(* and whatever fails (README.md, "Passwords the model never sees"): a run *)
(* fixes a name's value once, as one that a server of its own has or as a  *)
(* new one; nothing is used before its value is fixed; a server is sent    *)
(* all that a run knows, and only by a run that minted something and keeps *)
(* credentials there, though what was sent may arrive late; and what a run *)
(* knew when it ended is written down, unless its process died.  Keeper    *)
(* implements this.                                                        *)
(***************************************************************************)
CONSTANTS Runs, Servers, Fleet, Names, Earlier, None

VARIABLES
  keeps,   \* the runs that keep credentials on servers
  known,   \* what each run knows: the value of each name
  taken,   \* <<server, name>>: the run took the value of that name there
  files,   \* what each server keeps
  sent,    \* what was sent to a server and has not arrived
  status,  \* "open", then "closed" or "lost"
  records  \* what each run has written down

vars == <<keeps, known, taken, files, sent, status, records>>

Values   == Runs \cup Earlier
NoValues == [n \in Names |-> None]

Init ==
  /\ keeps \in [Runs -> BOOLEAN]
  /\ known = [r \in Runs |-> NoValues]
  /\ taken = [r \in Runs |-> {}]
  /\ files \in [Servers -> [Names -> Earlier \cup {None}]]
  /\ sent = {}
  /\ status = [r \in Runs |-> "open"]
  /\ records = [r \in Runs |-> NoValues]

\* What a run may come to know of a name: nothing else once it knows something.
Open(r, n) ==
  IF known[r][n] # None THEN {known[r][n]}
  ELSE {None, r} \cup {files[h][n] : h \in Fleet[r]}

\* A run finds values or makes them up, and takes some that it then knows to its servers.
Learn(r) ==
  /\ status[r] = "open"
  /\ UNCHANGED <<keeps, files, sent, status, records>>
  /\ \E book \in [Names -> Values \cup {None}] :
       /\ known' = [known EXCEPT ![r] = book]
       /\ \A n \in Names : book[n] \in Open(r, n)
       /\ \E used \in SUBSET (Fleet[r] \X Names) :
            /\ \A use \in used : book[use[2]] # None
            /\ taken' = [taken EXCEPT ![r] = @ \cup used]

\* Run r has something to tell its servers.
MayTell(r) ==
  /\ status[r] = "open"
  /\ keeps[r]
  /\ \E n \in Names : known[r][n] = r

\* A server is sent all a run knows, something new among it.
Tell(r, h) ==
  /\ MayTell(r)
  /\ files' = [files EXCEPT ![h] = known[r]]
  /\ UNCHANGED <<keeps, known, taken, sent, status, records>>

Letter(r, h, again) == [run |-> r, server |-> h, again |-> again, book |-> known[r]]

\* It is sent to, and the run goes on before it has arrived.
Send(r, h) ==
  /\ MayTell(r)
  /\ \E again \in BOOLEAN : sent' = sent \cup {Letter(r, h, again)}
  /\ UNCHANGED <<keeps, known, taken, files, status, records>>

\* What was sent arrives, whatever has become of the run, or been sent since.
Arrive(letter) ==
  /\ files' = [files EXCEPT ![letter.server] = letter.book]
  /\ sent' = sent \ {letter}
  /\ UNCHANGED <<keeps, known, taken, status, records>>

Close(r) ==
  /\ status[r] = "open"
  /\ status' = [status EXCEPT ![r] = "closed"]
  /\ records' = [records EXCEPT ![r] = known[r]]
  /\ UNCHANGED <<keeps, known, taken, files, sent>>

\* A run's process ends, perhaps while a server is being told.
Lose(r) ==
  /\ status[r] = "open"
  /\ status' = [status EXCEPT ![r] = "lost"]
  /\ \/ UNCHANGED sent
     \/ /\ MayTell(r)
        /\ \E h \in Fleet[r], again \in BOOLEAN : sent' = sent \cup {Letter(r, h, again)}
  /\ UNCHANGED <<keeps, known, taken, files, records>>

Next ==
  \/ \E r \in Runs :
       \/ Learn(r)
       \/ \E h \in Fleet[r] : Tell(r, h) \/ Send(r, h)
       \/ Close(r)
       \/ Lose(r)
  \/ \E letter \in sent : Arrive(letter)

Spec == Init /\ [][Next]_vars
=============================================================================
