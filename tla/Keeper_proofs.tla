----------------------------- MODULE Keeper_proofs -----------------------------
(***************************************************************************)
(* Proofs about Keeper, for any runs, fleets, names and earlier values.    *)
(***************************************************************************)
EXTENDS Keeper, TLAPS

\* What an action of run r on server h, resolving the names used, can be.
Does(r, h, used) ==
  \/ Start(r)
  \/ Adopt(r, h)
  \/ RunStep(r, h, used)
  \/ MakeCheck(r, used)
  \/ LeaveLoop(r, h, used)
  \/ InterruptPush(r)
  \/ Push(r, h)
  \/ Save(r)
  \/ Die(r)

\* A step is some run's action, or a late install, or nothing happens.
LEMMA SomeRunDoes ==
  ASSUME [Next]_vars, ~UNCHANGED vars
  PROVE  \/ Land
         \/ \E r \in Runs, h \in Servers, used \in SUBSET Names : Does(r, h, used)
<1>1. Servers # {} \/ ~ \E r \in Runs : TRUE
  BY KeeperAssumption
<1>2. CASE AllOver
  BY <1>2 DEF AllOver
<1>3. CASE \E r \in Runs : Start(r)
  BY <1>1, <1>3 DEF Does
<1>4. CASE \E r \in Runs, h \in Servers : Adopt(r, h)
  BY <1>1, <1>4 DEF Does
<1>5. CASE \E r \in Runs, h \in Servers, used \in SUBSET Names : RunStep(r, h, used)
  BY <1>5 DEF Does
<1>6. CASE \E r \in Runs, used \in SUBSET Names : MakeCheck(r, used)
  BY <1>1, <1>6 DEF Does
<1>7. CASE \E r \in Runs, h \in Servers, used \in SUBSET Names : LeaveLoop(r, h, used)
  BY <1>7 DEF Does
<1>8. CASE \E r \in Runs : InterruptPush(r)
  BY <1>1, <1>8 DEF Does
<1>9. CASE \E r \in Runs, h \in Servers : Push(r, h)
  BY <1>1, <1>9 DEF Does
<1>10. CASE \E r \in Runs : Save(r)
  BY <1>1, <1>10 DEF Does
<1>11. CASE \E r \in Runs : Die(r)
  BY <1>1, <1>11 DEF Does
<1>. QED
  BY <1>2, <1>3, <1>4, <1>5, <1>6, <1>7, <1>8, <1>9, <1>10, <1>11 DEF Next

\* A run going on to another phase moves no other run.
LEMMA GoFacts ==
  ASSUME TypeOK, NEW r \in Runs, NEW p \in Phases, Go(r, p)
  PROVE  /\ phase' \in [Runs -> Phases]
         /\ todo' \in [Runs -> SUBSET Servers]
         /\ phase'[r] = p
         /\ todo'[r] = IF p \in {"adopt", "push", "lastpush"} THEN Fleet[r] ELSE {}
         /\ \A s \in Runs \ {r} : phase'[s] = phase[s] /\ todo'[s] = todo[s]
<1>. USE DEF TypeOK, Go
<1>1. phase' \in [Runs -> Phases] /\ phase'[r] = p
  OBVIOUS
<1>2. Fleet[r] \in SUBSET Servers
  BY KeeperAssumption
<1>3. todo' \in [Runs -> SUBSET Servers]
  BY <1>2
<1>4. todo'[r] = IF p \in {"adopt", "push", "lastpush"} THEN Fleet[r] ELSE {}
  OBVIOUS
<1>5. \A s \in Runs \ {r} : phase'[s] = phase[s] /\ todo'[s] = todo[s]
  OBVIOUS
<1>. QED
  BY <1>1, <1>3, <1>4, <1>5

\* Nor does a run that is done with one server.
LEMMA VisitedFacts ==
  ASSUME TypeOK, NEW r \in Runs, NEW h, NEW p \in Phases, Visited(r, h, p)
  PROVE  /\ phase' \in [Runs -> Phases]
         /\ todo' \in [Runs -> SUBSET Servers]
         /\ phase'[r] = IF todo[r] = {h} THEN p ELSE phase[r]
         /\ todo'[r] = todo[r] \ {h}
         /\ \A s \in Runs \ {r} : phase'[s] = phase[s] /\ todo'[s] = todo[s]
BY DEF TypeOK, Visited

\* Resolving mints what is missing, leaves the rest of the store and every other run
\* alone, and is remembered as unsaved when it minted.
LEMMA ResolveFacts ==
  ASSUME TypeOK, NEW r \in Runs, NEW used \in SUBSET Names, Resolve(r, used)
  PROVE  /\ store' \in [Runs -> Book]
         /\ unsaved' \in [Runs -> BOOLEAN]
         /\ \A n \in Names :
              store'[r][n] = IF n \in used /\ store[r][n] = None THEN r ELSE store[r][n]
         /\ unsaved'[r] <=> unsaved[r] \/ \E n \in used : store[r][n] = None
         /\ \A s \in Runs \ {r} : store'[s] = store[s] /\ unsaved'[s] = unsaved[s]
<1>. DEFINE b == [n \in Names |-> IF n \in used /\ store[r][n] = None THEN r ELSE store[r][n]]
<1>1. b \in Book
  BY DEF TypeOK, Book, Values
<1>2. store' = [store EXCEPT ![r] = b]
  BY DEF Resolve
<1>3. store' \in [Runs -> Book] /\ store'[r] = b /\ \A s \in Runs \ {r} : store'[s] = store[s]
  BY <1>1, <1>2 DEF TypeOK
<1>4. unsaved' \in [Runs -> BOOLEAN]
  BY DEF TypeOK, Resolve
<1>5. unsaved'[r] <=> unsaved[r] \/ \E n \in used : store[r][n] = None
  BY Zenon DEF TypeOK, Resolve
<1>6. \A s \in Runs \ {r} : unsaved'[s] = unsaved[s]
  BY Zenon DEF TypeOK, Resolve
<1>. QED
  BY <1>3, <1>4, <1>5, <1>6
\* A run's servers ahead of it and its debt make sense: the last part of TypeOK.
Sensible(r) ==
  /\ todo[r] \subseteq Fleet[r]
  /\ todo[r] # {} <=> Visiting(r)
  /\ unsaved[r] => \E n \in Names : Minted(r, n)

\* Taking a file in keeps the store a store.
LEMMA AdoptFacts ==
  ASSUME TypeOK, NEW r \in Runs, NEW h \in Servers, Adopt(r, h)
  PROVE  /\ store' \in [Runs -> Book]
         /\ clashed' \in [Runs -> SUBSET (Servers \X Names)]
         /\ \A s \in Runs \ {r} : store'[s] = store[s] /\ clashed'[s] = clashed[s]
         /\ \A n \in Names :
              store'[r][n] = store[r][n] \/ (store[r][n] = None /\ store'[r][n] = file[h][n])
         /\ clashed[r] \subseteq clashed'[r]
         /\ ~ReadsFail =>
              \A n \in Names : file[h][n] # None =>
                file[h][n] = store'[r][n] \/ <<h, n>> \in clashed'[r]
<1>1. PICK read \in {file[h]} \cup (IF ReadsFail THEN {NoValues} ELSE {}) :
        /\ store' = [store EXCEPT ![r] = FirstWins(@, read)]
        /\ clashed' = [clashed EXCEPT ![r] = @ \cup
             ({h} \X {n \in Names : None \notin {read[n], store[r][n]} /\ read[n] # store[r][n]})]
  BY DEF Adopt
<1>2. read \in Book /\ (read = file[h] \/ read = NoValues)
  BY DEF TypeOK, Book, NoValues
<1>3. store[r] \in Book
  BY DEF TypeOK
<1>4. FirstWins(store[r], read) \in Book
  BY <1>2, <1>3 DEF FirstWins, Book
<1>5. store' \in [Runs -> Book] /\ store'[r] = FirstWins(store[r], read)
  BY <1>1, <1>4 DEF TypeOK
<1>6. \A s \in Runs \ {r} : store'[s] = store[s] /\ clashed'[s] = clashed[s]
  BY <1>1 DEF TypeOK
<1>7. \A n \in Names :
        store'[r][n] = store[r][n] \/ (store[r][n] = None /\ store'[r][n] = file[h][n])
  BY <1>2, <1>5 DEF FirstWins, NoValues
<1> DEFINE C == {h} \X {n \in Names : None \notin {read[n], store[r][n]} /\ read[n] # store[r][n]}
<1>8. C \in SUBSET (Servers \X Names)
  OBVIOUS
<1>9. /\ clashed' \in [Runs -> SUBSET (Servers \X Names)]
      /\ clashed'[r] = clashed[r] \cup C
  BY <1>1, <1>8 DEF TypeOK
<1>10. ASSUME ~ReadsFail, NEW n \in Names, file[h][n] # None
       PROVE  file[h][n] = store'[r][n] \/ <<h, n>> \in clashed'[r]
  <2>1. read = file[h]
    BY <1>1, <1>10
  <2>2. CASE store[r][n] = None
    BY <1>5, <2>1, <2>2 DEF FirstWins
  <2>3. CASE store[r][n] # None /\ store[r][n] = read[n]
    BY <1>5, <2>1, <2>3 DEF FirstWins
  <2>4. CASE store[r][n] # None /\ store[r][n] # read[n]
    BY <1>9, <1>10, <2>1, <2>4
  <2>. QED
    BY <2>2, <2>3, <2>4
<1>. QED
  BY <1>5, <1>6, <1>7, <1>9, <1>10

\* A push changes one file, into the whole store or not at all.
LEMMA PushFacts ==
  ASSUME TypeOK, NEW r \in Runs, NEW h \in Servers, Push(r, h)
  PROVE  /\ file' \in [Servers -> Book]
         /\ warned' \in [Runs -> SUBSET Servers]
         /\ unsaved' \in [Runs -> BOOLEAN]
         /\ \A g \in Servers \ {h} : file'[g] = file[g]
         /\ file'[h] = store[r] \/ (file'[h] = file[h] /\ h \in warned'[r])
         /\ \A s \in Runs : warned[s] \subseteq warned'[s]
         /\ \A s \in Runs \ {r} : unsaved'[s] = unsaved[s]
         /\ unsaved'[r] <=> unsaved[r] /\ todo[r] # {h}
<1>. USE DEF TypeOK, Push, Send, Exports
<1>1. store[r] \in Book
  OBVIOUS
<1>2. \/ file' = [file EXCEPT ![h] = store[r]]
      \/ UNCHANGED file /\ h \in warned'[r]
  OBVIOUS
<1>3. /\ file' \in [Servers -> Book]
      /\ \A g \in Servers \ {h} : file'[g] = file[g]
      /\ file'[h] = store[r] \/ (file'[h] = file[h] /\ h \in warned'[r])
  BY <1>1, <1>2
<1>4. warned' \in [Runs -> SUBSET Servers] /\ \A s \in Runs : warned[s] \subseteq warned'[s]
  OBVIOUS
<1>5. unsaved' \in [Runs -> BOOLEAN]
  OBVIOUS
<1>6. \A s \in Runs \ {r} : unsaved'[s] = unsaved[s]
  BY Zenon
<1>7. unsaved'[r] <=> unsaved[r] /\ todo[r] # {h}
  BY Zenon
<1>. QED
  BY <1>3, <1>4, <1>5, <1>6, <1>7

\* A run leaves an install running on a server it has still to write to, or none.
LEMMA LateFacts ==
  ASSUME TypeOK, NEW r \in Runs, NEW h \in Servers, NEW used \in SUBSET Names,
         Does(r, h, used)
  PROVE  /\ \/ UNCHANGED late
            \/ /\ phase[r] \in {"push", "lastpush"}
               /\ \E g \in todo[r] :
                    /\ left' = left \cup {Write(r, g)}
                    /\ loose' = loose \cup {Write(r, g)}
         /\ left' \subseteq Writes
         /\ loose' \subseteq left'
         /\ left \subseteq left'
<1>1. CASE UNCHANGED late
  BY <1>1 DEF TypeOK, late
<1>2. CASE phase[r] \in {"push", "lastpush"} /\ \E g \in todo[r] : LeftRunning(r, g)
  <2>1. PICK g \in todo[r] : LeftRunning(r, g)
    BY <1>2
  <2>2. g \in Servers /\ store[r] \in Book
    BY DEF TypeOK
  <2>3. Write(r, g) \in Writes
    BY <2>2 DEF Write, Writes, Exports
  <2>. QED
    BY <1>2, <2>1, <2>3 DEF TypeOK, LeftRunning
<1>3. CASE Push(r, h)
  BY <1>1, <1>2, <1>3 DEF Push, Send
<1>4. CASE InterruptPush(r) \/ Die(r)
  BY <1>1, <1>2, <1>4 DEF InterruptPush, Die, BreakOff
<1>. QED
  BY <1>1, <1>3, <1>4 DEF Does, Start, Adopt, RunStep, MakeCheck, LeaveLoop, Save

\* A late install changes one file, into the book it had been given.
LEMMA LandFacts ==
  ASSUME TypeOK, Land
  PROVE  \E w \in loose :
           /\ w \in left /\ w.server \in Servers /\ w.book \in Book
           /\ file' = [file EXCEPT ![w.server] = w.book]
           /\ file' \in [Servers -> Book]
           /\ file'[w.server] = w.book
           /\ \A g \in Servers \ {w.server} : file'[g] = file[g]
           /\ loose' = loose \ {w}
<1>1. PICK w \in loose :
        /\ file' = [file EXCEPT ![w.server] = w.book]
        /\ loose' = loose \ {w}
  BY DEF Land
<1>2. w \in left /\ w \in Writes
  BY DEF TypeOK
<1>3. w.server \in Servers /\ w.book \in Book
  BY <1>2 DEF Writes
<1>. QED
  BY <1>1, <1>2, <1>3 DEF TypeOK
-----------------------------------------------------------------------------
(***************************************************************************)
(* Types.                                                                  *)
(***************************************************************************)

\* What TypeOK says of the variables one at a time.
Plain ==
  /\ keeps \in [Runs -> BOOLEAN]
  /\ phase \in [Runs -> Phases]
  /\ todo \in [Runs -> SUBSET Servers]
  /\ store \in [Runs -> Book]
  /\ given \in [Runs -> SUBSET (Servers \X Names)]
  /\ unsaved \in [Runs -> BOOLEAN]
  /\ clashed \in [Runs -> SUBSET (Servers \X Names)]
  /\ warned \in [Runs -> SUBSET Servers]
  /\ file \in [Servers -> Book]
  /\ saved \in [Runs -> Book]
  /\ left \subseteq Writes
  /\ loose \subseteq left

\* Every variable keeps its type.
LEMMA PlainStep ==
  ASSUME TypeOK, NEW r \in Runs, NEW h \in Servers, NEW used \in SUBSET Names,
         Does(r, h, used)
  PROVE  Plain'
<1>. USE DEF Plain, Phases
<1>0. left' \subseteq Writes /\ loose' \subseteq left'
  BY LateFacts
<1>1. CASE Start(r)
  BY <1>0, <1>1, GoFacts DEF TypeOK, Start, memory, told
<1>2. CASE Adopt(r, h)
  BY <1>0, <1>2, AdoptFacts, VisitedFacts DEF TypeOK, Adopt
<1>3. CASE RunStep(r, h, used)
  <2>1. phase' \in [Runs -> Phases] /\ todo' \in [Runs -> SUBSET Servers]
    BY <1>3, GoFacts DEF TypeOK, RunStep
  <2>2. given' \in [Runs -> SUBSET (Servers \X Names)]
    BY <1>3 DEF TypeOK, RunStep
  <2>. QED
    BY <1>0, <1>3, <2>1, <2>2, ResolveFacts DEF TypeOK, RunStep, told
<1>4. CASE MakeCheck(r, used)
  BY <1>0, <1>4, ResolveFacts DEF TypeOK, MakeCheck, told
<1>5. CASE LeaveLoop(r, h, used)
  <2>1. phase' \in [Runs -> Phases] /\ todo' \in [Runs -> SUBSET Servers]
    BY <1>5, GoFacts DEF TypeOK, LeaveLoop
  <2>2. given' \in [Runs -> SUBSET (Servers \X Names)]
    BY <1>5 DEF TypeOK, LeaveLoop
  <2>. QED
    BY <1>0, <1>5, <2>1, <2>2, ResolveFacts DEF TypeOK, LeaveLoop, told
<1>6. CASE InterruptPush(r)
  BY <1>0, <1>6, GoFacts DEF TypeOK, InterruptPush, memory, told
<1>7. CASE Push(r, h)
  BY <1>0, <1>7, PushFacts, VisitedFacts DEF TypeOK, Push
<1>8. CASE Save(r)
  BY <1>0, <1>8, GoFacts DEF TypeOK, Save, memory, told
<1>9. CASE Die(r)
  BY <1>0, <1>9, GoFacts DEF TypeOK, Die, memory, told
<1>. QED
  BY <1>1, <1>2, <1>3, <1>4, <1>5, <1>6, <1>7, <1>8, <1>9 DEF Does

\* A run that resolves owes a push over a value it minted, then or before.
LEMMA DebtOfResolve ==
  ASSUME TypeOK, NEW r \in Runs, NEW used \in SUBSET Names, Resolve(r, used), unsaved'[r]
  PROVE  \E n \in Names : store'[r][n] = r
<1>1. CASE unsaved[r]
  <2>1. PICK n \in Names : store[r][n] = r
    BY <1>1 DEF TypeOK, Minted
  <2>. QED
    BY <2>1, ResolveFacts, KeeperAssumption
<1>2. CASE ~unsaved[r]
  BY <1>2, ResolveFacts
<1>. QED
  BY <1>1, <1>2

\* The run that acts keeps its servers and its debt in order.
LEMMA SensibleStep ==
  ASSUME TypeOK, NEW r \in Runs, NEW h \in Servers, NEW used \in SUBSET Names,
         Does(r, h, used)
  PROVE  Sensible(r)'
<1>0. Fleet[r] # {} /\ Fleet[r] \subseteq Servers
  BY KeeperAssumption
<1>1. /\ todo[r] \subseteq Fleet[r]
      /\ todo[r] # {} <=> Visiting(r)
      /\ unsaved[r] => \E n \in Names : Minted(r, n)
  BY DEF TypeOK
<1>. USE DEF Sensible, Visiting, Minted, Phases
<1>2. CASE Start(r)
  BY <1>0, <1>1, <1>2, GoFacts DEF Start, memory
<1>3. CASE Adopt(r, h)
  <2>1. todo'[r] \subseteq Fleet[r] /\ (todo'[r] # {} <=> Visiting(r)')
    BY <1>1, <1>3, VisitedFacts DEF Adopt
  <2>2. ASSUME unsaved'[r] PROVE \E n \in Names : store'[r][n] = r
    <3>1. PICK n \in Names : store[r][n] = r
      BY <1>1, <1>3, <2>2 DEF Adopt
    <3>2. store'[r][n] = store[r][n] \/ store[r][n] = None
      BY <1>3, AdoptFacts
    <3>. QED
      BY <3>1, <3>2, KeeperAssumption
  <2>. QED
    BY <2>1, <2>2
<1>4. CASE RunStep(r, h, used)
  <2>1. todo'[r] \subseteq Fleet[r] /\ (todo'[r] # {} <=> Visiting(r)')
    BY <1>0, <1>1, <1>4, GoFacts DEF RunStep
  <2>. QED
    BY <1>4, <2>1, DebtOfResolve DEF RunStep
<1>5. CASE MakeCheck(r, used)
  BY <1>1, <1>5, DebtOfResolve DEF MakeCheck
<1>6. CASE LeaveLoop(r, h, used)
  <2>1. todo'[r] \subseteq Fleet[r] /\ (todo'[r] # {} <=> Visiting(r)')
    BY <1>0, <1>6, GoFacts DEF LeaveLoop
  <2>. QED
    BY <1>6, <2>1, DebtOfResolve DEF LeaveLoop
<1>7. CASE InterruptPush(r)
  BY <1>0, <1>1, <1>7, GoFacts DEF InterruptPush, memory
<1>8. CASE Push(r, h)
  <2>1. todo'[r] \subseteq Fleet[r] /\ (todo'[r] # {} <=> Visiting(r)')
    BY <1>1, <1>8, VisitedFacts DEF Push
  <2>. QED
    BY <1>1, <1>8, <2>1, PushFacts DEF Push
<1>9. CASE Save(r)
  BY <1>1, <1>9, GoFacts DEF Save, memory
<1>10. CASE Die(r)
  BY <1>1, <1>10, GoFacts DEF Die, memory
<1>. QED
  BY <1>2, <1>3, <1>4, <1>5, <1>6, <1>7, <1>8, <1>9, <1>10 DEF Does

\* A run's action touches no other run's place, store or debt.
LEMMA OthersStay ==
  ASSUME TypeOK, NEW r \in Runs, NEW h \in Servers, NEW used \in SUBSET Names,
         Does(r, h, used), NEW s \in Runs \ {r}
  PROVE  /\ phase'[s] = phase[s] /\ todo'[s] = todo[s]
         /\ store'[s] = store[s] /\ unsaved'[s] = unsaved[s]
<1>. USE DEF Phases, memory
<1>1. CASE Start(r)
  BY <1>1, GoFacts DEF Start
<1>2. CASE Adopt(r, h)
  BY <1>2, AdoptFacts, VisitedFacts DEF Adopt
<1>3. CASE RunStep(r, h, used)
  BY <1>3, GoFacts, ResolveFacts DEF RunStep
<1>4. CASE MakeCheck(r, used)
  BY <1>4, ResolveFacts DEF MakeCheck
<1>5. CASE LeaveLoop(r, h, used)
  BY <1>5, GoFacts, ResolveFacts DEF LeaveLoop
<1>6. CASE InterruptPush(r)
  BY <1>6, GoFacts DEF InterruptPush
<1>7. CASE Push(r, h)
  BY <1>7, PushFacts, VisitedFacts DEF Push
<1>8. CASE Save(r)
  BY <1>8, GoFacts DEF Save
<1>9. CASE Die(r)
  BY <1>9, GoFacts DEF Die
<1>. QED
  BY <1>1, <1>2, <1>3, <1>4, <1>5, <1>6, <1>7, <1>8, <1>9 DEF Does

\* Types, for any number of runs, concurrent or not, and with any failures.
LEMMA TypeStep ==
  ASSUME TypeOK, [Next]_vars
  PROVE  TypeOK'
<1>1. CASE UNCHANGED vars
  BY <1>1 DEF TypeOK, vars, memory, told, late, Visiting, Minted
<1>2. CASE Land
  BY <1>2, LandFacts DEF TypeOK, Land, memory, told, Visiting, Minted
<1>3. CASE ~UNCHANGED vars /\ ~Land
  <2>1. PICK r \in Runs, h \in Servers, used \in SUBSET Names : Does(r, h, used)
    BY <1>3, SomeRunDoes
  <2>2. Plain'
    BY <2>1, PlainStep
  <2>3. Sensible(r)'
    BY <2>1, SensibleStep
  <2>4. ASSUME NEW s \in Runs \ {r} PROVE Sensible(s)'
    BY <2>1, OthersStay DEF TypeOK, Sensible, Visiting, Minted
  <2>5. \A s \in Runs : Sensible(s)'
    BY <2>3, <2>4
  <2>. QED
    BY <2>2, <2>5 DEF TypeOK, Plain, Sensible
<1>. QED
  BY <1>1, <1>2, <1>3

\* Every variable starts with its type.
LEMMA TypeAtStart == Init => TypeOK
<1>. SUFFICES ASSUME Init PROVE TypeOK
  OBVIOUS
<1>1. NoValues \in Book
  BY DEF NoValues, Book
<1>2. file \in [Servers -> Book]
  BY DEF Init, Book, Values
<1>3. Plain
  BY <1>1, <1>2 DEF Init, Plain, Phases
<1>4. \A r \in Runs : Sensible(r)
  BY DEF Init, Sensible, Visiting
<1>. QED
  BY <1>3, <1>4 DEF Plain, Sensible, TypeOK

\* Every variable keeps its type, whatever the runs, their fleets and the failures.
THEOREM TypeCorrect == Spec => []TypeOK
BY TypeAtStart, TypeStep, PTL DEF Spec
-----------------------------------------------------------------------------
(***************************************************************************)
(* A name keeps its value.                                                 *)
(***************************************************************************)

\* No action changes a value a run already has for a name.
LEMMA StoreStays ==
  ASSUME TypeOK, NEW r \in Runs, NEW h \in Servers, NEW used \in SUBSET Names,
         Does(r, h, used), NEW s \in Runs, NEW n \in Names, store[s][n] # None
  PROVE  store'[s][n] = store[s][n]
<1>1. CASE s # r
  BY <1>1, OthersStay
<1>2. CASE s = r /\ Adopt(r, h)
  BY <1>2, AdoptFacts
<1>3. CASE s = r /\ Resolve(r, used)
  BY <1>3, ResolveFacts
<1>4. CASE UNCHANGED store
  BY <1>4
<1>5. UNCHANGED store \/ Adopt(r, h) \/ Resolve(r, used)
  BY DEF Does, Start, RunStep, MakeCheck, LeaveLoop, InterruptPush, Push, Save, Die, memory
<1>. QED
  BY <1>1, <1>2, <1>3, <1>4, <1>5

\* A name means one value for as long as a run lasts: what was read first or minted is
\* never replaced under a step that has already used it.  (adopt and _value.)
NameKeepsItsValue ==
  [][\A r \in Runs, n \in Names : store[r][n] # None => store'[r][n] = store[r][n]]_vars

\* A name means one value for as long as a run lasts, however the runs overlap and
\* whatever fails.
THEOREM NamesAreStable == Spec => NameKeepsItsValue
<1>1. ASSUME TypeOK, [Next]_vars
      PROVE  [\A r \in Runs, n \in Names : store[r][n] # None => store'[r][n] = store[r][n]]_vars
  <2>1. CASE UNCHANGED vars
    BY <2>1
  <2>2. CASE Land
    BY <2>2 DEF Land, memory
  <2>3. CASE ~UNCHANGED vars /\ ~Land
    BY <1>1, <2>3, SomeRunDoes, StoreStays
  <2>. QED
    BY <2>1, <2>2, <2>3
<1>. QED
  BY <1>1, TypeCorrect, PTL DEF Spec, NameKeepsItsValue

-----------------------------------------------------------------------------
(***************************************************************************)
(* With one run at a time and files that can be read, nothing is lost in   *)
(* silence.                                                                *)
(***************************************************************************)
OneAtATime == ~Concurrent /\ ~ReadsFail

\* One run at most is under way.
Alone == \A r, s \in Runs : Live(r) /\ Live(s) => r = s

\* No value of a run is about before the run resolves anything.
Unseen ==
  \A r \in Runs : phase[r] \in {"idle", "adopt"} =>
    /\ \A h \in Servers, n \in Names : file[h][n] # r
    /\ \A s \in Runs, n \in Names : store[s][n] # r
    /\ \A w \in left, n \in Names : w.book[n] # r

\* The servers whose files run r has been through.
Read(r) == IF phase[r] = "adopt" THEN Fleet[r] \ todo[r] ELSE Fleet[r]

\* An unfinished write had brought that value there, or may bring it.
Late(h, n, value) == \E w \in left : w.server = h /\ w.book[n] = value

\* The run under way knows every line of the files it has been through, save those that
\* a late install had put there.
Gathered ==
  \A r \in Runs : Live(r) /\ keeps[r] =>
    \A h \in Read(r), n \in Names :
      file[h][n] # None =>
        file[h][n] = store[r][n] \/ <<h, n>> \in clashed[r] \/ Late(h, n, file[h][n])

\* Somebody was told why the server has not what run r minted under that name, or an
\* unfinished write may have taken it away.
Excused(r, h, n) ==
  \/ h \in warned[r]
  \/ \E s \in Runs : <<h, n>> \in clashed[s]
  \/ \E w \in left : w.server = h /\ w.book[n] # r

\* The server has it, and whoever may write there next knows it; or it is excused.
Reached(r, h, n) ==
  \/ Excused(r, h, n)
  \/ /\ file[h][n] = r
     /\ \A s \in Runs : Live(s) /\ keeps[s] /\ h \in Read(s) => store[s][n] = r

\* A push under way has reached the servers it is done with.
Pushed ==
  \A r \in Runs : phase[r] \in {"push", "lastpush"} =>
    /\ keeps[r]
    /\ \A h \in Fleet[r] \ todo[r], n \in Names : Minted(r, n) => Reached(r, h, n)

\* What counts as saved has reached every server of its run.
Settled ==
  \A r \in Runs, n \in Names : keeps[r] /\ Minted(r, n) /\ ~unsaved[r] =>
    \A h \in Fleet[r] : Reached(r, h, n)

KeptInv ==
  /\ TypeOK
  /\ Alone
  /\ Unseen
  /\ Gathered
  /\ Pushed
  /\ Settled

\* What was reported stays reported, and only a push touches a file.
LEMMA OnlyGrows ==
  ASSUME TypeOK, NEW r \in Runs, NEW h \in Servers, NEW used \in SUBSET Names,
         Does(r, h, used)
  PROVE  /\ keeps' = keeps
         /\ \A s \in Runs : clashed[s] \subseteq clashed'[s] /\ warned[s] \subseteq warned'[s]
         /\ left \subseteq left'
         /\ UNCHANGED file \/ Push(r, h)
<1>0. left \subseteq left'
  BY LateFacts
<1>1. keeps' = keeps /\ (UNCHANGED file \/ Push(r, h))
  BY DEF Does, Start, Adopt, RunStep, MakeCheck, LeaveLoop, InterruptPush, Push, Save, Die
<1>2. CASE Adopt(r, h)
  BY <1>0, <1>1, <1>2, AdoptFacts DEF Adopt
<1>3. CASE Push(r, h)
  BY <1>0, <1>1, <1>3, PushFacts DEF Push
<1>4. Adopt(r, h) \/ Push(r, h) \/ UNCHANGED told
  BY DEF Does, Start, RunStep, MakeCheck, LeaveLoop, InterruptPush, Save, Die
<1>5. CASE UNCHANGED told
  BY <1>0, <1>1, <1>5 DEF told
<1>. QED
  BY <1>2, <1>3, <1>4, <1>5

\* A run that pushes is under way and has been through every file.
LEMMA PusherHasRead ==
  ASSUME TypeOK, Pushed, NEW r \in Runs, NEW h \in Servers, Push(r, h)
  PROVE  keeps[r] /\ Live(r) /\ h \in Read(r)
<1>1. phase[r] \in {"push", "lastpush"} /\ h \in todo[r]
  BY DEF Push
<1>. QED
  BY <1>1 DEF Pushed, Live, Read, TypeOK

\* A line is lost or replaced only where the run that writes had reported it, or where
\* a late install had put the line.
LEMMA LineChange ==
  ASSUME TypeOK, Gathered, Pushed,
         NEW r \in Runs, NEW h \in Servers, NEW used \in SUBSET Names, Does(r, h, used),
         NEW g \in Servers, NEW n \in Names, file[g][n] # None, file'[g][n] # file[g][n]
  PROVE  <<g, n>> \in clashed[r] \/ Late(g, n, file[g][n])
<1>1. Push(r, h)
  BY OnlyGrows
<1>2. g = h /\ file'[g] = store[r]
  BY <1>1, PushFacts
<1>3. keeps[r] /\ Live(r) /\ h \in Read(r)
  BY <1>1, PusherHasRead
<1>. QED
  BY <1>2, <1>3 DEF Gathered

\* A run that acts was under way, or starts while none is.
LEMMA Actor ==
  ASSUME OneAtATime, NEW r \in Runs, NEW h \in Servers, NEW used \in SUBSET Names,
         Does(r, h, used)
  PROVE  Live(r) \/ (Start(r) /\ \A s \in Runs : ~Live(s))
BY DEF OneAtATime, Does, Start, Adopt, RunStep, MakeCheck, LeaveLoop, InterruptPush, Push,
       Save, Die, Live

\* While a run acts, no other is under way, before or after.
LEMMA AloneStep ==
  ASSUME OneAtATime, TypeOK, Alone, NEW r \in Runs, NEW h \in Servers,
         NEW used \in SUBSET Names, Does(r, h, used)
  PROVE  Alone' /\ \A s \in Runs \ {r} : ~Live(s) /\ ~Live(s)'
<1>1. \A s \in Runs \ {r} : ~Live(s)
  BY Actor DEF Alone
<1>2. \A s \in Runs \ {r} : ~Live(s)'
  BY <1>1, OthersStay DEF Live
<1>. QED
  BY <1>1, <1>2 DEF Alone

\* The run under way has been through the files it had been through before, and through
\* the one it has just taken in.
LEMMA ReadStep ==
  ASSUME OneAtATime, TypeOK, Alone, NEW r \in Runs, NEW h \in Servers,
         NEW used \in SUBSET Names, Does(r, h, used),
         NEW s \in Runs, Live(s)', keeps'[s], NEW g \in Read(s)'
  PROVE  s = r /\ keeps[r] /\ g \in Servers
         /\ ((Live(r) /\ g \in Read(r)) \/ (Adopt(r, h) /\ g = h))
<1>1. s = r
  BY AloneStep
<1>2. g \in Servers /\ keeps[r]
  BY <1>1, OnlyGrows, KeeperAssumption DEF Read
<1>3. ~Start(r)
  BY <1>1, <1>2, GoFacts DEF Start, Read, Phases
<1>4. Live(r)
  BY <1>3, Actor
<1>5. CASE Adopt(r, h) /\ g \notin Read(r)
  <2>1. phase[r] = "adopt" /\ Visited(r, h, "work")
    BY <1>5 DEF Adopt
  <2>2. todo'[r] = todo[r] \ {h} /\ phase'[r] = IF todo[r] = {h} THEN "work" ELSE phase[r]
    BY <2>1, VisitedFacts DEF Phases
  <2>3. g \in Fleet[r] /\ g \in todo[r]
    BY <1>1, <1>5, <2>1 DEF Read
  <2>4. g = h
    BY <1>1, <2>1, <2>2, <2>3 DEF Read
  <2>. QED
    BY <1>1, <1>2, <1>5, <2>4
<1>6. CASE ~Adopt(r, h)
  <2>1. ~Die(r)
    BY <1>1, GoFacts DEF Die, Live, Phases
  <2>2. phase[r] # "adopt"
    BY <1>3, <1>6, <2>1 DEF Does, RunStep, MakeCheck, LeaveLoop, InterruptPush, Push, Save
  <2>. QED
    BY <1>1, <1>2, <1>4, <2>2 DEF Read
<1>. QED
  BY <1>1, <1>2, <1>4, <1>5, <1>6

\* What is excused stays so.
LEMMA ExcusedStays ==
  ASSUME TypeOK, NEW r \in Runs, NEW h \in Servers, NEW used \in SUBSET Names,
         Does(r, h, used), NEW s \in Runs, NEW g \in Servers, NEW n \in Names, Excused(s, g, n)
  PROVE  Excused(s, g, n)'
BY OnlyGrows DEF Excused

\* A server that was reached, or accounted for, stays so.
LEMMA ReachedStays ==
  ASSUME OneAtATime, TypeOK, Alone, Pushed,
         NEW r \in Runs, NEW h \in Servers, NEW used \in SUBSET Names, Does(r, h, used),
         NEW s \in Runs, NEW g \in Servers, NEW n \in Names, Reached(s, g, n)
  PROVE  Reached(s, g, n)'
<1>1. CASE Excused(s, g, n)
  BY <1>1, ExcusedStays DEF Reached
<1>2. CASE ~Excused(s, g, n)
  <2>1. /\ file[g][n] = s /\ s # None
        /\ \A q \in Runs : Live(q) /\ keeps[q] /\ g \in Read(q) => store[q][n] = s
    BY <1>2, KeeperAssumption DEF Reached
  <2>2. file'[g][n] = s
    <3>1. CASE UNCHANGED file
      BY <2>1, <3>1
    <3>2. CASE Push(r, h)
      BY <2>1, <3>2, PushFacts, PusherHasRead
    <3>. QED
      BY <3>1, <3>2, OnlyGrows
  <2>3. ASSUME NEW q \in Runs, Live(q)', keeps'[q], g \in Read(q)', ~Excused(s, g, n)'
        PROVE  store'[q][n] = s
    <3>1. q = r /\ keeps[r] /\ ((Live(r) /\ g \in Read(r)) \/ (Adopt(r, h) /\ g = h))
      BY <2>3, ReadStep
    <3>2. CASE Live(r) /\ g \in Read(r)
      BY <2>1, <3>1, <3>2, StoreStays
    <3>3. CASE Adopt(r, h) /\ g = h
      <4>1. <<g, n>> \notin clashed'[r]
        BY <2>3 DEF Excused
      <4>. QED
        BY <2>1, <3>1, <3>3, <4>1, AdoptFacts DEF OneAtATime
    <3>. QED
      BY <3>1, <3>2, <3>3
  <2>. QED
    BY <2>2, <2>3 DEF Reached
<1>. QED
  BY <1>1, <1>2

\* The values of a run appear with its first placeholder, and not before.
LEMMA UnseenStep ==
  ASSUME TypeOK, Unseen, NEW r \in Runs, NEW h \in Servers, NEW used \in SUBSET Names,
         Does(r, h, used)
  PROVE  Unseen'
<1>. SUFFICES ASSUME NEW s \in Runs, phase'[s] \in {"idle", "adopt"}
              PROVE  /\ \A g \in Servers, n \in Names : file'[g][n] # s
                     /\ \A q \in Runs, n \in Names : store'[q][n] # s
                     /\ \A w \in left', n \in Names : w.book[n] # s
  BY DEF Unseen
<1>1. phase[s] \in {"idle", "adopt"} /\ (s = r => Start(r) \/ Adopt(r, h))
  <2>1. CASE s # r
    BY <2>1, OthersStay
  <2>2. CASE s = r
    <3>1. CASE RunStep(r, h, used) \/ MakeCheck(r, used) \/ LeaveLoop(r, h, used)
      BY <2>2, <3>1, GoFacts DEF RunStep, MakeCheck, LeaveLoop, Phases
    <3>2. CASE Push(r, h)
      BY <2>2, <3>2, VisitedFacts DEF Push, Phases
    <3>3. CASE InterruptPush(r) \/ Save(r) \/ Die(r)
      BY <2>2, <3>3, GoFacts DEF InterruptPush, Save, Die, Phases
    <3>4. CASE Start(r) \/ Adopt(r, h)
      BY <2>2, <3>4 DEF Start, Adopt
    <3>. QED
      BY <2>2, <3>1, <3>2, <3>3, <3>4 DEF Does
  <2>. QED
    BY <2>1, <2>2
<1>2. /\ \A g \in Servers, n \in Names : file[g][n] # s
      /\ \A q \in Runs, n \in Names : store[q][n] # s
      /\ \A w \in left, n \in Names : w.book[n] # s
  BY <1>1 DEF Unseen
<1>3. \A g \in Servers, n \in Names : file'[g][n] # s
  <2>1. CASE UNCHANGED file
    BY <1>2, <2>1
  <2>2. CASE Push(r, h)
    BY <1>2, <2>2, PushFacts
  <2>. QED
    BY <2>1, <2>2, OnlyGrows
<1>4. \A n \in Names : store'[r][n] # s
  <2>1. CASE Adopt(r, h)
    BY <1>2, <2>1, AdoptFacts
  <2>2. CASE Resolve(r, used) /\ s # r
    BY <1>2, <2>2, ResolveFacts
  <2>3. CASE UNCHANGED store
    BY <1>2, <2>3
  <2>4. Adopt(r, h) \/ Resolve(r, used) \/ UNCHANGED store
    BY DEF Does, Start, RunStep, MakeCheck, LeaveLoop, InterruptPush, Push, Save, Die, memory
  <2>5. s = r => Adopt(r, h) \/ UNCHANGED store
    BY <1>1 DEF Start, memory
  <2>. QED
    BY <2>1, <2>2, <2>3, <2>4, <2>5
<1>5. \A q \in Runs, n \in Names : store'[q][n] # s
  BY <1>2, <1>4, OthersStay
<1>6. \A w \in left', n \in Names : w.book[n] # s
  BY <1>2, LateFacts DEF Write, Exports, late
<1>. QED
  BY <1>3, <1>5, <1>6

\* The run under way goes on knowing every line of the files it has been through.
LEMMA GatheredStep ==
  ASSUME OneAtATime, TypeOK, Alone, Gathered, Pushed,
         NEW r \in Runs, NEW h \in Servers, NEW used \in SUBSET Names, Does(r, h, used)
  PROVE  Gathered'
<1>. SUFFICES ASSUME NEW s \in Runs, Live(s)', keeps'[s],
                     NEW g \in Read(s)', NEW n \in Names, file'[g][n] # None
              PROVE  \/ file'[g][n] = store'[s][n]
                     \/ <<g, n>> \in clashed'[s]
                     \/ Late(g, n, file[g][n])'
  BY DEF Gathered
<1>1. /\ s = r /\ keeps[r] /\ g \in Servers
      /\ (Live(r) /\ g \in Read(r)) \/ (Adopt(r, h) /\ g = h)
  BY ReadStep
<1>2. CASE Live(r) /\ g \in Read(r) /\ file'[g][n] = file[g][n]
  <2>1. file[g][n] = store[r][n] \/ <<g, n>> \in clashed[r] \/ Late(g, n, file[g][n])
    BY <1>1, <1>2 DEF Gathered
  <2>2. CASE file[g][n] = store[r][n]
    BY <1>1, <1>2, <2>2, StoreStays
  <2>3. CASE <<g, n>> \in clashed[r]
    BY <1>1, <2>3, OnlyGrows
  <2>4. CASE Late(g, n, file[g][n])
    BY <1>2, <2>4, OnlyGrows DEF Late
  <2>. QED
    BY <2>1, <2>2, <2>3, <2>4
<1>3. CASE file'[g][n] # file[g][n]
  <2>1. Push(r, h)
    BY <1>3, OnlyGrows
  <2>. QED
    BY <1>1, <1>3, <2>1, PushFacts DEF Push
<1>4. CASE Adopt(r, h) /\ g = h
  BY <1>1, <1>4, AdoptFacts DEF OneAtATime, Adopt
<1>. QED
  BY <1>1, <1>2, <1>3, <1>4

\* A push has reached the server it was done with just now.
LEMMA JustPushed ==
  ASSUME OneAtATime, TypeOK, Alone, NEW r \in Runs, NEW h \in Servers,
         NEW used \in SUBSET Names, Does(r, h, used), Push(r, h),
         NEW n \in Names, store[r][n] = r
  PROVE  Reached(r, h, n)'
<1>1. CASE h \in warned'[r]
  BY <1>1 DEF Reached, Excused
<1>2. CASE file'[h] = store[r]
  <2>1. \A s \in Runs : Live(s)' => s = r
    BY AloneStep
  <2>2. store' = store
    BY DEF Push
  <2>. QED
    BY <1>2, <2>1, <2>2 DEF Reached
<1>. QED
  BY <1>1, <1>2, PushFacts

\* A push under way goes on having reached the servers it is done with.
LEMMA PushedStep ==
  ASSUME OneAtATime, TypeOK, Alone, Pushed,
         NEW r \in Runs, NEW h \in Servers, NEW used \in SUBSET Names, Does(r, h, used)
  PROVE  Pushed'
<1>. SUFFICES ASSUME NEW s \in Runs, phase'[s] \in {"push", "lastpush"}
              PROVE  /\ keeps'[s]
                     /\ \A g \in Fleet[s] \ todo'[s], n \in Names :
                          store'[s][n] = s => Reached(s, g, n)'
  BY DEF Pushed, Minted
<1>1. s = r
  BY AloneStep DEF Live
<1>2. CASE Push(r, h)
  <2>1. phase[r] \in {"push", "lastpush"}
    BY <1>2 DEF Push
  <2>2. keeps'[r]
    BY <2>1, OnlyGrows DEF Pushed
  <2>3. ASSUME NEW g \in Fleet[r] \ todo'[r], NEW n \in Names, store'[r][n] = r
        PROVE  Reached(r, g, n)'
    <3>0. g \in Servers /\ store[r][n] = r
      BY <1>2, <2>3, KeeperAssumption DEF Push
    <3>1. CASE g = h
      BY <1>2, <3>0, <3>1, JustPushed
    <3>2. CASE g # h
      <4>1. g \in Fleet[r] \ todo[r]
        BY <1>2, <2>3, <3>2, VisitedFacts DEF Push, Phases
      <4>. QED
        BY <2>1, <3>0, <4>1, ReachedStays DEF Pushed, Minted
    <3>. QED
      BY <3>1, <3>2
  <2>. QED
    BY <1>1, <2>2, <2>3
<1>3. CASE RunStep(r, h, used) \/ LeaveLoop(r, h, used)
  BY <1>1, <1>3, GoFacts, OnlyGrows DEF RunStep, LeaveLoop, Phases
<1>4. CASE InterruptPush(r)
  BY <1>1, <1>4, GoFacts, OnlyGrows DEF InterruptPush, Phases, Pushed
<1>5. CASE Start(r) \/ Save(r) \/ Die(r)
  BY <1>1, <1>5, GoFacts DEF Start, Save, Die, Phases
<1>6. CASE Adopt(r, h)
  BY <1>1, <1>6, VisitedFacts DEF Adopt, Phases
<1>7. CASE MakeCheck(r, used)
  BY <1>1, <1>7 DEF MakeCheck
<1>. QED
  BY <1>2, <1>3, <1>4, <1>5, <1>6, <1>7 DEF Does

\* What counts as saved has reached every server of its run, and stays there.
LEMMA SettledStep ==
  ASSUME OneAtATime, KeptInv,
         NEW r \in Runs, NEW h \in Servers, NEW used \in SUBSET Names, Does(r, h, used)
  PROVE  Settled'
<1>. USE DEF KeptInv
<1>. SUFFICES ASSUME NEW s \in Runs, NEW n \in Names, keeps'[s], store'[s][n] = s, ~unsaved'[s],
                     NEW g \in Fleet[s]
              PROVE  Reached(s, g, n)'
  BY DEF Settled, Minted
<1>1. keeps[s] /\ g \in Servers
  BY OnlyGrows, KeeperAssumption
<1>2. CASE ~unsaved[s] /\ store[s][n] = s
  <2>1. Reached(s, g, n)
    BY <1>1, <1>2 DEF Settled, Minted
  <2>. QED
    BY <1>1, <2>1, ReachedStays
<1>3. CASE s = r /\ unsaved[s]
  <2>1. Push(r, h) /\ todo[r] = {h}
    <3>1. CASE Push(r, h)
      BY <1>3, <3>1, PushFacts
    <3>2. CASE Resolve(r, used)
      BY <1>3, <3>2, ResolveFacts
    <3>3. CASE unsaved' = unsaved
      BY <1>3, <3>3
    <3>. QED
      BY <3>1, <3>2, <3>3
         DEF Does, Start, Adopt, RunStep, MakeCheck, LeaveLoop, InterruptPush, Save, Die, memory
  <2>2. store[r][n] = r /\ phase[r] \in {"push", "lastpush"}
    BY <1>3, <2>1 DEF Push
  <2>3. CASE g = h
    BY <1>1, <1>3, <2>1, <2>2, <2>3, JustPushed
  <2>4. CASE g # h
    BY <1>1, <1>3, <2>1, <2>2, <2>4, ReachedStays DEF Pushed, Minted
  <2>. QED
    BY <2>3, <2>4
<1>4. CASE s = r /\ ~unsaved[s] /\ store[s][n] # s
  <2>1. ~Adopt(r, h)
    BY <1>4, AdoptFacts DEF Unseen, Adopt
  <2>2. ~Resolve(r, used)
    BY <1>4, ResolveFacts
  <2>. QED
    BY <1>4, <2>1, <2>2
       DEF Does, Start, RunStep, MakeCheck, LeaveLoop, InterruptPush, Push, Save, Die, memory
<1>. QED
  BY <1>2, <1>3, <1>4, OthersStay

\* The inductive invariant holds at the start.
LEMMA KeptAtStart == Init => KeptInv
BY TypeAtStart, KeeperAssumption
   DEF Init, KeptInv, Alone, Unseen, Gathered, Pushed, Settled, Minted, Live, NoValues

\* A late install keeps it: what it changes is excused from then on, or was before.
LEMMA KeptByLand ==
  ASSUME KeptInv, Land
  PROVE  KeptInv'
<1>. USE DEF KeptInv
<1>1. PICK w \in loose :
        /\ w \in left /\ w.server \in Servers
        /\ file'[w.server] = w.book
        /\ \A g \in Servers \ {w.server} : file'[g] = file[g]
  BY LandFacts
<1>2. UNCHANGED <<keeps, phase, todo, store, unsaved, clashed, warned, left>>
  BY DEF Land, memory, told
<1>3. TypeOK'
  BY TypeStep DEF Next
<1>4. Alone'
  BY <1>2 DEF Alone, Live
<1>5. Unseen'
  BY <1>1, <1>2 DEF Unseen
<1>6. \A r \in Runs : Live(r)' = Live(r) /\ Read(r)' = Read(r)
  BY <1>2 DEF Live, Read
<1>7. \A r \in Runs : Read(r) \subseteq Servers
  BY KeeperAssumption DEF Read
<1>8. ASSUME NEW r \in Runs, Live(r), keeps[r], NEW h \in Read(r), NEW n \in Names,
             file'[h][n] # None
      PROVE  file'[h][n] = store[r][n] \/ <<h, n>> \in clashed[r] \/ Late(h, n, file[h][n])'
  <2>1. CASE h = w.server
    BY <1>1, <1>2, <2>1 DEF Late
  <2>2. CASE h # w.server
    BY <1>1, <1>2, <1>7, <1>8, <2>2 DEF Gathered, Late
  <2>. QED
    BY <2>1, <2>2
<1>9. Gathered'
  BY <1>2, <1>6, <1>8 DEF Gathered
<1>10. ASSUME NEW r \in Runs, NEW h \in Servers, NEW n \in Names, Reached(r, h, n)
       PROVE  Reached(r, h, n)'
  <2>1. CASE Excused(r, h, n) \/ (h = w.server /\ w.book[n] # r)
    BY <1>1, <1>2, <2>1 DEF Excused, Reached
  <2>2. CASE ~Excused(r, h, n) /\ ~(h = w.server /\ w.book[n] # r)
    <3>1. file'[h][n] = r
      BY <1>1, <1>10, <2>2 DEF Reached
    <3>. QED
      BY <1>2, <1>6, <1>10, <2>2, <3>1 DEF Reached
  <2>. QED
    BY <2>1, <2>2
<1>11. Pushed'
  BY <1>2, <1>10, KeeperAssumption DEF Pushed, Minted
<1>12. Settled'
  BY <1>2, <1>10, KeeperAssumption DEF Settled, Minted
<1>. QED
  BY <1>3, <1>4, <1>5, <1>9, <1>11, <1>12

\* With one run at a time, every step keeps it.
LEMMA KeptStep ==
  ASSUME OneAtATime, KeptInv, [Next]_vars
  PROVE  KeptInv'
<1>1. CASE UNCHANGED vars
  BY <1>1 DEF KeptInv, TypeOK, Alone, Unseen, Gathered, Pushed, Settled, Reached, Excused,
              Late, Read, Minted, Live, Visiting, vars, memory, told, late
<1>2. CASE Land
  BY <1>2, KeptByLand
<1>3. CASE ~UNCHANGED vars /\ ~Land
  <2>1. PICK r \in Runs, h \in Servers, used \in SUBSET Names : Does(r, h, used)
    BY <1>3, SomeRunDoes
  <2>. QED
    BY <2>1, TypeStep, AloneStep, UnseenStep, GatheredStep, PushedStep, SettledStep DEF KeptInv
<1>. QED
  BY <1>1, <1>2, <1>3

\* With one run at a time and files that can be read, a credential that counts as saved
\* is on every server of its run, and no line of a keeper file goes, but where a warning
\* or a clash was reported or a write that had been given up on left its install running.
\* For any runs, fleets, names, failing writes and late installs.
THEOREM NothingLostInSilence ==
  ASSUME OneAtATime
  PROVE  Spec => []PushedOrTold /\ LinesStay
<1>1. Spec => []KeptInv
  BY KeptAtStart, KeptStep, PTL DEF Spec
<1>2. KeptInv => PushedOrTold
  BY DEF KeptInv, Settled, Reached, Excused, PushedOrTold
<1>3. ASSUME KeptInv, [Next]_vars
      PROVE  [\A h \in Servers, n \in Names :
                file[h][n] # None /\ file'[h][n] # file[h][n] =>
                  \/ \E r \in Runs : <<h, n>> \in clashed[r]
                  \/ \E w \in loose \ loose' : w.server = h
                  \/ \E w \in left : w.server = h /\ w.book[n] = file[h][n]]_vars
  <2>1. CASE UNCHANGED vars
    BY <2>1
  <2>2. CASE Land
    BY <1>3, <2>2, LandFacts DEF KeptInv
  <2>3. CASE ~UNCHANGED vars /\ ~Land
    BY <1>3, <2>3, SomeRunDoes, LineChange DEF KeptInv, Late
  <2>. QED
    BY <2>1, <2>2, <2>3
<1>. QED
  BY <1>1, <1>2, <1>3, PTL DEF Spec, LinesStay

\* A credential that counts as saved is on every server of its run, but where a warning or
\* a clash was reported or an unfinished write had left its install running.
COROLLARY NothingUntold ==
  ASSUME OneAtATime
  PROVE  Spec => []PushedOrTold
BY NothingLostInSilence, PTL

-----------------------------------------------------------------------------
(***************************************************************************)
(* What a run used is written down at its end.                             *)
(***************************************************************************)

\* A value that was given to a step is in the store.
GivenIsStored == \A r \in Runs, h \in Servers, n \in Names : <<h, n>> \in given[r] => store[r][n] # None

\* A run that has ended has written down its store.
EndedIsSaved == \A r \in Runs : phase[r] = "ended" => saved[r] = store[r]

\* Only a step gives a value away, to one server and once it is in the store.
LEMMA GivenStep ==
  ASSUME TypeOK, GivenIsStored, NEW r \in Runs, NEW h \in Servers, NEW used \in SUBSET Names,
         Does(r, h, used)
  PROVE  GivenIsStored'
<1>1. \/ UNCHANGED given
      \/ given' = [given EXCEPT ![r] = @ \cup ({h} \X used)] /\ Resolve(r, used)
  BY DEF Does, Start, Adopt, RunStep, MakeCheck, LeaveLoop, InterruptPush, Push, Save, Die, memory
<1>2. ASSUME NEW s \in Runs, NEW g \in Servers, NEW n \in Names, <<g, n>> \in given'[s],
             <<g, n>> \notin given[s]
      PROVE  store'[s][n] # None
  <2>1. given' = [given EXCEPT ![r] = @ \cup ({h} \X used)] /\ Resolve(r, used)
    BY <1>1, <1>2
  <2>2. s = r /\ n \in used
    BY <1>2, <2>1 DEF TypeOK
  <2>3. store'[r][n] = IF n \in used /\ store[r][n] = None THEN r ELSE store[r][n]
    BY <2>1, ResolveFacts
  <2>. QED
    BY <2>2, <2>3, KeeperAssumption
<1>3. ASSUME NEW s \in Runs, NEW g \in Servers, NEW n \in Names, <<g, n>> \in given[s]
      PROVE  store'[s][n] # None
  BY <1>3, StoreStays DEF GivenIsStored
<1>. QED
  BY <1>2, <1>3 DEF GivenIsStored

\* A run ends by writing its store down, and does nothing more.
LEMMA EndedStep ==
  ASSUME TypeOK, EndedIsSaved, NEW r \in Runs, NEW h \in Servers, NEW used \in SUBSET Names,
         Does(r, h, used)
  PROVE  EndedIsSaved'
<1>1. ASSUME NEW s \in Runs, s # r, phase'[s] = "ended"
      PROVE  saved'[s] = store'[s]
  <2>1. phase[s] = "ended" /\ store'[s] = store[s]
    BY <1>1, OthersStay
  <2>2. saved'[s] = saved[s]
    BY <1>1 DEF Does, Start, Adopt, RunStep, MakeCheck, LeaveLoop, InterruptPush, Push, Save, Die,
                TypeOK
  <2>. QED
    BY <2>1, <2>2 DEF EndedIsSaved
<1>2. ASSUME phase'[r] = "ended"
      PROVE  saved'[r] = store'[r]
  <2>1. CASE Save(r)
    BY <2>1 DEF Save, TypeOK, memory
  <2>2. CASE Start(r)
    BY <1>2, <2>2, GoFacts DEF Start, Phases
  <2>3. CASE Adopt(r, h)
    BY <1>2, <2>3, VisitedFacts DEF Adopt, Phases
  <2>4. CASE RunStep(r, h, used)
    <3>1. phase[r] = "work" /\ (Go(r, "push") \/ phase' = phase)
      BY <2>4 DEF RunStep
    <3>. QED
      BY <1>2, <3>1, GoFacts DEF Phases
  <2>5. CASE MakeCheck(r, used)
    BY <1>2, <2>5 DEF MakeCheck
  <2>6. CASE LeaveLoop(r, h, used)
    <3>1. Go(r, "lastpush") \/ Go(r, "save")
      BY <2>6 DEF LeaveLoop
    <3>. QED
      BY <1>2, <3>1, GoFacts DEF Phases
  <2>7. CASE InterruptPush(r)
    <3>1. Go(r, "lastpush") \/ Go(r, "save")
      BY <2>7 DEF InterruptPush
    <3>. QED
      BY <1>2, <3>1, GoFacts DEF Phases
  <2>8. CASE Push(r, h)
    <3>1. phase[r] \in {"push", "lastpush"} /\ (Visited(r, h, "work") \/ Visited(r, h, "save"))
      BY <2>8 DEF Push
    <3>. QED
      BY <1>2, <3>1, VisitedFacts DEF Phases
  <2>9. CASE Die(r)
    BY <1>2, <2>9, GoFacts DEF Die, Phases
  <2>. QED
    BY <2>1, <2>2, <2>3, <2>4, <2>5, <2>6, <2>7, <2>8, <2>9 DEF Does
<1>. QED
  BY <1>1, <1>2 DEF EndedIsSaved

\* A value a run took to a server is in its secrets.json once it has ended, however the
\* runs overlap and whatever fails, unless the process died.
THEOREM WrittenDown == Spec => []SavedAtTheEnd
<1>1. Init => TypeOK /\ GivenIsStored /\ EndedIsSaved
  BY TypeAtStart DEF Init, GivenIsStored, EndedIsSaved
<1>2. TypeOK /\ GivenIsStored /\ EndedIsSaved /\ [Next]_vars
        => (TypeOK /\ GivenIsStored /\ EndedIsSaved)'
  <2>. SUFFICES ASSUME TypeOK, GivenIsStored, EndedIsSaved, [Next]_vars
                PROVE  (TypeOK /\ GivenIsStored /\ EndedIsSaved)'
    OBVIOUS
  <2>1. CASE UNCHANGED vars
    BY <2>1, TypeStep DEF GivenIsStored, EndedIsSaved, vars, memory
  <2>2. CASE Land
    BY <2>2, TypeStep DEF Land, GivenIsStored, EndedIsSaved, memory
  <2>3. CASE ~UNCHANGED vars /\ ~Land
    <3>1. PICK r \in Runs, h \in Servers, used \in SUBSET Names : Does(r, h, used)
      BY <2>3, SomeRunDoes
    <3>. QED
      BY <3>1, TypeStep, GivenStep, EndedStep
  <2>. QED
    BY <2>1, <2>2, <2>3
<1>3. TypeOK /\ GivenIsStored /\ EndedIsSaved => SavedAtTheEnd
  BY DEF GivenIsStored, EndedIsSaved, SavedAtTheEnd
<1>. QED
  BY <1>1, <1>2, <1>3, PTL DEF Spec
-----------------------------------------------------------------------------
(***************************************************************************)
(* Refinement.  The promise sees what a run knows and has used, the files, *)
(* the records and whether the run is over; every action of a run is a     *)
(* step of the promise or is not seen by it.                               *)
(***************************************************************************)

\* Whether each run is under way, over or lost, as the promise sees it.
Standing ==
  [r \in Runs |-> CASE phase[r] = "ended" -> "closed"
                   [] phase[r] = "died"  -> "lost"
                   [] OTHER              -> "open"]

\* A run under a push has something new to tell and keeps credentials on its servers.
Owing == \A r \in Runs : phase[r] \in {"push", "lastpush"} => keeps[r] /\ unsaved[r]

\* A run under a push goes on owing until the last server was visited.
LEMMA OwingStep ==
  ASSUME TypeOK, Owing, [Next]_vars
  PROVE  Owing'
<1>1. CASE UNCHANGED vars
  BY <1>1 DEF Owing, vars, memory
<1>2. CASE Land
  BY <1>2 DEF Owing, Land, memory
<1>3. CASE ~UNCHANGED vars /\ ~Land
  <2>1. PICK r \in Runs, h \in Servers, used \in SUBSET Names : Does(r, h, used)
    BY <1>3, SomeRunDoes
  <2>2. keeps' = keeps
    BY <2>1, OnlyGrows
  <2>3. ASSUME NEW s \in Runs \ {r}, phase'[s] \in {"push", "lastpush"}
        PROVE  keeps'[s] /\ unsaved'[s]
    BY <2>1, <2>2, <2>3, OthersStay DEF Owing
  <2>4. ASSUME phase'[r] \in {"push", "lastpush"}
        PROVE  keeps'[r] /\ unsaved'[r]
    <3>. USE DEF Owing, Phases, memory
    <3>1. CASE Start(r)
      BY <2>4, <3>1, GoFacts DEF Start
    <3>2. CASE Adopt(r, h)
      BY <2>2, <2>4, <3>2, VisitedFacts DEF Adopt
    <3>3. CASE RunStep(r, h, used)
      BY <2>2, <2>4, <3>3, GoFacts DEF RunStep
    <3>4. CASE MakeCheck(r, used)
      BY <2>2, <2>4, <3>4 DEF MakeCheck
    <3>5. CASE LeaveLoop(r, h, used)
      BY <2>2, <2>4, <3>5, GoFacts DEF LeaveLoop
    <3>6. CASE InterruptPush(r)
      BY <2>2, <2>4, <3>6, GoFacts DEF InterruptPush
    <3>7. CASE Push(r, h)
      BY <2>2, <2>4, <3>7, VisitedFacts, PushFacts DEF Push
    <3>8. CASE Save(r)
      BY <2>4, <3>8, GoFacts DEF Save
    <3>9. CASE Die(r)
      BY <2>4, <3>9, GoFacts DEF Die
    <3>. QED
      BY <2>1, <3>1, <3>2, <3>3, <3>4, <3>5, <3>6, <3>7, <3>8, <3>9 DEF Does
  <2>. QED
    BY <2>3, <2>4 DEF Owing
<1>. QED
  BY <1>1, <1>2, <1>3

\* The promise sees of a run's place only whether it is over.
LEMMA StandingStays ==
  ASSUME TypeOK, NEW r \in Runs, phase[r] \notin {"ended", "died"},
         phase'[r] \notin {"ended", "died"}, \A s \in Runs \ {r} : phase'[s] = phase[s]
  PROVE  Standing' = Standing /\ Standing[r] = "open"
<1>1. Standing[r] = "open"
  BY DEF Standing
<1>2. \A s \in Runs : (CASE phase'[s] = "ended" -> "closed"
                         [] phase'[s] = "died"  -> "lost"
                         [] OTHER              -> "open") =
                       (CASE phase[s] = "ended" -> "closed"
                         [] phase[s] = "died"  -> "lost"
                         [] OTHER              -> "open")
  OBVIOUS
<1>. QED
  BY <1>1, <1>2 DEF Standing

\* And of a run that is over, how it ended.
LEMMA StandingEnds ==
  ASSUME TypeOK, NEW r \in Runs, phase[r] \notin {"ended", "died"},
         phase'[r] \in {"ended", "died"}, \A s \in Runs \ {r} : phase'[s] = phase[s]
  PROVE  /\ Standing[r] = "open"
         /\ Standing' = [Standing EXCEPT ![r] = IF phase'[r] = "ended" THEN "closed" ELSE "lost"]
BY DEF Standing

\* Run r comes to know book and takes some of it to servers, and that is all.
Learns(r, book, taken) ==
  /\ Standing[r] = "open" /\ Standing' = Standing
  /\ \A n \in Names :
       IF store[r][n] # None THEN book[n] = store[r][n]
       ELSE book[n] \in {None, r} \cup {file[h][n] : h \in Fleet[r]}
  /\ \A use \in taken : book[use[2]] # None
  /\ store' = [store EXCEPT ![r] = book]
  /\ given' = [given EXCEPT ![r] = @ \cup taken]
  /\ UNCHANGED <<keeps, file, loose, saved>>

\* Coming to know something is a step of the promise.
LEMMA LearnFits ==
  ASSUME TypeOK, NEW r \in Runs, NEW book \in Book, NEW taken \in SUBSET (Fleet[r] \X Names),
         Learns(r, book, taken)
  PROVE  Promise!Next
<1>. USE DEF Learns
<1>1. \A n \in Names : book[n] \in Promise!Open(r, n)
  BY DEF Promise!Open
<1>2. book \in [Names -> Promise!Values \cup {None}]
  BY DEF Book, Values, Promise!Values
<1>3. Promise!Learn(r)
  BY <1>1, <1>2 DEF Promise!Learn, Standing
<1>. QED
  BY <1>3 DEF Promise!Next

\* Resolving, and using what was resolved on servers of the run, is a step of the promise.
LEMMA ResolveFits ==
  ASSUME TypeOK, NEW r \in Runs, NEW used \in SUBSET Names, NEW where \in SUBSET Fleet[r],
         Resolve(r, used), Standing[r] = "open", Standing' = Standing,
         given' = [given EXCEPT ![r] = @ \cup (where \X used)],
         UNCHANGED <<keeps, file, loose, saved>>
  PROVE  Promise!Next
<1>. DEFINE book == [n \in Names |-> IF n \in used /\ store[r][n] = None THEN r ELSE store[r][n]]
             taken == where \X used
<1>1. book \in Book
  BY DEF TypeOK, Book, Values
<1>2. store' = [store EXCEPT ![r] = book]
  BY DEF Resolve
<1>3. \A n \in Names :
        IF store[r][n] # None THEN book[n] = store[r][n]
        ELSE book[n] \in {None, r} \cup {file[h][n] : h \in Fleet[r]}
  OBVIOUS
<1>4. \A use \in taken : book[use[2]] # None
  BY KeeperAssumption
<1>5. taken \in SUBSET (Fleet[r] \X Names)
  OBVIOUS
<1>6. given' = [given EXCEPT ![r] = @ \cup taken]
  OBVIOUS
<1>. HIDE DEF book, taken
<1>7. Learns(r, book, taken)
  BY <1>2, <1>3, <1>4, <1>6 DEF Learns
<1>. QED
  BY <1>1, <1>5, <1>7, LearnFits

\* Taking a file in is a step of the promise.
LEMMA AdoptFits ==
  ASSUME TypeOK, NEW r \in Runs, NEW h \in Servers, Adopt(r, h)
  PROVE  Promise!Next
<1>. DEFINE book == store'[r]
             taken == {}
<1>1. h \in Fleet[r]
  BY DEF TypeOK, Adopt
<1>2. book \in Book
  BY AdoptFacts
<1>3. PICK read : store' = [store EXCEPT ![r] = FirstWins(@, read)]
  BY DEF Adopt
<1>4. store' = [store EXCEPT ![r] = book]
  BY <1>3 DEF TypeOK
<1>5. \A n \in Names :
        IF store[r][n] # None THEN book[n] = store[r][n]
        ELSE book[n] \in {None, r} \cup {file[g][n] : g \in Fleet[r]}
  BY <1>1, AdoptFacts
<1>6. Standing' = Standing /\ Standing[r] = "open"
  BY VisitedFacts, StandingStays DEF Adopt, Phases
<1>7. given' = [given EXCEPT ![r] = @ \cup taken]
  BY DEF TypeOK, Adopt
<1>8. UNCHANGED <<keeps, file, loose, saved>>
  BY DEF Adopt, late
<1>9. taken \in SUBSET (Fleet[r] \X Names)
  OBVIOUS
<1>10. \A use \in taken : book[use[2]] # None
  OBVIOUS
<1>. HIDE DEF book, taken
<1>11. Learns(r, book, taken)
  BY <1>4, <1>5, <1>6, <1>7, <1>8, <1>10 DEF Learns
<1>. QED
  BY <1>2, <1>9, <1>11, LearnFits

\* A run under a push has something to tell, and the write it leaves behind is a letter
\* of the promise.
LEMMA PushMayTell ==
  ASSUME TypeOK, Owing, NEW r \in Runs, phase[r] \in {"push", "lastpush"}, NEW h \in todo[r]
  PROVE  /\ h \in Fleet[r] /\ Standing[r] = "open"
         /\ Promise!MayTell(r)
         /\ \E again \in BOOLEAN : Write(r, h) = Promise!Letter(r, h, again)
<1>1. h \in Fleet[r] /\ keeps[r] /\ \E n \in Names : store[r][n] = r
  BY DEF TypeOK, Owing, Minted
<1>2. Standing[r] = "open"
  BY DEF Standing
<1>3. Promise!MayTell(r)
  BY <1>1, <1>2 DEF Promise!MayTell, Standing
<1>4. Write(r, h) = Promise!Letter(r, h, phase[r] = "lastpush")
  BY DEF Write, Exports, Promise!Letter
<1>. QED
  BY <1>1, <1>2, <1>3, <1>4

\* An install left running by a run that goes on is one of the promise.
LEMMA LeftFits ==
  ASSUME TypeOK, Owing, NEW r \in Runs, phase[r] \in {"push", "lastpush"}, NEW h \in todo[r],
         Standing' = Standing, LeftRunning(r, h), UNCHANGED <<keeps, store, given, file, saved>>
  PROVE  Promise!Next
<1>1. PICK again \in BOOLEAN : Write(r, h) = Promise!Letter(r, h, again)
  BY PushMayTell
<1>2. Promise!MayTell(r) /\ h \in Fleet[r]
  BY PushMayTell
<1>3. loose' = loose \cup {Promise!Letter(r, h, again)}
  BY <1>1 DEF LeftRunning
<1>4. Promise!Send(r, h)
  BY <1>2, <1>3 DEF Promise!Send, Standing
<1>. QED
  BY <1>2, <1>4 DEF Promise!Next

\* A write to a server is one of the promise: the run minted something it still owes.
LEMMA PushFits ==
  ASSUME TypeOK, Owing, NEW r \in Runs, NEW h \in Servers, Push(r, h)
  PROVE  Promise!Next \/ UNCHANGED <<keeps, store, given, file, loose, Standing, saved>>
<1>1. Standing' = Standing
  BY VisitedFacts, StandingStays DEF Push, Phases
<1>2. UNCHANGED <<keeps, store, given, saved>> /\ phase[r] \in {"push", "lastpush"} /\ h \in todo[r]
  BY DEF Push
<1>3. CASE UNCHANGED <<file, late>>
  BY <1>1, <1>2, <1>3 DEF late
<1>4. CASE file' = [file EXCEPT ![h] = store[r]] /\ UNCHANGED late
  <2>1. h \in Fleet[r] /\ Promise!MayTell(r)
    BY <1>2, PushMayTell
  <2>2. Promise!Tell(r, h)
    BY <1>1, <1>2, <1>4, <2>1 DEF Promise!Tell, Standing, late
  <2>. QED
    BY <2>1, <2>2 DEF Promise!Next
<1>5. CASE UNCHANGED file /\ LeftRunning(r, h)
  BY <1>1, <1>2, <1>5, LeftFits
<1>6. \/ UNCHANGED <<file, late>>
      \/ file' = [file EXCEPT ![h] = store[r]] /\ UNCHANGED late
      \/ UNCHANGED file /\ LeftRunning(r, h)
  BY DEF Push, Send, Exports
<1>. QED
  BY <1>3, <1>4, <1>5, <1>6

\* A late install is a letter that arrives.
LEMMA LandFits ==
  ASSUME TypeOK, Land
  PROVE  Promise!Next
<1>1. PICK w \in loose : file' = [file EXCEPT ![w.server] = w.book] /\ loose' = loose \ {w}
  BY DEF Land
<1>2. UNCHANGED <<keeps, store, given, saved>> /\ Standing' = Standing
  BY DEF Land, memory, Standing
<1>3. Promise!Arrive(w)
  BY <1>1, <1>2 DEF Promise!Arrive, Standing
<1>. QED
  BY <1>3 DEF Promise!Next

\* A run that dies is lost to the promise, with a write under way or without one.
LEMMA DieFits ==
  ASSUME TypeOK, Owing, NEW r \in Runs, Die(r)
  PROVE  Promise!Next
<1>1. /\ Standing[r] = "open"
      /\ Standing' = [Standing EXCEPT ![r] = "lost"]
  BY GoFacts, StandingEnds DEF Die, Live, Phases
<1>2. UNCHANGED <<keeps, store, given, file, saved>>
  BY DEF Die, memory
<1>3. CASE UNCHANGED late
  <2>1. Promise!Lose(r)
    BY <1>1, <1>2, <1>3 DEF Promise!Lose, Standing, late
  <2>. QED
    BY <2>1 DEF Promise!Next
<1>4. CASE phase[r] \in {"push", "lastpush"} /\ \E h \in todo[r] : LeftRunning(r, h)
  <2>1. PICK h \in todo[r] : LeftRunning(r, h)
    BY <1>4
  <2>2. PICK again \in BOOLEAN : Write(r, h) = Promise!Letter(r, h, again)
    BY <1>4, PushMayTell
  <2>3. Promise!MayTell(r) /\ h \in Fleet[r]
    BY <1>4, PushMayTell
  <2>4. loose' = loose \cup {Promise!Letter(r, h, again)}
    BY <2>1, <2>2 DEF LeftRunning
  <2>5. Promise!Lose(r)
    BY <1>1, <1>2, <2>3, <2>4 DEF Promise!Lose, Standing
  <2>. QED
    BY <2>5 DEF Promise!Next
<1>. QED
  BY <1>3, <1>4 DEF Die, BreakOff

\* Every step of a run is a step of the promise, or unseen by it.
LEMMA PromiseStep ==
  ASSUME TypeOK, Owing, [Next]_vars
  PROVE  Promise!Next \/ UNCHANGED <<keeps, store, given, file, loose, Standing, saved>>
<1>1. CASE UNCHANGED vars
  BY <1>1 DEF vars, memory, late, Standing
<1>2. CASE Land
  BY <1>2, LandFits
<1>3. CASE ~UNCHANGED vars /\ ~Land
  <2>1. PICK r \in Runs, h \in Servers, used \in SUBSET Names : Does(r, h, used)
    BY <1>3, SomeRunDoes
  <2>. USE DEF Phases, memory, late
  <2>2. CASE Start(r)
    BY <2>2, GoFacts, StandingStays DEF Start
  <2>3. CASE Adopt(r, h)
    BY <2>3, AdoptFits
  <2>4. CASE RunStep(r, h, used)
    <3>1. Standing' = Standing /\ Standing[r] = "open"
      BY <2>4, GoFacts, StandingStays DEF RunStep
    <3>2. {h} \in SUBSET Fleet[r]
      BY <2>4 DEF RunStep
    <3>. QED
      BY <2>4, <3>1, <3>2, ResolveFits DEF RunStep
  <2>5. CASE MakeCheck(r, used)
    <3>. DEFINE nowhere == {}
    <3>1. Standing' = Standing /\ Standing[r] = "open"
      BY <2>5, StandingStays DEF MakeCheck
    <3>2. given' = [given EXCEPT ![r] = @ \cup (nowhere \X used)]
      BY <2>5 DEF TypeOK, MakeCheck
    <3>3. nowhere \in SUBSET Fleet[r]
      OBVIOUS
    <3>. HIDE DEF nowhere
    <3>. QED
      BY <2>5, <3>1, <3>2, <3>3, ResolveFits DEF MakeCheck
  <2>6. CASE LeaveLoop(r, h, used)
    <3>1. Standing' = Standing /\ Standing[r] = "open"
      BY <2>6, GoFacts, StandingStays DEF LeaveLoop
    <3>2. {h} \in SUBSET Fleet[r]
      BY <2>6 DEF LeaveLoop
    <3>. QED
      BY <2>6, <3>1, <3>2, ResolveFits DEF LeaveLoop
  <2>7. CASE InterruptPush(r)
    <3>1. Standing' = Standing
      BY <2>7, GoFacts, StandingStays DEF InterruptPush
    <3>2. UNCHANGED <<keeps, store, given, file, saved>>
      BY <2>7 DEF InterruptPush
    <3>3. CASE UNCHANGED late
      BY <3>1, <3>2, <3>3
    <3>4. CASE \E g \in todo[r] : LeftRunning(r, g)
      BY <2>7, <3>1, <3>2, <3>4, LeftFits DEF InterruptPush
    <3>. QED
      BY <2>7, <3>3, <3>4 DEF InterruptPush, BreakOff
  <2>8. CASE Push(r, h)
    BY <2>8, PushFits
  <2>9. CASE Save(r)
    <3>1. /\ Standing[r] = "open"
          /\ Standing' = [Standing EXCEPT ![r] = "closed"]
      BY <2>9, GoFacts, StandingEnds DEF Save
    <3>2. Promise!Close(r)
      BY <2>9, <3>1 DEF Save, Promise!Close, Standing
    <3>. QED
      BY <3>2 DEF Promise!Next
  <2>10. CASE Die(r)
    BY <2>10, DieFits
  <2>. QED
    BY <2>1, <2>2, <2>3, <2>4, <2>5, <2>6, <2>7, <2>8, <2>9, <2>10 DEF Does
<1>. QED
  BY <1>1, <1>2, <1>3

\* The credentials keep what is promised of them, for any runs, overlapping or not, any
\* fleets and any failures.
THEOREM PromiseIsKept == Spec => KeepsPromise
<1>1. Init => Promise!Init
  <2>. SUFFICES ASSUME Init PROVE Promise!Init
    OBVIOUS
  <2>1. Standing = [r \in Runs |-> "open"]
    BY DEF Init, Standing
  <2>. QED
    BY <2>1 DEF Init, Promise!Init, NoValues, Promise!NoValues, Standing
<1>2. Init => Owing
  BY DEF Init, Owing
<1>3. TypeOK /\ Owing /\ [Next]_vars => [Promise!Next]_(Promise!vars)
  BY PromiseStep DEF Promise!vars, Standing
<1>4. TypeOK /\ Owing /\ [Next]_vars => TypeOK' /\ Owing'
  BY TypeStep, OwingStep
<1>. QED
  BY TypeAtStart, <1>1, <1>2, <1>3, <1>4, PTL DEF Spec, KeepsPromise, Promise!Spec
=============================================================================
