-------------------------- MODULE JobRecordsProofs --------------------------
(***************************************************************************)
(* Idempotency across races and restarts, for any clients, keys and ids.   *)
(***************************************************************************)
EXTENDS JobRecords, TLAPS

\* A handler between its first step and its commit is about a job that exists
\* and, while create_job runs, has the key it was asked for.
CallsAreSound ==
    \A c \in Client :
        /\ pc[c] \in {"submitted", "committing", "changed", "saving"} =>
              subject[c] \in used
        /\ pc[c] \in {"submitted", "committing"} => key[subject[c]] = wanted[c]
        /\ pc[c] \in {"submitted", "changed"} => memory[subject[c]] # "absent"
        /\ pc[c] \in {"committing", "saving"} => read[c] # "none"

\* Rows are of created jobs and no two share a key; answers are rows.
TableIsSound ==
    /\ \A j \in JobId : memory[j] # "absent" => j \in used
    /\ \A j \in JobId : record[j] # "none" => j \in used
    /\ \A i, j \in JobId :
          (record[i] # "none" /\ record[j] # "none" /\ key[i] = key[j] /\ key[i] # NoKey)
            => i = j
    /\ \A a \in answers : record[a.job] # "none" /\ key[a.job] = a.key

RecordInvariant == TypeOK /\ CallsAreSound /\ TableIsSound

LEMMA RecordInvariantInit == Init => RecordInvariant
  BY DEF Init, RecordInvariant, TypeOK, CallsAreSound, TableIsSound, Live, JobState

LEMMA RecordInvariantStep == RecordInvariant /\ [Next]_vars => RecordInvariant'
<1>. SUFFICES ASSUME RecordInvariant, [Next]_vars  PROVE RecordInvariant'
  OBVIOUS
<1>. USE JobIdAssumption, KeyAssumption
     DEF RecordInvariant, TypeOK, callVars, goto, Live, JobState
<1>1. ASSUME NEW c \in Client, NEW k \in Key \cup {NoKey}, Lookup(c, k)
      PROVE  RecordInvariant'
  <2>1. TypeOK'
    BY <1>1 DEF Lookup, Found, Rows, Answer
  <2>2. CallsAreSound'
    BY <1>1 DEF Lookup, CallsAreSound
  <2>3. TableIsSound'
    BY <1>1 DEF Lookup, Found, Rows, TableIsSound
  <2>. QED  BY <2>1, <2>2, <2>3
<1>2. ASSUME NEW c \in Client, Submit(c)  PROVE RecordInvariant'
  <2>0. PICK j \in JobId \ used, state \in {"queued", "running"} :
          /\ memory' = [memory EXCEPT ![j] = state]
          /\ key' = [key EXCEPT ![j] = wanted[c]]
          /\ used' = used \cup {j}
          /\ subject' = [subject EXCEPT ![c] = j]
    BY <1>2 DEF Submit
  <2>. USE <2>0
  <2>1. TypeOK'
    BY <1>2 DEF Submit
  <2>2. CallsAreSound'
    BY <1>2 DEF Submit, CallsAreSound
  <2>3. TableIsSound'
    BY <1>2 DEF Submit, TableIsSound, Answer
  <2>. QED  BY <2>1, <2>2, <2>3
<1>3. ASSUME NEW c \in Client, Read(c)  PROVE RecordInvariant'
  <2>0. subject[c] \in JobId /\ memory[subject[c]] # "absent" /\ subject[c] \in used
    BY <1>3 DEF Read, CallsAreSound
  <2>1. TypeOK'
    BY <1>3, <2>0 DEF Read
  <2>2. CallsAreSound'
    BY <1>3, <2>0 DEF Read, CallsAreSound
  <2>3. TableIsSound'
    BY <1>3 DEF Read, TableIsSound
  <2>. QED  BY <2>1, <2>2, <2>3
<1>4. ASSUME NEW c \in Client, Commit(c)  PROVE RecordInvariant'
  <2>0. subject[c] \in JobId /\ subject[c] \in used /\ read[c] # "none"
    BY <1>4 DEF Commit, CallsAreSound
  <2>1. TypeOK'
    BY <1>4, <2>0 DEF Commit, Answer
  <2>2. CallsAreSound'
    BY <1>4, <2>0 DEF Commit, CallsAreSound
  <2>3. TableIsSound'
    <3>1. CASE Conflict(subject[c])
      BY <1>4, <3>1 DEF Commit, TableIsSound
    <3>2. CASE ~ Conflict(subject[c])
      <4>1. \A i \in JobId : (record[i] # "none" /\ key[i] = key[subject[c]]
                                /\ key[i] # NoKey) => i = subject[c]
        BY <3>2 DEF Conflict, Rows
      <4>2. record' = [record EXCEPT ![subject[c]] = read[c]] /\ UNCHANGED <<key, used, memory>>
        BY <1>4, <3>2 DEF Commit
      <4>3. \A a \in answers' : a \in answers \/ (pc[c] = "committing" /\ a.job = subject[c]
                                                    /\ a.key = wanted[c])
        BY <1>4, <3>2 DEF Commit
      <4>4. \A a \in answers' : record'[a.job] # "none" /\ key'[a.job] = a.key
        BY <2>0, <4>2, <4>3 DEF TableIsSound, CallsAreSound, Answer
      <4>. QED  BY <2>0, <4>1, <4>2, <4>4 DEF TableIsSound
    <3>. QED  BY <3>1, <3>2
  <2>. QED  BY <2>1, <2>2, <2>3
<1>5. ASSUME NEW c \in Client, NEW j \in JobId, Change(c, j)  PROVE RecordInvariant'
  <2>1. TypeOK'
    BY <1>5 DEF Change
  <2>2. CallsAreSound'
    BY <1>5 DEF Change, CallsAreSound, TableIsSound
  <2>3. TableIsSound'
    BY <1>5 DEF Change, TableIsSound
  <2>. QED  BY <2>1, <2>2, <2>3
<1>6. ASSUME NEW j \in JobId, Reschedule(j)  PROVE RecordInvariant'
  <2>1. TypeOK'
    BY <1>6 DEF Reschedule
  <2>2. CallsAreSound'
    BY <1>6 DEF Reschedule, CallsAreSound
  <2>3. TableIsSound'
    BY <1>6 DEF Reschedule, TableIsSound
  <2>. QED  BY <2>1, <2>2, <2>3
<1>7. CASE Restart
  <2>1. TypeOK'
    BY <1>7 DEF Restart
  <2>2. CallsAreSound'
    BY <1>7 DEF Restart, CallsAreSound
  <2>3. TableIsSound'
    BY <1>7 DEF Restart, TableIsSound
  <2>. QED  BY <2>1, <2>2, <2>3
<1>8. ASSUME NEW c \in Client, Fail(c)  PROVE RecordInvariant'
  <2>1. TypeOK'
    BY <1>8 DEF Fail, CallsAreSound
  <2>2. CallsAreSound'
    BY <1>8 DEF Fail, CallsAreSound
  <2>3. TableIsSound'
    BY <1>8 DEF Fail, TableIsSound
  <2>. QED  BY <2>1, <2>2, <2>3
<1>9. CASE UNCHANGED vars
  BY <1>9 DEF vars, CallsAreSound, TableIsSound
<1>. QED
  BY <1>1, <1>2, <1>3, <1>4, <1>5, <1>6, <1>7, <1>8, <1>9 DEF Next

\* The inductive invariant of the records: handlers, rows and answers are sound.
THEOREM RecordInvariantHolds == Safety => []RecordInvariant
  BY RecordInvariantInit, RecordInvariantStep, PTL DEF Safety

\* Jobs, rows, answers and the handlers' notes keep their types; a job in the
\* table never has a state that a save could not have read.
THEOREM RecordsTypeCorrect == Safety => []TypeOK
<1>1. RecordInvariant => TypeOK
  BY DEF RecordInvariant
<1>. QED  BY <1>1, RecordInvariantHolds, PTL

\* Two successful calls with one key never name different jobs.
THEOREM SameAnswerAlways == Safety => []SameAnswer
<1>1. RecordInvariant => SameAnswer
  BY DEF RecordInvariant, TypeOK, TableIsSound, SameAnswer, Answer
<1>. QED  BY <1>1, RecordInvariantHolds, PTL

\* What a caller was told to exist is in the table for good.
THEOREM AnsweredAlwaysRecorded == Safety => []AnsweredIsRecorded
<1>1. RecordInvariant => AnsweredIsRecorded
  BY DEF RecordInvariant, TableIsSound, AnsweredIsRecorded
<1>. QED  BY <1>1, RecordInvariantHolds, PTL

-----------------------------------------------------------------------------
\* What a save in flight owes: a job that nothing came between has at most one
\* handler; once the handler has read, what it read is still so; and when there
\* is none, the row is the job's.
SavesAreDue ==
    \A j \in JobId \ contested : memory[j] # "absent" =>
        /\ About(j) = {} => record[j] = memory[j]
        /\ \A c, d \in About(j) : c = d
        /\ \A c \in About(j) : pc[c] \in {"committing", "saving"} => read[c] = memory[j]

LEMMA SavesAreDueInit == Init => SavesAreDue
  BY DEF Init, SavesAreDue

\* The save of a job that nothing comes between is made, and is of its state.
LEMMA SavesAreDueStep ==
  ASSUME RecordInvariant, SavesAreDue, [Next]_vars
  PROVE  SavesAreDue'
<1>. USE JobIdAssumption, KeyAssumption DEF callVars, goto
<1>0. TypeOK /\ CallsAreSound /\ TableIsSound
  BY DEF RecordInvariant
<1>1. ASSUME NEW c \in Client, NEW k \in Key \cup {NoKey}, Lookup(c, k)
      PROVE  SavesAreDue'
  <2>1. UNCHANGED <<memory, record, contested, subject, read>>
    BY <1>1 DEF Lookup
  <2>2. \A d \in Client : pc'[d] = pc[d] \/ (pc[d] = "idle" /\ pc'[d] = "missed")
    BY <1>0, <1>1 DEF Lookup, TypeOK
  <2>3. \A j \in JobId : About(j)' = About(j)
    BY <2>1, <2>2 DEF About
  <2>4. \A j \in JobId : About(j) \subseteq Client
    BY DEF About
  <2>. QED  BY <2>1, <2>2, <2>3, <2>4 DEF SavesAreDue
<1>2. ASSUME NEW c \in Client, Submit(c)  PROVE SavesAreDue'
  <2>1. PICK i \in JobId \ used, state \in {"queued", "running"} :
          /\ memory' = [memory EXCEPT ![i] = state]
          /\ subject' = [subject EXCEPT ![c] = i]
    BY <1>2 DEF Submit
  <2>2. /\ UNCHANGED <<record, contested, read>>
        /\ pc[c] = "missed" /\ pc' = [pc EXCEPT ![c] = "submitted"]
    BY <1>2 DEF Submit
  <2>3. About(i) = {}
    BY <1>0 DEF About, CallsAreSound
  <2>4. About(i)' = {c}
    BY <1>0, <2>1, <2>2, <2>3 DEF About, TypeOK
  <2>5. ASSUME NEW j \in JobId, j # i
        PROVE  About(j)' = About(j) /\ c \notin About(j) /\ memory'[j] = memory[j]
    BY <1>0, <2>1, <2>2, <2>5 DEF About, TypeOK
  <2>6. \A d \in Client : d # c => pc'[d] = pc[d]
    BY <1>0, <2>2 DEF TypeOK
  <2>7. pc'[c] = "submitted"
    BY <1>0, <2>2 DEF TypeOK
  <2>8. \A j \in JobId : About(j) \subseteq Client
    BY DEF About
  <2>. QED
    BY <2>2, <2>4, <2>5, <2>6, <2>7, <2>8 DEF SavesAreDue
<1>3. ASSUME NEW c \in Client, Read(c)  PROVE SavesAreDue'
  <2>1. /\ UNCHANGED <<memory, record, contested, subject>>
        /\ read' = [read EXCEPT ![c] = memory[subject[c]]]
    BY <1>3 DEF Read
  <2>2. \A d \in Client : d # c => pc'[d] = pc[d] /\ read'[d] = read[d]
    BY <1>0, <1>3 DEF Read, TypeOK
  <2>3. \A j \in JobId : About(j)' = About(j)
    BY <1>0, <1>3 DEF Read, About, TypeOK
  <2>4. read'[c] = memory[subject[c]]
    BY <1>0, <2>1 DEF TypeOK
  <2>5. \A j \in JobId : \A d \in About(j) : subject[d] = j /\ d \in Client
    BY DEF About
  <2>. QED  BY <2>1, <2>2, <2>3, <2>4, <2>5 DEF SavesAreDue
<1>4. ASSUME NEW c \in Client, Commit(c)  PROVE SavesAreDue'
  <2>. DEFINE i == subject[c]
  <2>1. /\ UNCHANGED memory /\ i \in JobId /\ c \in About(i)
        /\ pc[c] \in {"committing", "saving"}
    BY <1>0, <1>4 DEF Commit, CallsAreSound, TypeOK, About
  <2>2. \A j \in JobId : About(j)' = About(j) \ {c}
    BY <1>0, <1>4 DEF Commit, About, TypeOK
  <2>3. \A d \in Client : d # c => pc'[d] = pc[d] /\ read'[d] = read[d]
    BY <1>0, <1>4 DEF Commit, TypeOK
  <2>4. \A j \in JobId : (j # i => c \notin About(j)) /\ About(j) \subseteq Client
    BY DEF About
  <2>5. CASE Conflict(i)
    <3>1. contested' = contested \cup {i} /\ UNCHANGED record
      BY <1>4, <2>5 DEF Commit
    <3>. HIDE DEF i
    <3>. QED  BY <2>1, <2>2, <2>3, <2>4, <3>1 DEF SavesAreDue
  <2>6. CASE ~ Conflict(i)
    <3>1. UNCHANGED contested /\ record' = [record EXCEPT ![i] = read[c]]
      BY <1>4, <2>6 DEF Commit
    <3>2. \A j \in JobId : record'[j] = IF j = i THEN read[c] ELSE record[j]
      BY <1>0, <3>1 DEF TypeOK
    <3>. HIDE DEF i
    <3>. QED  BY <2>1, <2>2, <2>3, <2>4, <3>1, <3>2 DEF SavesAreDue
  <2>. QED  BY <2>5, <2>6
<1>5. ASSUME NEW c \in Client, NEW i \in JobId, Change(c, i)  PROVE SavesAreDue'
  <2>1. PICK state \in {"queued", "running", "ended"} : memory' = [memory EXCEPT ![i] = state]
    BY <1>5 DEF Change
  <2>2. /\ UNCHANGED <<record, read>>
        /\ pc[c] = "idle" /\ pc' = [pc EXCEPT ![c] = "changed"]
        /\ subject' = [subject EXCEPT ![c] = i] /\ memory[i] # "absent"
        /\ contested' = IF About(i) = {} THEN contested ELSE contested \cup {i}
    BY <1>5 DEF Change
  <2>3. About(i)' = About(i) \cup {c} /\ pc'[c] = "changed"
    BY <1>0, <2>2 DEF About, TypeOK
  <2>4. ASSUME NEW j \in JobId, j # i
        PROVE  About(j)' = About(j) /\ c \notin About(j) /\ memory'[j] = memory[j]
    BY <1>0, <2>1, <2>2, <2>4 DEF About, TypeOK
  <2>5. \A d \in Client : d # c => pc'[d] = pc[d]
    BY <1>0, <2>2 DEF TypeOK
  <2>6. \A j \in JobId : About(j) \subseteq Client
    BY DEF About
  <2>. QED
    BY <2>2, <2>3, <2>4, <2>5, <2>6 DEF SavesAreDue
<1>6. ASSUME NEW i \in JobId, Reschedule(i)  PROVE SavesAreDue'
  <2>1. /\ contested' = contested \cup {i} /\ UNCHANGED <<record, callVars>>
        /\ \A j \in JobId : j # i => memory'[j] = memory[j]
    BY <1>0, <1>6 DEF Reschedule, TypeOK
  <2>2. \A j \in JobId : About(j)' = About(j)
    BY <2>1 DEF About
  <2>. QED  BY <2>1, <2>2 DEF SavesAreDue
<1>7. CASE Restart
  BY <1>7 DEF Restart, SavesAreDue
<1>8. ASSUME NEW c \in Client, Fail(c)  PROVE SavesAreDue'
  <2>1. /\ UNCHANGED <<memory, record>> /\ subject[c] \in JobId
        /\ contested' = contested \cup {subject[c]}
    BY <1>0, <1>8 DEF Fail, CallsAreSound, TypeOK
  <2>2. \A d \in Client : d # c => pc'[d] = pc[d] /\ read'[d] = read[d]
    BY <1>0, <1>8 DEF Fail, TypeOK
  <2>3. \A j \in JobId : j # subject[c] =>
           About(j)' = About(j) /\ c \notin About(j) /\ About(j) \subseteq Client
    BY <1>0, <1>8 DEF Fail, About, TypeOK
  <2>. QED  BY <2>1, <2>2, <2>3 DEF SavesAreDue
<1>9. CASE UNCHANGED vars
  <2>1. \A j \in JobId : About(j)' = About(j)
    BY <1>9 DEF vars, About
  <2>. QED  BY <1>9, <2>1 DEF vars, SavesAreDue
<1>. QED
  BY <1>1, <1>2, <1>3, <1>4, <1>5, <1>6, <1>7, <1>8, <1>9 DEF Next

\* A row lags only behind a job that a reconcile moved, that two handlers
\* changed at once or whose save was refused or failed.
THEOREM RowsAlwaysKeepUp == Safety => []RowsKeepUp
<1>1. SavesAreDue => RowsKeepUp
  BY DEF SavesAreDue, RowsKeepUp
<1>. QED
  BY <1>1, RecordInvariantHolds, SavesAreDueInit, SavesAreDueStep, PTL DEF Safety

-----------------------------------------------------------------------------
\* Each step of the records is a step of the registry, or none.
LEMMA RegistryStep ==
  ASSUME RecordInvariant, [Next]_vars
  PROVE  [Registry!Next]_<<Registered, answers>>
<1>0. TypeOK /\ CallsAreSound /\ TableIsSound
  BY DEF RecordInvariant
\* Enough: what the table has it keeps, under the same key.
<1>1. ASSUME UNCHANGED answers, \A j \in JobId : record'[j] # "none" <=> record[j] # "none",
             \A j \in JobId : record[j] # "none" => key'[j] = key[j]
      PROVE  [Registry!Next]_<<Registered, answers>>
  <2>1. Registered' = Registered
    BY <1>1 DEF Registered, Answer
  <2>. QED  BY <1>1, <2>1
<1>2. ASSUME NEW c \in Client, NEW k \in Key \cup {NoKey}, Lookup(c, k)
      PROVE  [Registry!Next]_<<Registered, answers>>
  <2>1. UNCHANGED <<record, key>>
    BY <1>2 DEF Lookup
  <2>2. CASE UNCHANGED answers
    BY <1>1, <2>1, <2>2
  <2>3. CASE \E j \in Found(k) : answers' = answers \cup {[key |-> k, job |-> j]}
    <3>1. PICK j \in Found(k) : answers' = answers \cup {[key |-> k, job |-> j]}
      BY <2>3
    <3>2. [key |-> k, job |-> j] \in Registered
      BY <3>1 DEF Found, Rows, Registered, Answer
    <3>3. Registered' = Registered
      BY <2>1 DEF Registered
    <3>. QED
      BY <3>1, <3>2, <3>3
      DEF Registry!Next, Registry!Tell, Registry!Entry, Registered, Answer
  <2>. QED  BY <1>2, <2>2, <2>3 DEF Lookup
<1>3. ASSUME NEW c \in Client, Submit(c)  PROVE [Registry!Next]_<<Registered, answers>>
  <2>1. PICK j \in JobId \ used : key' = [key EXCEPT ![j] = wanted[c]]
    BY <1>3 DEF Submit
  <2>2. UNCHANGED <<record, answers>>
    BY <1>3 DEF Submit
  <2>. QED  BY <1>0, <1>1, <2>1, <2>2 DEF TypeOK, TableIsSound
<1>4. ASSUME NEW c \in Client, Commit(c)  PROVE [Registry!Next]_<<Registered, answers>>
  <2>1. CASE Conflict(subject[c])
    BY <1>1, <1>4, <2>1 DEF Commit
  <2>2. CASE ~ Conflict(subject[c])
    <3>. DEFINE j == subject[c]
                a == [key |-> key[j], job |-> j]
    <3>1. /\ j \in JobId /\ read[c] # "none" /\ a \in Answer
          /\ pc[c] = "committing" => key[j] = wanted[c]
      BY <1>0, <1>4 DEF Commit, CallsAreSound, TypeOK, Answer
    <3>2. /\ UNCHANGED key /\ record' = [record EXCEPT ![j] = read[c]]
          /\ answers' = answers \cup (IF pc[c] = "committing"
                                        THEN {[key |-> wanted[c], job |-> j]} ELSE {})
      BY <1>4, <2>2 DEF Commit
    <3>3. answers' \in {answers, answers \cup {a}}
      BY <3>1, <3>2
    <3>4. Registered' = Registered \cup {a}
      <4>1. \A i \in JobId : record'[i] # "none" <=> (record[i] # "none" \/ i = j)
        BY <1>0, <3>1, <3>2 DEF TypeOK
      <4>2. \A b \in Answer : b.job \in JobId /\ (b = a <=> (b.job = j /\ b.key = key[j]))
        BY <3>1 DEF Answer
      <4>. HIDE DEF a, j
      <4>. QED  BY <3>1, <3>2, <4>1, <4>2 DEF Registered
    <3>5. CASE record[j] # "none"
      <4>1. a \in Registered
        BY <3>1, <3>5 DEF Registered
      <4>2. Registered' = Registered
        BY <3>4, <4>1
      <4>3. answers' = answers \/ Registry!Tell(a)
        BY <3>3, <4>1, <4>2 DEF Registry!Tell, Registered
      <4>. QED  BY <3>1, <4>2, <4>3 DEF Registry!Next, Registry!Entry, Answer
    <3>6. CASE record[j] = "none"
      <4>1. ASSUME NEW b \in Registered  PROVE b.job # a.job /\ (b.key = a.key => a.key = NoKey)
        <5>1. b.job \in JobId /\ record[b.job] # "none" /\ b.key = key[b.job]
          BY DEF Registered, Answer
        <5>2. b.job # j
          BY <3>6, <5>1
        <5>3. key[b.job] = key[j] => key[j] = NoKey
          BY <2>2, <5>1, <5>2 DEF Conflict, Rows
        <5>. QED  BY <5>1, <5>2, <5>3
      <4>2. Registry!Register(a)
        BY <3>3, <3>4, <4>1 DEF Registry!Register, Registry!Free, Registered
      <4>. QED  BY <3>1, <4>2 DEF Registry!Next, Registry!Entry, Answer
    <3>. QED  BY <3>5, <3>6
  <2>. QED  BY <2>1, <2>2
<1>5. ASSUME UNCHANGED <<record, key, answers>>
      PROVE  [Registry!Next]_<<Registered, answers>>
  BY <1>1, <1>5
<1>6. ASSUME NEW c \in Client, Read(c) \/ Fail(c) \/ \E j \in JobId : Change(c, j)
      PROVE  [Registry!Next]_<<Registered, answers>>
  BY <1>5, <1>6 DEF Read, Fail, Change
<1>7. ASSUME (\E j \in JobId : Reschedule(j)) \/ Restart
      PROVE  [Registry!Next]_<<Registered, answers>>
  BY <1>5, <1>7 DEF Reschedule, Restart
<1>8. CASE UNCHANGED vars
  BY <1>5, <1>8 DEF vars
<1>. QED
  BY <1>2, <1>3, <1>4, <1>6, <1>7, <1>8 DEF Next

\* Lookup, submission and commit, interleaved with other callers, with saves
\* and with restarts, implement the registry of JobRegistry.
THEOREM RegistryIsImplemented == Safety => ImplementsRegistry
<1>1. Init => Registry!Init
  BY DEF Init, Registry!Init, Registered, Answer
<1>2. RecordInvariant /\ [Next]_vars => [Registry!Next]_<<Registered, answers>>
  BY RegistryStep
<1>. QED
  BY <1>1, <1>2, RecordInvariantHolds, PTL
  DEF Safety, ImplementsRegistry, Registry!Spec
=============================================================================
