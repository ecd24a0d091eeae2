------------------------- MODULE LogRotationProofs --------------------------
(***************************************************************************)
(* Proofs about the size of the log file, the order of its lines and what  *)
(* is kept of them, for any limit, any number of backups and any distance  *)
(* between two looks at the size.                                          *)
(***************************************************************************)
EXTENDS LogRotation, FiniteSetTheorems, WellFoundedInduction, TLAPS

TypeOK == /\ backups \in Nat
          /\ files \in [0..backups -> Seq(Nat)]
          /\ open \in BOOLEAN
          /\ checkTick \in 0..(CheckEvery - 1)
          /\ pc \in {"idle", "rename", "remove", "reopen", "write"}
          /\ todo \in Seq(Nat)
          /\ written \in Nat /\ restarts \in Nat /\ failures \in Nat

\* The renames rotate has still to do go down to the log file itself.
Renames == pc = "rename" => /\ Len(todo) \in 1..backups
                            /\ \A i \in 1..Len(todo) : todo[i] = Len(todo) - i

\* What the file may exceed its limit by after the looks that were postponed.
Slack == restarts * (CheckEvery - 1)

\* Unless an operation failed, the file is closed within a rotation only, and
\* its size follows the number of writes since the last look at it.
Growth ==
    failures = 0 =>
      /\ pc \in {"idle", "write"} => open
      /\ pc = "idle" => Len(files[0]) <= MaxSize + checkTick + Slack
      /\ pc = "write" => Len(files[0]) + 1 <= MaxSize + checkTick + Slack
      /\ pc \in {"rename", "remove"} =>
           checkTick = 0 /\ Len(files[0]) <= MaxSize + (CheckEvery - 1) + Slack
      /\ pc = "reopen" => checkTick = 0 /\ Len(files[0]) = 0

IInv == TypeOK /\ Renames /\ Growth

-----------------------------------------------------------------------------
\* A restart postpones the next look by all the writes but one between two.
LEMMA SlackFacts ==
    ASSUME TypeOK
    PROVE  /\ Slack \in Nat
           /\ restarts' = restarts => Slack' = Slack
           /\ restarts' = restarts + 1 => Slack' = Slack + (CheckEvery - 1)
<1>1. CheckEvery - 1 \in Nat
  BY LogAssumption
<1>2. \A r, c \in Nat : r * c \in Nat /\ (r + 1) * c = r * c + c
  OBVIOUS
<1> QED BY <1>1, <1>2 DEF TypeOK, Slack

LEMMA InitInv == Init => IInv
<1> SUFFICES ASSUME Init PROVE IInv
  OBVIOUS
<1>1. TypeOK
  BY LogAssumption DEF Init, TypeOK
<1>2. files[0] = <<>> /\ Len(files[0]) = 0
  BY <1>1 DEF Init, TypeOK
<1>3. Slack \in Nat
  BY <1>1, SlackFacts
<1> QED BY <1>1, <1>2, <1>3, LogAssumption DEF Init, IInv, Renames, Growth

\* The tick is 0 again after CheckEvery writes, and grows by 1 before.
LEMMA TickFacts ==
    ASSUME NEW t \in 0..(CheckEvery - 1)
    PROVE  /\ (t + 1) % CheckEvery \in 0..(CheckEvery - 1)
           /\ (t + 1) % CheckEvery # 0 => (t + 1) % CheckEvery = t + 1
           /\ (t + 1) % CheckEvery = 0 => t = CheckEvery - 1
<1>1. CASE t = CheckEvery - 1
  BY <1>1, LogAssumption
<1>2. CASE t # CheckEvery - 1
  <2>1. (t + 1) % CheckEvery = t + 1
    BY <1>2, LogAssumption
  <2> QED BY <2>1, <1>2, LogAssumption
<1> QED BY <1>1, <1>2

\* Write: the file is looked at when the tick is 0 again.  One that is not
\* full then has a line less than MaxSize, whatever the ticks before.
LEMMA WriteInv ==
    ASSUME IInv, Write
    PROVE  IInv'
<1> DEFINE tick == (checkTick + 1) % CheckEvery
           rotates == tick = 0 /\ open /\ Full(Len(files[0]))
<1> USE DEF IInv
<1>1. /\ tick \in 0..(CheckEvery - 1)
      /\ tick # 0 => tick = checkTick + 1
      /\ tick = 0 => checkTick = CheckEvery - 1
  BY TickFacts DEF TypeOK
<1>2. /\ pc = "idle" /\ checkTick' = tick
      /\ rotates => /\ pc' = (IF backups > 0 THEN "rename" ELSE "remove")
                    /\ todo' = Sources
      /\ ~rotates => pc' = "write" /\ todo' = todo /\ open' = open
      /\ open' \in BOOLEAN
      /\ UNCHANGED <<backups, files, written, restarts, failures>>
  BY DEF Write, TypeOK
<1> HIDE DEF tick
<1>3. Sources \in Seq(Nat) /\ Len(Sources) = backups
      /\ \A i \in 1..backups : Sources[i] = backups - i
  BY DEF Sources, TypeOK
<1>4. TypeOK'
  <2>1. todo' \in Seq(Nat)
    BY <1>2, <1>3 DEF TypeOK
  <2>2. pc' \in {"idle", "rename", "remove", "reopen", "write"}
    BY <1>2
  <2> QED BY <2>1, <2>2, <1>1, <1>2 DEF TypeOK
<1>5. Renames'
  <2> SUFFICES ASSUME pc' = "rename" PROVE Renames'
    BY DEF Renames
  <2>1. todo' = Sources /\ backups' = backups /\ backups > 0
    BY <1>2
  <2>2. Len(todo') = backups /\ \A k \in 1..backups : todo'[k] = backups - k
    BY <2>1, <1>3
  <2>3. backups \in 1..backups
    BY <2>1 DEF TypeOK
  <2> QED BY <2>1, <2>2, <2>3 DEF Renames
<1>6. Slack' = Slack /\ Slack \in Nat /\ Len(files[0]) \in Nat /\ files'[0] = files[0]
  BY <1>2, SlackFacts DEF TypeOK
<1>7. Growth'
  <2> SUFFICES ASSUME failures = 0 PROVE Growth'
    BY <1>2 DEF Growth
  <2>1. open /\ Len(files[0]) <= MaxSize + checkTick + Slack
    BY <1>2 DEF Growth
  <2>2. CASE rotates
    <3>1. pc' \in {"rename", "remove"} /\ checkTick' = 0
      BY <1>2, <2>2
    <3>2. Len(files[0]) <= MaxSize + (CheckEvery - 1) + Slack
      BY <2>1, <2>2, <1>1
    <3> QED BY <3>1, <3>2, <1>6 DEF Growth
  <2>3. CASE ~rotates
    <3>1. Len(files[0]) + 1 <= MaxSize + tick + Slack
      <4>1. CASE tick = 0
        <5>1. ~(Len(files[0]) >= MaxSize)
          BY <2>1, <2>3, <4>1 DEF Full
        <5> QED BY <5>1, <4>1, <1>6, LogAssumption
      <4>2. CASE tick # 0
        BY <2>1, <4>2, <1>1, <1>6, LogAssumption DEF TypeOK
      <4> QED BY <4>1, <4>2
    <3> QED BY <3>1, <2>1, <2>3, <1>2, <1>6 DEF Growth
  <2> QED BY <2>2, <2>3
<1> QED BY <1>4, <1>5, <1>7

\* What rotate renames next, and what it has to rename after that.
LEMMA TodoFacts ==
    ASSUME TypeOK, Renames, pc = "rename"
    PROVE  /\ Len(todo) \in 1..backups
           /\ Head(todo) = Len(todo) - 1
           /\ Head(todo) \in 0..backups /\ Head(todo) + 1 \in 1..backups
           /\ Tail(todo) \in Seq(Nat) /\ Len(Tail(todo)) = Len(todo) - 1
           /\ \A k \in 1..(Len(todo) - 1) : Tail(todo)[k] = Len(todo) - (k + 1)
<1>1. PICK n \in 1..backups : n = Len(todo) /\ \A k \in 1..n : todo[k] = n - k
  BY DEF Renames
<1>2. backups \in Nat /\ todo \in Seq(Nat) /\ n \in Nat /\ n >= 1 /\ n <= backups
  BY <1>1 DEF TypeOK
<1>3. todo # <<>>
  BY <1>1, <1>2
<1>4. Head(todo) = todo[1] /\ Tail(todo) \in Seq(Nat) /\ Len(Tail(todo)) = n - 1
  BY <1>1, <1>2, <1>3
<1>5. todo[1] = n - 1
  BY <1>1, <1>2
<1>6. n - 1 \in 0..backups /\ n - 1 + 1 \in 1..backups
  BY <1>2
<1>7. ASSUME NEW k \in 1..(n - 1) PROVE Tail(todo)[k] = n - (k + 1)
  <2>1. k + 1 \in 1..n
    BY <1>2
  <2>2. Tail(todo)[k] = todo[k + 1]
    BY <1>1, <1>2, <1>3
  <2> QED BY <2>1, <2>2, <1>1
<1> QED BY <1>1, <1>4, <1>5, <1>6, <1>7

\* rotate's renames: only the last one moves the log file itself.
LEMMA RenameInv ==
    ASSUME IInv, Rename
    PROVE  IInv'
<1> USE DEF IInv
<1> DEFINE i == Head(todo)
           moved == [files EXCEPT ![i + 1] = files[i], ![i] = <<>>]
<1>1. /\ pc = "rename"
      /\ pc' = (IF Len(todo) = 1 THEN "reopen" ELSE "rename")
      /\ todo' = Tail(todo)
      /\ UNCHANGED <<open, backups, checkTick, written, restarts>>
      /\ \/ /\ files' = IF files[i] = <<>> THEN files ELSE moved
            /\ failures' = failures
         \/ failures' = failures + 1 /\ files' = files
  BY DEF Rename, Attempt
<1>2. /\ Len(todo) \in 1..backups
      /\ i = Len(todo) - 1 /\ i \in 0..backups /\ i + 1 \in 1..backups
  BY <1>1, TodoFacts
<1>3. Tail(todo) \in Seq(Nat) /\ Len(Tail(todo)) = Len(todo) - 1
      /\ \A k \in 1..(Len(todo) - 1) : Tail(todo)[k] = Len(todo) - (k + 1)
  BY <1>1, TodoFacts
<1> HIDE DEF i
<1>4. /\ moved \in [0..backups -> Seq(Nat)]
      /\ moved[0] = IF i = 0 THEN <<>> ELSE files[0]
  <2>1. <<>> \in Seq(Nat) /\ files[i] \in Seq(Nat)
    BY <1>2 DEF TypeOK
  <2>2. i \in 0..backups /\ i + 1 \in 0..backups /\ backups \in Nat
    BY <1>2 DEF TypeOK
  <2>3. files \in [0..backups -> Seq(Nat)]
    BY DEF TypeOK
  <2> DEFINE g == [files EXCEPT ![i + 1] = files[i]]
  <2>4. g \in [0..backups -> Seq(Nat)] /\ (i # 0 => g[0] = files[0])
    BY <2>1, <2>2, <2>3
  <2>5. moved = [g EXCEPT ![i] = <<>>]
    OBVIOUS
  <2> HIDE DEF g, moved
  <2>6. [g EXCEPT ![i] = <<>>] \in [0..backups -> Seq(Nat)]
    BY <2>1, <2>2, <2>4
  <2>7. [g EXCEPT ![i] = <<>>][0] = IF i = 0 THEN <<>> ELSE g[0]
    BY <2>2, <2>4
  <2> QED BY <2>4, <2>5, <2>6, <2>7
<1>5. TypeOK'
  <2>1. files' \in [0..backups -> Seq(Nat)]
    BY <1>1, <1>4 DEF TypeOK
  <2>2. failures' \in Nat
    BY <1>1 DEF TypeOK
  <2>3. pc' \in {"idle", "rename", "remove", "reopen", "write"}
    BY <1>1
  <2> QED BY <2>1, <2>2, <2>3, <1>1, <1>3 DEF TypeOK
<1>6. Renames'
  <2> SUFFICES ASSUME pc' = "rename" PROVE Renames'
    BY DEF Renames
  <2>1. Len(todo) # 1 /\ Len(todo') = Len(todo) - 1 /\ backups' = backups
    BY <1>1, <1>3
  <2>2. PICK n \in 1..backups : n = Len(todo)
    BY <1>2
  <2>3. \A k \in 1..(n - 1) : todo'[k] = (n - 1) - k
    BY <2>2, <1>1, <1>3 DEF TypeOK
  <2>4. n - 1 \in 1..backups
    BY <2>1, <2>2 DEF TypeOK
  <2> QED BY <2>1, <2>2, <2>3, <2>4 DEF Renames
<1>7. Growth'
  <2> SUFFICES ASSUME failures' = 0 PROVE Growth'
    BY DEF Growth
  <2>1. failures = 0 /\ files' = (IF files[i] = <<>> THEN files ELSE moved)
    BY <1>1 DEF TypeOK
  <2>2. checkTick' = 0 /\ Len(files[0]) <= MaxSize + (CheckEvery - 1) + Slack /\ Slack' = Slack
    BY <1>1, <2>1, SlackFacts DEF Growth
  <2>3. CASE i = 0
    <3>1. Len(files'[0]) = 0
      BY <2>1, <2>3, <1>4
    <3>2. pc' = "reopen"
      BY <2>3, <1>1, <1>2 DEF TypeOK
    <3> QED BY <3>1, <3>2, <2>2 DEF Growth
  <2>4. CASE i # 0
    <3>1. files'[0] = files[0]
      BY <2>1, <2>4, <1>4
    <3>2. pc' = "rename"
      BY <2>4, <1>1, <1>2 DEF TypeOK
    <3> QED BY <3>1, <3>2, <2>2 DEF Growth
  <2> QED BY <2>3, <2>4
<1> QED BY <1>5, <1>6, <1>7

LEMMA DiscardInv ==
    ASSUME IInv, Discard
    PROVE  IInv'
<1> USE DEF IInv
<1>1. /\ pc = "remove" /\ pc' = "reopen"
      /\ UNCHANGED <<open, backups, checkTick, todo, written, restarts>>
      /\ \/ files' = [files EXCEPT ![0] = <<>>] /\ failures' = failures
         \/ failures' = failures + 1 /\ files' = files
  BY DEF Discard, Attempt
<1>2. TypeOK'
  <2>1. <<>> \in Seq(Nat)
    OBVIOUS
  <2>2. files' \in [0..backups -> Seq(Nat)]
    BY <2>1, <1>1 DEF TypeOK
  <2>3. failures' \in Nat
    BY <1>1 DEF TypeOK
  <2> QED BY <2>2, <2>3, <1>1 DEF TypeOK
<1>3. Growth'
  <2> SUFFICES ASSUME failures' = 0 PROVE Growth'
    BY DEF Growth
  <2>1. failures = 0 /\ files'[0] = <<>>
    BY <1>1 DEF TypeOK
  <2> QED BY <2>1, <1>1 DEF Growth
<1> QED BY <1>1, <1>2, <1>3 DEF Renames

LEMMA ReopenInv ==
    ASSUME IInv, Reopen
    PROVE  IInv'
<1> USE DEF IInv
<1>1. /\ pc = "reopen" /\ pc' = "write"
      /\ UNCHANGED <<files, backups, checkTick, todo, written, restarts>>
      /\ \/ open' = TRUE /\ failures' = failures
         \/ failures' = failures + 1 /\ open' = open
  BY DEF Reopen, Attempt
<1>2. TypeOK'
  <2>1. open' \in BOOLEAN
    BY <1>1 DEF TypeOK
  <2>2. failures' \in Nat
    BY <1>1 DEF TypeOK
  <2> QED BY <2>1, <2>2, <1>1 DEF TypeOK
<1>3. Growth'
  <2> SUFFICES ASSUME failures' = 0 PROVE Growth'
    BY DEF Growth
  <2>1. failures = 0 /\ open' = TRUE
    BY <1>1 DEF TypeOK
  <2>2. Slack' = Slack /\ Slack \in Nat
    BY <1>1, SlackFacts
  <2> QED BY <2>1, <2>2, <1>1, LogAssumption DEF Growth
<1> QED BY <1>1, <1>2, <1>3 DEF Renames

LEMMA WriteLineInv ==
    ASSUME IInv, WriteLine
    PROVE  IInv'
<1> USE DEF IInv
<1>1. /\ pc = "write" /\ pc' = "idle"
      /\ UNCHANGED <<open, backups, checkTick, todo, restarts>>
      /\ \/ files' = [files EXCEPT ![0] = Append(@, written + 1)] /\ failures' = failures
         \/ failures' \in {failures, failures + 1} /\ files' = files
      /\ written' \in {written, written + 1}
  BY DEF WriteLine, Attempt
<1>2. /\ Append(files[0], written + 1) \in Seq(Nat)
      /\ Len(Append(files[0], written + 1)) = Len(files[0]) + 1
      /\ Len(files[0]) \in Nat
  BY DEF TypeOK
<1>3. TypeOK'
  <2>1. files' \in [0..backups -> Seq(Nat)]
    BY <1>1, <1>2 DEF TypeOK
  <2>2. failures' \in Nat /\ written' \in Nat
    BY <1>1 DEF TypeOK
  <2> QED BY <2>1, <2>2, <1>1 DEF TypeOK
<1>4. Growth'
  <2> SUFFICES ASSUME failures' = 0 PROVE Growth'
    BY DEF Growth
  <2>1. failures = 0
    BY <1>1 DEF TypeOK
  <2>2. Slack' = Slack /\ Slack \in Nat
    BY <1>1, SlackFacts
  <2>3. Len(files'[0]) \in {Len(files[0]), Len(files[0]) + 1}
    BY <1>1, <1>2 DEF TypeOK
  <2>4. open /\ Len(files[0]) + 1 <= MaxSize + checkTick + Slack
    BY <2>1, <1>1 DEF Growth
  <2>5. Len(files'[0]) <= MaxSize + checkTick + Slack
    BY <2>2, <2>3, <2>4, <1>2, LogAssumption DEF TypeOK
  <2> QED BY <2>2, <2>4, <2>5, <1>1 DEF Growth
<1> QED BY <1>1, <1>3, <1>4 DEF Renames

\* A restart sets the tick back: the slack grows by as much as it can lose.
LEMMA RestartInv ==
    ASSUME IInv, Restart
    PROVE  IInv'
<1> USE DEF IInv
<1>1. /\ pc' = "idle" /\ todo' = <<>> /\ checkTick' = 0 /\ restarts' = restarts + 1
      /\ \/ open' = TRUE /\ failures' = failures
         \/ open' = FALSE /\ failures' = failures + 1
      /\ UNCHANGED <<backups, files, written>>
  BY DEF Restart
<1>2. TypeOK'
  <2>1. open' \in BOOLEAN
    BY <1>1
  <2>2. failures' \in Nat
    BY <1>1 DEF TypeOK
  <2>3. 0 \in 0..(CheckEvery - 1)
    BY LogAssumption
  <2> QED BY <2>1, <2>2, <2>3, <1>1 DEF TypeOK
<1>3. Growth'
  <2> SUFFICES ASSUME failures' = 0 PROVE Growth'
    BY DEF Growth
  <2>1. failures = 0 /\ open' = TRUE
    BY <1>1 DEF TypeOK
  <2>2. Slack' = Slack + (CheckEvery - 1) /\ Slack \in Nat
    BY <1>1, SlackFacts
  <2>3. Len(files[0]) <= MaxSize + (CheckEvery - 1) + Slack
    BY <2>1, <2>2, LogAssumption DEF Growth, TypeOK
  <2> QED BY <2>1, <2>2, <2>3, <1>1, LogAssumption DEF Growth
<1> QED BY <1>1, <1>2, <1>3 DEF Renames

\* The invariant is inductive: it holds in every state, whatever fails and
\* however often the process dies within a rotation.
THEOREM Invariant == Spec => []IInv
<1>1. Init => IInv
  BY InitInv
<1>2. ASSUME IInv, [Next]_vars PROVE IInv'
  <2>1. CASE Write      BY <2>1, <1>2, WriteInv
  <2>2. CASE Rename     BY <2>2, <1>2, RenameInv
  <2>3. CASE Discard    BY <2>3, <1>2, DiscardInv
  <2>4. CASE Reopen     BY <2>4, <1>2, ReopenInv
  <2>5. CASE WriteLine  BY <2>5, <1>2, WriteLineInv
  <2>6. CASE Restart    BY <2>6, <1>2, RestartInv
  <2>7. CASE UNCHANGED vars
    BY <2>7, <1>2 DEF vars, IInv, TypeOK, Renames, Growth, Slack
  <2> QED BY <2>1, <2>2, <2>3, <2>4, <2>5, <2>6, <2>7, <1>2 DEF Next
<1> QED BY <1>1, <1>2, PTL DEF Spec

\* The log file exceeds its limit by less than CheckEvery lines and what the
\* restarts postpone, for every limit and every number of backups.
THEOREM SizeIsBounded == Spec => []Bounded
<1>1. IInv => Bounded
  <2> SUFFICES ASSUME IInv, failures = 0
               PROVE  Len(files[0]) < MaxSize + CheckEvery + Slack
    BY DEF Bounded, Slack
  <2>1. Slack \in Nat /\ Len(files[0]) \in Nat
    BY SlackFacts DEF IInv, TypeOK
  <2> QED BY <2>1, LogAssumption DEF IInv, TypeOK, Growth
<1> QED BY <1>1, Invariant, PTL

-----------------------------------------------------------------------------
(* The order of the lines *)

\* The lines in the files are in order, the oldest in the last backup.
Ordered ==
    /\ \A i \in 0..backups : \A a, b \in 1..Len(files[i]) : a < b => files[i][a] < files[i][b]
    /\ \A i, j \in 0..backups : i < j =>
         \A a \in 1..Len(files[j]), b \in 1..Len(files[i]) : files[j][a] < files[i][b]
    /\ \A i \in 0..backups : \A a \in 1..Len(files[i]) : files[i][a] <= written

Has(n) == \E i \in 0..backups : \E a \in 1..Len(files[i]) : files[i][a] = n

\* Unless an operation failed, no line is missing after one that is there.
Complete ==
    failures = 0 => \A i \in 0..backups : \A a \in 1..Len(files[i]) :
                      \A n \in files[i][a]..written : Has(n)

\* A rename overwrites the last backup or nothing, unless one before it failed.
Targets == /\ pc = "remove" => backups = 0
           /\ failures = 0 /\ pc = "rename" /\ Len(todo) < backups => files[Len(todo)] = <<>>

OInv == Ordered /\ Complete /\ Targets

\* Steps that touch no line.
LEMMA SameLines ==
    ASSUME OInv, UNCHANGED <<backups, files, written>>, failures' = 0 => failures = 0, Targets'
    PROVE  OInv'
BY DEF OInv, Ordered, Complete, Has

\* What a rename that works makes of the files.
LEMMA MovedFacts ==
    ASSUME IInv, NEW i \in 0..backups, i + 1 \in 0..backups,
           files' = [files EXCEPT ![i + 1] = files[i], ![i] = <<>>]
    PROVE  \A j \in 0..backups :
             files'[j] = IF j = i THEN <<>> ELSE IF j = i + 1 THEN files[i] ELSE files[j]
BY DEF IInv, TypeOK

LEMMA RenameOrder ==
    ASSUME IInv, OInv, Rename
    PROVE  OInv'
<1> DEFINE i == Head(todo)
<1>1. /\ pc = "rename" /\ todo' = Tail(todo)
      /\ pc' = (IF Len(todo) = 1 THEN "reopen" ELSE "rename")
      /\ UNCHANGED <<backups, written>>
      /\ \/ /\ files' = IF files[i] = <<>> THEN files
                        ELSE [files EXCEPT ![i + 1] = files[i], ![i] = <<>>]
            /\ failures' = failures
         \/ failures' = failures + 1 /\ files' = files
  BY DEF Rename, Attempt
<1>2. /\ Len(todo) \in 1..backups /\ i = Len(todo) - 1
      /\ Len(Tail(todo)) = Len(todo) - 1
  BY <1>1, TodoFacts DEF IInv
<1> HIDE DEF i
<1>3. /\ i \in 0..backups /\ i + 1 \in 0..backups /\ i + 1 = Len(todo)
      /\ failures \in Nat /\ backups \in Nat /\ written \in Nat
      /\ \A j \in 0..backups : files[j] \in Seq(Nat)
  BY <1>2 DEF IInv, TypeOK
<1>4. CASE files' = files
  <2>1. failures' = 0 => failures = 0 /\ files[i] = <<>>
    <3>1. CASE failures' = failures + 1
      BY <3>1, <1>3
    <3>2. CASE failures' = failures /\ files[i] # <<>>
      <4>1. files' = [files EXCEPT ![i + 1] = files[i], ![i] = <<>>]
        BY <3>2, <1>1, <1>3
      <4>2. files'[i] = <<>>
        BY <4>1, <1>3, MovedFacts
      <4> QED BY <4>2, <3>2, <1>4
    <3> QED BY <3>1, <3>2, <1>1
  <2>2. Targets'
    BY <2>1, <1>1, <1>2, <1>4 DEF Targets
  <2> QED BY <2>1, <2>2, <1>1, <1>4, SameLines
<1>5. CASE files' # files
  <2>1. files' = [files EXCEPT ![i + 1] = files[i], ![i] = <<>>] /\ failures' = failures
    BY <1>1, <1>5
  <2> DEFINE src(j) == IF j = i + 1 THEN i ELSE j
  <2>2. \A j \in 0..backups :
          /\ j = i => Len(files'[j]) = 0
          /\ j # i => src(j) \in 0..backups /\ src(j) # i + 1 /\ files'[j] = files[src(j)]
    <3>1. \A j \in 0..backups :
             files'[j] = IF j = i THEN <<>> ELSE IF j = i + 1 THEN files[i] ELSE files[j]
      BY <2>1, <1>3, MovedFacts
    <3>2. \A j \in 0..backups : j = i => Len(files'[j]) = 0
      BY <3>1
    <3>3. \A j \in 0..backups : j # i => src(j) \in 0..backups /\ src(j) # i + 1
      BY <1>3
    <3>4. \A j \in 0..backups : j # i => files'[j] = files[src(j)]
      BY <3>1
    <3> QED BY <3>2, <3>3, <3>4
  <2>3. \A j, k \in 0..backups : j # i /\ k # i /\ j < k => src(j) < src(k)
    BY <1>3
  <2>4. \A j \in 0..backups : \A a \in 1..Len(files'[j]) : j # i
    BY <2>2
  <2>5. \A m \in 0..backups : m # i + 1 => \E j \in 0..backups : files'[j] = files[m]
    <3> TAKE m \in 0..backups
    <3>1. m = i => i + 1 # i /\ files'[i + 1] = files[m]
      BY <2>2, <1>3
    <3>2. m # i /\ m # i + 1 => files'[m] = files[m]
      BY <2>2
    <3> QED BY <3>1, <3>2, <1>3
  <2> HIDE DEF src
  <2>6. Ordered'
    <3>1. \A j \in 0..backups : \A a, b \in 1..Len(files'[j]) : a < b => files'[j][a] < files'[j][b]
      BY <2>2, <2>4 DEF OInv, Ordered
    <3>2. \A j, k \in 0..backups : j < k =>
            \A a \in 1..Len(files'[k]), b \in 1..Len(files'[j]) : files'[k][a] < files'[j][b]
      BY <2>2, <2>3, <2>4 DEF OInv, Ordered
    <3>3. \A j \in 0..backups : \A a \in 1..Len(files'[j]) : files'[j][a] <= written
      BY <2>2, <2>4 DEF OInv, Ordered
    <3> QED BY <3>1, <3>2, <3>3, <1>1 DEF Ordered
  <2>7. Complete'
    <3>0. backups' = backups /\ written' = written /\ failures' = failures /\ pc = "rename"
      BY <1>1, <2>1
    <3> SUFFICES ASSUME failures = 0, NEW j \in 0..backups, NEW a \in 1..Len(files'[j]),
                        NEW n \in files'[j][a]..written
                 PROVE  \E k \in 0..backups : \E b \in 1..Len(files'[k]) : files'[k][b] = n
      BY <3>0 DEF Complete, Has
    <3>1. PICK s \in 0..backups : s # i + 1 /\ files'[j] = files[s]
      BY <2>2, <2>4
    <3>2. PICK m \in 0..backups : \E b \in 1..Len(files[m]) : files[m][b] = n
      BY <3>1 DEF OInv, Complete, Has
    <3>3. m # i + 1
      <4> SUFFICES ASSUME m = i + 1 PROVE FALSE
        OBVIOUS
      <4>1. files[m] # <<>>
        BY <3>2
      <4>2. m = backups
        <5>1. ~(Len(todo) < backups)
          BY <4>1, <3>0, <1>3 DEF OInv, Targets
        <5> QED BY <5>1, <1>2, <1>3
      <4>3. PICK b \in 1..Len(files[m]) : files[m][b] = n
        BY <3>2
      <4>4. s < m
        BY <4>2, <3>1, <1>3
      <4>5. files[m][b] < files[s][a]
        BY <4>4, <3>1 DEF OInv, Ordered
      <4>6. files[s][a] \in Nat /\ n \in Int /\ files[s][a] <= n
        <5>1. files[s] \in Seq(Nat) /\ a \in 1..Len(files[s]) /\ n \in files[s][a]..written
          BY <3>1, <1>3
        <5>2. files[s][a] \in Nat
          BY <5>1
        <5> QED BY <5>1, <5>2, <1>3
      <4> QED BY <4>3, <4>5, <4>6
    <3> QED BY <3>2, <3>3, <2>5
  <2>8. Targets'
    <3>1. files'[i] = <<>>
      BY <2>1, <1>3, MovedFacts
    <3> QED BY <3>1, <1>1, <1>2 DEF Targets
  <2> QED BY <2>6, <2>7, <2>8 DEF OInv
<1> QED BY <1>4, <1>5

\* Without backups there is only the log file to remove.
LEMMA DiscardOrder ==
    ASSUME IInv, OInv, Discard
    PROVE  OInv'
<1>1. /\ pc = "remove" /\ pc' = "reopen" /\ UNCHANGED <<backups, written>>
      /\ \/ files' = [files EXCEPT ![0] = <<>>] /\ failures' = failures
         \/ failures' = failures + 1 /\ files' = files
  BY DEF Discard, Attempt
<1>2. backups = 0 /\ failures \in Nat
  BY <1>1 DEF IInv, OInv, Targets, TypeOK
<1>3. Targets'
  BY <1>1 DEF Targets
<1>4. CASE files' = files
  BY <1>1, <1>2, <1>3, <1>4, SameLines
<1>5. CASE files' = [files EXCEPT ![0] = <<>>]
  <2>1. \A j \in 0..backups : Len(files'[j]) = 0
    BY <1>2, <1>5 DEF IInv, TypeOK
  <2>2. Ordered' /\ Complete'
    BY <2>1, <1>1 DEF Ordered, Complete
  <2> QED BY <2>2, <1>3 DEF OInv
<1> QED BY <1>1, <1>4, <1>5

\* The line that is appended is the latest.
LEMMA WriteLineOrder ==
    ASSUME IInv, OInv, WriteLine
    PROVE  OInv'
<1>1. /\ pc = "write" /\ pc' = "idle" /\ UNCHANGED backups
      /\ \/ files' = [files EXCEPT ![0] = Append(@, written + 1)] /\ failures' = failures
         \/ failures' \in {failures, failures + 1} /\ files' = files
      /\ written' = IF files' # files THEN written + 1 ELSE written
  BY DEF WriteLine, Attempt
<1>2. failures \in Nat /\ written \in Nat /\ backups \in Nat
      /\ \A j \in 0..backups : files[j] \in Seq(Nat) /\ Len(files[j]) \in Nat
  BY DEF IInv, TypeOK
<1>3. Targets'
  BY <1>1 DEF Targets
<1>4. CASE files' = files
  BY <1>1, <1>2, <1>3, <1>4, SameLines
<1>5. CASE files' # files
  <2> DEFINE n == Len(files[0]) + 1
  <2>1. files' = [files EXCEPT ![0] = Append(files[0], written + 1)]
        /\ failures' = failures /\ written' = written + 1
    BY <1>1, <1>5
  <2>2. /\ \A j \in 0..backups : j # 0 => files'[j] = files[j]
        /\ files'[0] = Append(files[0], written + 1)
    BY <2>1, <1>2 DEF IInv, TypeOK
  <2>3. /\ Len(files'[0]) = n /\ n \in Nat /\ n > 0 /\ files'[0][n] = written + 1
        /\ \A a \in 1..n : a # n => a \in 1..Len(files[0]) /\ files'[0][a] = files[0][a]
        /\ \A a \in 1..Len(files[0]) : a \in 1..n /\ files'[0][a] = files[0][a]
    BY <2>2, <1>2
  <2> HIDE DEF n
  <2>4. \A j \in 0..backups : \A a \in 1..Len(files'[j]) :
          \/ j = 0 /\ a = n /\ files'[j][a] = written + 1
          \/ /\ a \in 1..Len(files[j]) /\ files'[j][a] = files[j][a]
             /\ files[j][a] \in Nat /\ files[j][a] <= written
    <3> TAKE j \in 0..backups
    <3> TAKE a \in 1..Len(files'[j])
    <3>1. CASE j = 0 /\ a = n
      BY <3>1, <2>3
    <3>2. CASE ~(j = 0 /\ a = n)
      <4>1. a \in 1..Len(files[j]) /\ files'[j][a] = files[j][a]
        BY <3>2, <2>2, <2>3
      <4>2. files[j][a] \in Nat
        BY <4>1, <1>2
      <4>3. files[j][a] <= written
        BY <4>1 DEF OInv, Ordered
      <4> QED BY <4>1, <4>2, <4>3
    <3> QED BY <3>1, <3>2
  <2>5. Ordered'
    <3>1. \A j \in 0..backups : \A a, b \in 1..Len(files'[j]) : a < b => files'[j][a] < files'[j][b]
      <4> TAKE j \in 0..backups
      <4> TAKE a, b \in 1..Len(files'[j])
      <4> HAVE a < b
      <4>1. ~(j = 0 /\ a = n)
        BY <2>3
      <4>2. a \in 1..Len(files[j]) /\ files'[j][a] = files[j][a] /\ files[j][a] <= written
            /\ files[j][a] \in Nat
        BY <4>1, <2>4
      <4>3. CASE j = 0 /\ b = n
        BY <4>2, <4>3, <2>3, <1>2
      <4>4. CASE ~(j = 0 /\ b = n)
        BY <4>2, <4>4, <2>4 DEF OInv, Ordered
      <4> QED BY <4>3, <4>4
    <3>2. \A j, k \in 0..backups : j < k =>
            \A a \in 1..Len(files'[k]), b \in 1..Len(files'[j]) : files'[k][a] < files'[j][b]
      <4> TAKE j, k \in 0..backups
      <4> HAVE j < k
      <4> TAKE a \in 1..Len(files'[k]), b \in 1..Len(files'[j])
      <4>1. a \in 1..Len(files[k]) /\ files'[k][a] = files[k][a] /\ files[k][a] <= written
            /\ files[k][a] \in Nat
        BY <2>4
      <4>2. CASE j = 0 /\ b = n
        BY <4>1, <4>2, <2>3, <1>2
      <4>3. CASE ~(j = 0 /\ b = n)
        BY <4>1, <4>3, <2>4 DEF OInv, Ordered
      <4> QED BY <4>2, <4>3
    <3>3. \A j \in 0..backups : \A a \in 1..Len(files'[j]) : files'[j][a] <= written + 1
      BY <2>4, <1>2
    <3> QED BY <3>1, <3>2, <3>3, <2>1, <1>1 DEF Ordered
  <2>6. Complete'
    <3> SUFFICES ASSUME failures = 0, NEW j \in 0..backups, NEW a \in 1..Len(files'[j]),
                        NEW l \in files'[j][a]..(written + 1)
                 PROVE  \E k \in 0..backups : \E b \in 1..Len(files'[k]) : files'[k][b] = l
      BY <1>1, <2>1 DEF Complete, Has
    <3>1. CASE l = written + 1
      <4>1. 0 \in 0..backups /\ n \in 1..Len(files'[0])
        BY <2>3, <1>2
      <4> QED BY <4>1, <3>1, <2>3
    <3>2. CASE l # written + 1
      <4>1. ~(j = 0 /\ a = n)
        BY <3>2, <2>3, <1>2
      <4>2. a \in 1..Len(files[j]) /\ l \in files[j][a]..written
        BY <4>1, <3>2, <2>4, <1>2
      <4>3. PICK k \in 0..backups : \E b \in 1..Len(files[k]) : files[k][b] = l
        BY <4>2 DEF OInv, Complete, Has
      <4>4. PICK b \in 1..Len(files[k]) : files[k][b] = l
        BY <4>3
      <4>5. b \in 1..Len(files'[k]) /\ files'[k][b] = l
        BY <4>4, <2>2, <2>3
      <4> QED BY <4>5
    <3> QED BY <3>1, <3>2
  <2> QED BY <2>5, <2>6, <1>3 DEF OInv
<1> QED BY <1>4, <1>5

\* That invariant is inductive, given the first one.
THEOREM OrderInvariant == Spec => []OInv
<1>1. Init => OInv
  <2> SUFFICES ASSUME Init PROVE OInv
    OBVIOUS
  <2>1. backups \in Nat /\ \A j \in 0..backups : Len(files[j]) = 0
    BY LogAssumption DEF Init
  <2> QED BY <2>1 DEF Init, OInv, Ordered, Complete, Targets
<1>2. ASSUME IInv, OInv, [Next]_vars PROVE OInv'
  <2>1. CASE Write
    <3>1. /\ UNCHANGED <<backups, files, written, failures>>
          /\ pc' \in {"write", IF backups > 0 THEN "rename" ELSE "remove"}
          /\ pc' = "rename" => todo' = Sources
      BY <2>1 DEF Write
    <3>2. Len(Sources) = backups /\ backups \in Nat
      BY <1>2 DEF Sources, IInv, TypeOK
    <3>3. Targets'
      BY <3>1, <3>2 DEF Targets
    <3> QED BY <3>1, <3>3, <1>2, SameLines
  <2>2. CASE Reopen
    <3>1. /\ UNCHANGED <<backups, files, written>> /\ pc' = "write"
          /\ failures' \in {failures, failures + 1} /\ failures \in Nat
      BY <2>2, <1>2 DEF Reopen, Attempt, IInv, TypeOK
    <3> QED BY <3>1, <1>2, SameLines DEF Targets
  <2>3. CASE Restart
    <3>1. /\ UNCHANGED <<backups, files, written>> /\ pc' = "idle"
          /\ failures' \in {failures, failures + 1} /\ failures \in Nat
      BY <2>3, <1>2 DEF Restart, IInv, TypeOK
    <3> QED BY <3>1, <1>2, SameLines DEF Targets
  <2>4. CASE UNCHANGED vars
    BY <2>4, <1>2, SameLines DEF vars, OInv, Targets
  <2> QED BY <2>1, <2>2, <2>3, <2>4, <1>2, RenameOrder, DiscardOrder, WriteLineOrder DEF Next
<1> QED BY <1>1, <1>2, Invariant, PTL DEF Spec

\* The lines in the files are in order from the last backup to the log file,
\* whatever failed and wherever the process died within a rotation; unless an
\* operation failed, they are the last lines written, without a gap.
THEOREM LinesInOrder == Spec => [](Ordered /\ Complete)
<1>1. OInv => Ordered /\ Complete
  BY DEF OInv
<1> QED BY <1>1, OrderInvariant, PTL

-----------------------------------------------------------------------------
(* Induction, on the least counterexample *)

\* A set of natural numbers that is not empty has a least element: induction is
\* done on the least counterexample.
LEMMA LeastNumber ==
    ASSUME NEW T, T \subseteq Nat, T # {}
    PROVE  \E x \in T : \A y \in T : x <= y
<1>1. PICK x \in T : \A y \in T : ~ (<<y, x>> \in OpToRel(<, Nat))
  BY NatLessThanWellFounded, WFMin, Zenon
<1>2. \A y \in T : ~ (y < x)
  BY <1>1 DEF OpToRel
<1> QED BY <1>2

\* f starts with a, and h gives each of its values from the one before.
Iterates(f, S, a, h) ==
    f \in [Nat -> S] /\ f[0] = a /\ \A n \in Nat : f[n + 1] = h[n][f[n]]

\* The function that a first value and a rule for the next one define exists.
LEMMA Iterate ==
    ASSUME NEW S, NEW a \in S, NEW h \in [Nat -> [S -> S]]
    PROVE  \E f : Iterates(f, S, a, h)
<1> DEFINE Upto(n) == {g \in [0..n -> S] :
                         g[0] = a /\ \A i \in 0..(n - 1) : g[i + 1] = h[i][g[i]]}
<1>1. \A n \in Nat : Upto(n) # {}
  <2> DEFINE T == {n \in Nat : Upto(n) = {}}
  <2> SUFFICES ASSUME T # {} PROVE FALSE
    OBVIOUS
  <2>1. PICK n \in T : \A m \in T : n <= m
    BY LeastNumber
  <2>2. n # 0
    <3>1. [i \in 0..0 |-> a] \in Upto(0)
      OBVIOUS
    <3> QED BY <3>1
  <2>3. PICK m \in Nat : n = m + 1
    BY <2>2
  <2> HIDE DEF T
  <2>4. m \notin T
    BY <2>1, <2>3
  <2> USE DEF T
  <2>5. PICK g \in Upto(m) : TRUE
    BY <2>4
  <2>6. [i \in 0..n |-> IF i = n THEN h[m][g[m]] ELSE g[i]] \in Upto(n)
    BY <2>3, <2>5
  <2> QED BY <2>6
<1>2. ASSUME NEW m \in Nat, NEW n \in Nat, NEW g \in Upto(m), NEW k \in Upto(n),
             NEW i \in Nat, i <= m, i <= n
      PROVE  g[i] = k[i]
  <2> DEFINE T == {j \in Nat : j <= m /\ j <= n /\ g[j] # k[j]}
  <2> SUFFICES ASSUME T # {} PROVE FALSE
    BY <1>2
  <2>1. PICK j \in T : \A l \in T : j <= l
    BY LeastNumber
  <2>2. j # 0
    OBVIOUS
  <2>3. PICK l \in Nat : j = l + 1
    BY <2>2
  <2>4. l \notin T
    BY <2>1, <2>3
  <2>5. g[l] = k[l] /\ g[l + 1] = h[l][g[l]] /\ k[l + 1] = h[l][k[l]]
    BY <2>3, <2>4
  <2> QED BY <2>3, <2>5
<1> DEFINE at == [n \in Nat |-> CHOOSE g : g \in Upto(n)]
<1>3. \A n \in Nat : at[n] \in Upto(n)
  BY <1>1
<1> HIDE DEF at
<1> DEFINE f == [n \in Nat |-> at[n][n]]
<1>4. f \in [Nat -> S] /\ f[0] = a
  BY <1>3
<1>5. ASSUME NEW n \in Nat PROVE f[n + 1] = h[n][f[n]]
  <2>1. n + 1 \in Nat /\ n <= n + 1
    OBVIOUS
  <2>2. at[n + 1] \in Upto(n + 1) /\ at[n] \in Upto(n)
    BY <1>3, <2>1
  <2>3. at[n + 1][n + 1] = h[n][at[n + 1][n]]
    <3>1. PICK g \in Upto(n + 1) : g = at[n + 1]
      BY <2>2
    <3>2. n \in 0..((n + 1) - 1)
      OBVIOUS
    <3> QED BY <3>1, <3>2
  <2> HIDE DEF Upto
  <2>4. at[n + 1][n] = at[n][n]
    BY <2>1, <2>2, <1>2
  <2> QED BY <2>3, <2>4
<1> QED BY <1>4, <1>5 DEF Iterates


\* f[i] is the first i of the sequences ss, one after the other, as FlattenSeq
\* joins them.
Flattens(f, ss) ==
    /\ f \in [1..Len(ss) -> Seq(Nat)]
    /\ f[1] = ss[1]
    /\ \A i \in 1..(Len(ss) - 1) : f[i + 1] = f[i] \o ss[i + 1]
    /\ FlattenSeq(ss) = f[Len(ss)]

\* FlattenSeq is what its definition says.
LEMMA FlattenDef ==
    ASSUME NEW ss \in Seq(Seq(Nat)), Len(ss) > 0
    PROVE  \E f : Flattens(f, ss)
<1>1. PICK N \in Nat : N = Len(ss) /\ N > 0
  OBVIOUS
<1>2. \A i \in 1..N : ss[i] \in Seq(Nat)
  BY <1>1
<1> DEFINE h == [n \in Nat |-> [x \in Seq(Nat) |-> IF n + 2 <= N THEN x \o ss[n + 2] ELSE x]]
<1>3. h \in [Nat -> [Seq(Nat) -> Seq(Nat)]]
  <2>1. \A n \in Nat, x \in Seq(Nat) :
          (IF n + 2 <= N THEN x \o ss[n + 2] ELSE x) \in Seq(Nat)
    <3> TAKE n \in Nat, x \in Seq(Nat)
    <3>1. CASE n + 2 <= N
      <4>1. ss[n + 2] \in Seq(Nat)
        BY <3>1, <1>2
      <4> QED BY <4>1
    <3> QED BY <3>1
  <2> QED BY <2>1
<1>4. \A n \in Nat, x \in Seq(Nat) : n + 2 <= N => h[n][x] = x \o ss[n + 2]
  OBVIOUS
<1> HIDE DEF h
<1>5. ss[1] \in Seq(Nat)
  BY <1>1, <1>2
<1>6. PICK g : Iterates(g, Seq(Nat), ss[1], h)
  BY <1>3, <1>5, Iterate
<1>7. g \in [Nat -> Seq(Nat)] /\ g[0] = ss[1]
      /\ \A n \in Nat : n + 2 <= N => g[n + 1] = g[n] \o ss[n + 2]
  BY <1>6, <1>4 DEF Iterates
<1> DEFINE e == [i \in 1..N |-> g[i - 1]]
<1>8. ASSUME NEW i \in 1..N, i # 1 PROVE g[i - 1] = e[i - 1] \o ss[i]
  <2>1. PICK n \in Nat : i = n + 2
    BY <1>8
  <2>2. i - 1 = n + 1 /\ n + 2 <= N /\ n + 1 \in 1..N /\ (n + 1) - 1 = n
    BY <2>1
  <2>3. e[i - 1] = g[n]
    BY <2>2
  <2> QED BY <2>1, <2>2, <2>3, <1>7
<1>9. e = [i \in 1..N |-> IF i = 1 THEN ss[i] ELSE e[i - 1] \o ss[i]]
  <2>1. \A i \in 1..N : g[i - 1] = IF i = 1 THEN ss[i] ELSE e[i - 1] \o ss[i]
    <3>1. ASSUME NEW i \in 1..N, i = 1 PROVE g[i - 1] = ss[i]
      BY <3>1, <1>7
    <3> HIDE DEF e
    <3> QED BY <3>1, <1>8
  <2> QED BY <2>1
<1> HIDE DEF e
<1> DEFINE f == CHOOSE c : c = [i \in 1..N |-> IF i = 1 THEN ss[i] ELSE c[i - 1] \o ss[i]]
<1>10. f = [i \in 1..N |-> IF i = 1 THEN ss[i] ELSE f[i - 1] \o ss[i]]
  BY <1>9
<1>11. FlattenSeq(ss) = f[Len(ss)]
  BY <1>1 DEF FlattenSeq
<1> HIDE DEF f
<1>12. \A i \in 1..N : f[i] = IF i = 1 THEN ss[i] ELSE f[i - 1] \o ss[i]
  BY <1>10
<1>13. \A i \in 1..N : f[i] \in Seq(Nat)
  <2> DEFINE T == {i \in 1..N : f[i] \notin Seq(Nat)}
  <2> SUFFICES ASSUME T # {} PROVE FALSE
    OBVIOUS
  <2>1. PICK i \in T : \A j \in T : i <= j
    <3>1. T \subseteq Nat
      OBVIOUS
    <3> HIDE DEF T
    <3> QED BY <3>1, LeastNumber
  <2>2. i # 1
    BY <1>5, <1>12
  <2>3. PICK j \in 1..N : i = j + 1
    BY <2>2
  <2>4. f[j] \in Seq(Nat)
    BY <2>1, <2>3
  <2>5. f[i] = f[j] \o ss[i] /\ ss[i] \in Seq(Nat)
    <3>1. i \in 1..N /\ i - 1 = j
      BY <2>3
    <3> QED BY <3>1, <2>2, <1>2, <1>12
  <2>6. f[i] \in Seq(Nat)
    BY <2>4, <2>5
  <2> QED BY <2>6
<1>14. DOMAIN f = 1..N
  BY <1>10
<1>15. f \in [1..N -> Seq(Nat)]
  <2>1. f = [i \in 1..N |-> f[i]]
    BY <1>10, <1>12
  <2> QED BY <2>1, <1>13
<1>16. \A i \in 1..(N - 1) : f[i + 1] = f[i] \o ss[i + 1]
  <2> TAKE i \in 1..(N - 1)
  <2>1. i + 1 \in 1..N /\ i + 1 # 1 /\ (i + 1) - 1 = i
    BY <1>1
  <2> QED BY <2>1, <1>12
<1>17. f[1] = ss[1]
  BY <1>1, <1>12
<1> QED BY <1>1, <1>11, <1>15, <1>16, <1>17 DEF Flattens

-----------------------------------------------------------------------------
(* The log *)

\* f[i] is what the i oldest files hold, one after the other.
Collects(f) ==
    /\ f \in [1..(backups + 1) -> Seq(Nat)]
    /\ f[1] = files[backups]
    /\ \A i \in 1..backups : f[i + 1] = f[i] \o files[backups - i]
    /\ Log = f[backups + 1]

LEMMA LogDef ==
    ASSUME TypeOK
    PROVE  \E f : Collects(f)
<1> DEFINE ss == [i \in 1..(backups + 1) |-> files[backups + 1 - i]]
<1>1. backups \in Nat /\ files \in [0..backups -> Seq(Nat)]
  BY DEF TypeOK
<1>2. \A i \in 1..(backups + 1) : backups + 1 - i \in 0..backups
  BY <1>1
<1>3. ss \in Seq(Seq(Nat)) /\ Len(ss) = backups + 1
  BY <1>1, <1>2
<1>4. \A i \in 1..(backups + 1) : ss[i] = files[backups + 1 - i]
  OBVIOUS
<1>5. Log = FlattenSeq(ss)
  BY DEF Log
<1> HIDE DEF ss
<1>6. PICK f : Flattens(f, ss)
  <2>1. Len(ss) > 0
    BY <1>1, <1>3
  <2> QED BY <2>1, <1>3, FlattenDef
<1>7. f \in [1..(backups + 1) -> Seq(Nat)] /\ f[1] = ss[1]
      /\ \A i \in 1..backups : f[i + 1] = f[i] \o ss[i + 1]
  <2>1. (backups + 1) - 1 = backups
    BY <1>1
  <2> QED BY <2>1, <1>3, <1>6 DEF Flattens
<1>8. ss[1] = files[backups]
  <2>1. 1 \in 1..(backups + 1) /\ backups + 1 - 1 = backups
    BY <1>1
  <2> QED BY <2>1, <1>4
<1>9. \A i \in 1..backups : ss[i + 1] = files[backups - i]
  <2> TAKE i \in 1..backups
  <2>1. i + 1 \in 1..(backups + 1) /\ backups + 1 - (i + 1) = backups - i
    BY <1>1
  <2> QED BY <2>1, <1>4
<1>10. Log = f[backups + 1]
  BY <1>3, <1>5, <1>6 DEF Flattens
<1> QED BY <1>7, <1>8, <1>9, <1>10 DEF Collects

\* The lines of two sequences, one after the other.
LEMMA ConcatFacts ==
    ASSUME NEW s \in Seq(Nat), NEW t \in Seq(Nat)
    PROVE  /\ s \o t \in Seq(Nat) /\ Len(s \o t) = Len(s) + Len(t)
           /\ \A k \in 1..Len(s) : k \in 1..Len(s \o t) /\ (s \o t)[k] = s[k]
           /\ \A k \in 1..Len(t) : Len(s) + k \in 1..Len(s \o t) /\ (s \o t)[Len(s) + k] = t[k]
           /\ \A k \in 1..Len(s \o t) : k \in 1..Len(s) \/ \E m \in 1..Len(t) : k = Len(s) + m
<1>1. Len(s) \in Nat /\ Len(t) \in Nat /\ Len(s \o t) = Len(s) + Len(t) /\ s \o t \in Seq(Nat)
  OBVIOUS
<1>2. \A k \in 1..Len(s) : k \in 1..Len(s \o t) /\ (s \o t)[k] = s[k]
  BY <1>1
<1>3. \A k \in 1..Len(t) : Len(s) + k \in 1..Len(s \o t) /\ (s \o t)[Len(s) + k] = t[k]
  BY <1>1
<1>4. ASSUME NEW k \in 1..Len(s \o t), k \notin 1..Len(s) PROVE \E m \in 1..Len(t) : k = Len(s) + m
  <2>1. k - Len(s) \in 1..Len(t) /\ k = Len(s) + (k - Len(s))
    BY <1>1, <1>4
  <2> QED BY <2>1
<1> QED BY <1>1, <1>2, <1>3, <1>4

\* s holds the lines of the files from l to the last, in order.
Holds(s, l) ==
    /\ s \in Seq(Nat)
    /\ \A k \in 1..Len(s) : \E j \in l..backups : \E a \in 1..Len(files[j]) : s[k] = files[j][a]
    /\ \A j \in l..backups : \A a \in 1..Len(files[j]) : \E k \in 1..Len(s) : s[k] = files[j][a]
    /\ \A k, m \in 1..Len(s) : k < m => s[k] < s[m]

LEMMA HoldsLast ==
    ASSUME TypeOK, Ordered
    PROVE  Holds(files[backups], backups)
<1>1. backups \in Nat /\ backups \in 0..backups /\ backups..backups = {backups}
      /\ files[backups] \in Seq(Nat)
  BY DEF TypeOK
<1> QED BY <1>1 DEF Holds, Ordered

LEMMA HoldsOneMore ==
    ASSUME TypeOK, Ordered, NEW l \in 1..backups, NEW s, Holds(s, l)
    PROVE  Holds(s \o files[l - 1], l - 1)
<1>1. PICK p \in 0..backups : p = l - 1 /\ l = p + 1
  BY DEF TypeOK
<1>2. PICK t \in Seq(Nat) : t = files[p]
  BY DEF TypeOK
<1>3. PICK r : r = s \o t
  OBVIOUS
<1>4. s \in Seq(Nat) /\ Len(s) \in Nat /\ backups \in Nat
  BY DEF Holds, TypeOK
<1>5. /\ r \in Seq(Nat)
      /\ \A k \in 1..Len(s) : k \in 1..Len(r) /\ r[k] = s[k]
      /\ \A k \in 1..Len(t) : Len(s) + k \in 1..Len(r) /\ r[Len(s) + k] = t[k]
      /\ \A k \in 1..Len(r) : k \in 1..Len(s) \/ \E m \in 1..Len(t) : k = Len(s) + m
  BY <1>2, <1>3, <1>4, ConcatFacts
<1>6. \A j \in p..backups : j = p \/ j \in l..backups
  BY <1>1, <1>4
<1>7. p \in p..backups /\ \A j \in l..backups : j \in p..backups /\ j \in 0..backups /\ p < j
  BY <1>1, <1>4
<1>8. ASSUME NEW k \in 1..Len(r)
      PROVE  \E j \in p..backups : \E a \in 1..Len(files[j]) : r[k] = files[j][a]
  <2>1. CASE k \in 1..Len(s)
    <3>1. PICK j \in l..backups : \E a \in 1..Len(files[j]) : s[k] = files[j][a]
      BY <2>1 DEF Holds
    <3> QED BY <3>1, <2>1, <1>5, <1>7
  <2>2. ASSUME NEW m \in 1..Len(t), k = Len(s) + m
        PROVE  \E j \in p..backups : \E a \in 1..Len(files[j]) : r[k] = files[j][a]
    BY <2>2, <1>2, <1>5, <1>7
  <2> QED BY <2>1, <2>2, <1>5
<1>9. ASSUME NEW j \in p..backups, NEW a \in 1..Len(files[j])
      PROVE  \E k \in 1..Len(r) : r[k] = files[j][a]
  <2>1. CASE j = p
    BY <2>1, <1>2, <1>5
  <2>2. CASE j \in l..backups
    <3>1. PICK k \in 1..Len(s) : s[k] = files[j][a]
      BY <2>2 DEF Holds
    <3> QED BY <3>1, <1>5
  <2> QED BY <2>1, <2>2, <1>6
<1>10. ASSUME NEW k \in 1..Len(r), NEW m \in 1..Len(r), k < m PROVE r[k] < r[m]
  <2>1. CASE m \in 1..Len(s)
    <3>1. k \in 1..Len(s)
      BY <2>1, <1>4, <1>10
    <3> QED BY <2>1, <3>1, <1>5, <1>10 DEF Holds
  <2>2. ASSUME NEW b \in 1..Len(t), m = Len(s) + b, k \in 1..Len(s) PROVE r[k] < r[m]
    <3>1. PICK j \in l..backups : \E a \in 1..Len(files[j]) : s[k] = files[j][a]
      BY <2>2 DEF Holds
    <3>2. PICK a \in 1..Len(files[j]) : s[k] = files[j][a]
      BY <3>1
    <3>3. files[j][a] < files[p][b]
      BY <1>2, <1>7 DEF Ordered
    <3> QED BY <3>2, <3>3, <2>2, <1>2, <1>5
  <2>3. ASSUME NEW b \in 1..Len(t), m = Len(s) + b, NEW a \in 1..Len(t), k = Len(s) + a
        PROVE  r[k] < r[m]
    <3>1. a < b
      BY <2>3, <1>4, <1>10
    <3>2. files[p][a] < files[p][b]
      BY <3>1, <1>2 DEF Ordered
    <3> QED BY <3>2, <2>3, <1>2, <1>5
  <2> QED BY <2>1, <2>2, <2>3, <1>5
<1>11. Holds(r, p)
  BY <1>5, <1>8, <1>9, <1>10 DEF Holds
<1> QED BY <1>1, <1>2, <1>3, <1>11

\* The log holds the lines of all files, in order.
LEMMA LogHolds ==
    ASSUME TypeOK, Ordered
    PROVE  Holds(Log, 0)
<1>1. PICK f : Collects(f)
  BY LogDef
<1>2. backups \in Nat
  BY DEF TypeOK
<1>3. \A i \in 1..(backups + 1) : Holds(f[i], backups + 1 - i)
  <2> DEFINE T == {i \in 1..(backups + 1) : ~Holds(f[i], backups + 1 - i)}
  <2> SUFFICES ASSUME T # {} PROVE FALSE
    OBVIOUS
  <2>1. PICK i \in T : \A j \in T : i <= j
    <3>1. T \subseteq Nat
      BY <1>2
    <3> HIDE DEF T
    <3> QED BY <3>1, LeastNumber
  <2>2. i # 1
    <3>1. Holds(f[1], backups)
      BY <1>1, HoldsLast DEF Collects
    <3>2. backups + 1 - 1 = backups
      BY <1>2
    <3> QED BY <3>1, <3>2
  <2>3. PICK j \in 1..backups : i = j + 1
    BY <2>2, <1>2
  <2>4. Holds(f[j], backups + 1 - j)
    <3>1. j \in 1..(backups + 1) /\ ~(i <= j)
      BY <2>3, <1>2
    <3> QED BY <3>1, <2>1
  <2>5. PICK l \in 1..backups : l = backups + 1 - j /\ l - 1 = backups - j /\ l - 1 = backups + 1 - i
    BY <2>3, <1>2
  <2>6. Holds(f[j] \o files[l - 1], l - 1)
    BY <2>4, <2>5, HoldsOneMore
  <2>7. f[i] = f[j] \o files[l - 1]
    BY <2>3, <2>5, <1>1 DEF Collects
  <2> QED BY <2>5, <2>6, <2>7
<1>4. backups + 1 \in 1..(backups + 1) /\ backups + 1 - (backups + 1) = 0
  BY <1>2
<1> QED BY <1>1, <1>3, <1>4 DEF Collects

\* Lines in order that leave no gap up to w are the last ones up to w.
LEMMA Consecutive ==
    ASSUME NEW s \in Seq(Nat), NEW w \in Nat,
           \A k, m \in 1..Len(s) : k < m => s[k] < s[m],
           \A k \in 1..Len(s) : s[k] <= w,
           \A k \in 1..Len(s) : \A n \in s[k]..w : \E m \in 1..Len(s) : s[m] = n
    PROVE  \A k \in 1..Len(s) : s[k] = w - Len(s) + k
<1>1. PICK L \in Nat : L = Len(s) /\ \A k \in 1..L : s[k] \in Nat
  OBVIOUS
<1> DEFINE T == {d \in 0..(L - 1) : s[L - d] # w - d}
<1>2. T = {}
  <2> SUFFICES ASSUME T # {} PROVE FALSE
    OBVIOUS
  <2>1. PICK d \in T : \A c \in T : d <= c
    <3>1. T \subseteq Nat
      BY <1>1
    <3> HIDE DEF T
    <3> QED BY <3>1, LeastNumber
  <2>2. PICK k \in 1..L : k = L - d /\ s[k] # w - d
    <3>1. d \in 0..(L - 1) /\ s[L - d] # w - d
      OBVIOUS
    <3>2. L - d \in 1..L
      BY <3>1, <1>1
    <3> QED BY <3>1, <3>2
  <2>3. s[k] \in Nat /\ s[k] <= w /\ d \in Nat
    <3>1. s[k] \in Nat
      BY <1>1
    <3>2. s[k] <= w
      BY <1>1
    <3>3. d \in Nat
      BY <1>1
    <3> QED BY <3>1, <3>2, <3>3
  <2>4. s[k] <= w - d
    <3>1. CASE d = 0
      BY <3>1, <2>3
    <3>2. CASE d # 0
      <4>1. PICK c \in 0..(L - 1) : d = c + 1 /\ c \notin T
        <5>1. d - 1 \in 0..(L - 1) /\ d = (d - 1) + 1 /\ ~(d <= d - 1)
          BY <3>2, <1>1
        <5> HIDE DEF T
        <5> QED BY <5>1, <2>1
      <4>2. s[L - c] = w - c
        BY <4>1
      <4>3. L - c = k + 1 /\ k + 1 \in 1..L
        BY <4>1, <2>2, <1>1
      <4>4. s[k] < s[k + 1]
        <5>1. k < k + 1 /\ k \in 1..Len(s) /\ k + 1 \in 1..Len(s)
          BY <4>3, <2>2, <1>1
        <5> QED BY <5>1
      <4> QED BY <4>1, <4>2, <4>3, <4>4, <2>3
    <3> QED BY <3>1, <3>2
  <2>5. w - d \in s[k]..w
    BY <2>3, <2>4
  <2>6. PICK m \in 1..L : s[m] = w - d
    BY <2>2, <2>5, <1>1
  <2>7. k < m
    <3>1. ~(m < k)
      <4> SUFFICES ASSUME m < k PROVE FALSE
        OBVIOUS
      <4>1. s[m] < s[k]
        BY <1>1
      <4> QED BY <4>1, <2>3, <2>4, <2>6
    <3>2. k # m
      BY <2>2, <2>6
    <3> QED BY <3>1, <3>2, <1>1
  <2>8. d # 0
    BY <2>2, <2>7, <1>1
  <2>9. k + 1 \in 1..L /\ s[k + 1] = w - (d - 1)
    <3>1. d - 1 \in 0..(L - 1) /\ ~(d <= d - 1) /\ L - (d - 1) = k + 1 /\ k + 1 \in 1..L
      BY <2>2, <2>8, <1>1
    <3>2. d - 1 \notin T
      <4> HIDE DEF T
      <4> QED BY <2>1, <3>1
    <3> QED BY <3>1, <3>2
  <2>10. k + 1 = m \/ s[k + 1] < s[m]
    <3>1. k + 1 = m \/ k + 1 < m
      BY <2>7, <1>1
    <3> QED BY <3>1, <2>9, <1>1
  <2> QED BY <2>3, <2>6, <2>9, <2>10
<1>3. ASSUME NEW k \in 1..L PROVE s[k] = w - L + k
  <2>1. L - k \in 0..(L - 1) /\ L - (L - k) = k /\ w - (L - k) = w - L + k
    BY <1>1
  <2> QED BY <2>1, <1>2
<1> QED BY <1>1, <1>3

\* Unless an operation failed, the log is the last lines written.
LEMMA LogIsTail ==
    ASSUME TypeOK, Ordered, Complete, failures = 0
    PROVE  \A k \in 1..Len(Log) : Log[k] = written - Len(Log) + k
<1>1. Holds(Log, 0) /\ written \in Nat
  BY LogHolds DEF TypeOK
<1>2. Log \in Seq(Nat) /\ \A k, m \in 1..Len(Log) : k < m => Log[k] < Log[m]
  BY <1>1 DEF Holds
<1>3. \A k \in 1..Len(Log) : Log[k] <= written
  BY <1>1 DEF Holds, Ordered
<1>4. ASSUME NEW k \in 1..Len(Log), NEW n \in Log[k]..written
      PROVE  \E m \in 1..Len(Log) : Log[m] = n
  <2>1. PICK j \in 0..backups : \E a \in 1..Len(files[j]) : Log[k] = files[j][a]
    BY <1>1 DEF Holds
  <2>2. Has(n)
    BY <2>1 DEF Complete
  <2>3. PICK i \in 0..backups : \E a \in 1..Len(files[i]) : files[i][a] = n
    BY <2>2 DEF Has
  <2>4. PICK a \in 1..Len(files[i]) : files[i][a] = n
    BY <2>3
  <2>5. \E m \in 1..Len(Log) : Log[m] = files[i][a]
    BY <1>1 DEF Holds
  <2> QED BY <2>4, <2>5
<1> HIDE DEF Log
<1> QED BY <1>1, <1>2, <1>3, <1>4, Consecutive

\* The files with a full file's worth of lines in them, from l to the last.
FullFiles(l) == {j \in l..backups : Len(files[j]) >= MaxSize}

LEMMA FullFilesFacts ==
    ASSUME TypeOK, NEW l \in 0..backups
    PROVE  /\ IsFiniteSet(FullFiles(l)) /\ Cardinality(FullFiles(l)) \in Nat
           /\ l > 0 => Cardinality(FullFiles(l - 1)) =
                IF Len(files[l - 1]) >= MaxSize THEN Cardinality(FullFiles(l)) + 1
                                                ELSE Cardinality(FullFiles(l))
<1>1. IsFiniteSet(FullFiles(l)) /\ Cardinality(FullFiles(l)) \in Nat
  <2>1. IsFiniteSet(l..backups)
    BY FS_Interval DEF TypeOK
  <2>2. FullFiles(l) \in SUBSET (l..backups)
    BY DEF FullFiles
  <2> QED BY <2>1, <2>2, FS_Subset, FS_CardinalityType
<1>2. ASSUME l > 0 PROVE FullFiles(l - 1) =
        IF Len(files[l - 1]) >= MaxSize THEN FullFiles(l) \cup {l - 1} ELSE FullFiles(l)
  <2>1. l - 1 \in (l - 1)..backups
    BY DEF TypeOK
  <2>2. \A j \in (l - 1)..backups : j = l - 1 \/ j \in l..backups
    BY DEF TypeOK
  <2>3. \A j \in l..backups : j \in (l - 1)..backups
    BY DEF TypeOK
  <2> QED BY <2>1, <2>2, <2>3 DEF FullFiles
<1>3. l - 1 \notin FullFiles(l)
  BY DEF FullFiles, TypeOK
<1>4. Cardinality(FullFiles(l) \cup {l - 1}) = Cardinality(FullFiles(l)) + 1
  BY <1>1, <1>3, FS_AddElement
<1> QED BY <1>1, <1>2, <1>4

\* The log has at least the lines of the full files.
LEMMA LogLength ==
    ASSUME TypeOK
    PROVE  Len(Log) \in Nat /\ Len(Log) >= MaxSize * Cardinality(FullFiles(0))
<1>1. PICK f : Collects(f)
  BY LogDef
<1>2. backups \in Nat /\ MaxSize \in Nat /\ \A j \in 0..backups : files[j] \in Seq(Nat)
  BY LogAssumption DEF TypeOK
<1> DEFINE Enough(i) == Len(f[i]) >= MaxSize * Cardinality(FullFiles(backups + 1 - i))
           T == {i \in 1..(backups + 1) : ~Enough(i)}
<1>3. T = {}
  <2> SUFFICES ASSUME T # {} PROVE FALSE
    OBVIOUS
  <2>1. PICK i \in T : \A j \in T : i <= j
    <3>1. T \subseteq Nat
      BY <1>2
    <3> HIDE DEF T
    <3> QED BY <3>1, LeastNumber
  <2>2. i # 1
    <3>1. f[1] = files[backups] /\ backups + 1 - 1 = backups
      BY <1>1, <1>2 DEF Collects
    <3>2. FullFiles(backups) = IF Len(files[backups]) >= MaxSize THEN {backups} ELSE {}
      BY <1>2 DEF FullFiles
    <3>3. Cardinality({backups}) = 1 /\ Cardinality({}) = 0
      BY FS_Singleton, FS_EmptySet
    <3>4. Len(files[backups]) \in Nat
      BY <1>2
    <3>5. Len(files[backups]) >= MaxSize * Cardinality(FullFiles(backups))
      <4>1. CASE Len(files[backups]) >= MaxSize
        BY <4>1, <3>2, <3>3, <3>4, <1>2
      <4>2. CASE ~(Len(files[backups]) >= MaxSize)
        BY <4>2, <3>2, <3>3, <3>4, <1>2
      <4> QED BY <4>1, <4>2
    <3> QED BY <3>1, <3>5
  <2>3. PICK j \in 1..backups : i = j + 1
    BY <2>2, <1>2
  <2>4. Enough(j)
    <3>1. j \in 1..(backups + 1) /\ ~(i <= j)
      BY <2>3, <1>2
    <3>2. j \notin T
      <4> HIDE DEF T
      <4> QED BY <3>1, <2>1
    <3> HIDE DEF Enough
    <3> QED BY <3>1, <3>2
  <2>5. PICK l \in 1..backups : l = backups + 1 - j /\ l - 1 = backups - j /\ l - 1 = backups + 1 - i
    BY <2>3, <1>2
  <2>6. f[j] \in Seq(Nat) /\ f[i] = f[j] \o files[l - 1] /\ files[l - 1] \in Seq(Nat)
    <3>1. j \in 1..(backups + 1) /\ l - 1 \in 0..backups
      BY <2>3, <2>5, <1>2
    <3>2. f[j] \in Seq(Nat)
      BY <3>1, <1>1 DEF Collects
    <3>3. f[j + 1] = f[j] \o files[backups - j]
      BY <1>1 DEF Collects
    <3> QED BY <3>1, <3>2, <3>3, <2>3, <2>5, <1>2
  <2>7. /\ Len(f[i]) = Len(f[j]) + Len(files[l - 1])
        /\ Len(f[i]) \in Nat /\ Len(f[j]) \in Nat /\ Len(files[l - 1]) \in Nat
    <3> HIDE DEF Enough, T
    <3>1. \A s, t \in Seq(Nat) : Len(s \o t) = Len(s) + Len(t) /\ Len(s \o t) \in Nat
                                /\ Len(s) \in Nat /\ Len(t) \in Nat
      OBVIOUS
    <3> QED BY <2>6, <3>1
  <2>8. PICK c \in Nat : c = Cardinality(FullFiles(l))
    BY <2>5, FullFilesFacts
  <2>9. Cardinality(FullFiles(l - 1)) = IF Len(files[l - 1]) >= MaxSize THEN c + 1 ELSE c
    BY <2>5, <2>8, FullFilesFacts
  <2>10. Len(f[j]) >= MaxSize * c
    BY <2>4, <2>5, <2>8
  <2>11. MaxSize * (c + 1) = MaxSize * c + MaxSize /\ MaxSize * c \in Nat
    BY <1>2
  <2>12. PICK q \in Nat : q = MaxSize * c
    BY <2>11
  <2>13. Len(f[i]) >= MaxSize * Cardinality(FullFiles(l - 1))
    <3>1. CASE Len(files[l - 1]) >= MaxSize
      <4>1. MaxSize * Cardinality(FullFiles(l - 1)) = q + MaxSize
        BY <3>1, <2>9, <2>11, <2>12
      <4>2. Len(f[j]) >= q
        BY <2>10, <2>12
      <4>3. Len(f[i]) >= q + MaxSize
        <5>1. \A x, y, z \in Nat : x = y + z /\ y >= q /\ z >= MaxSize => x >= q + MaxSize
          BY <1>2
        <5> HIDE DEF Enough, T
        <5> QED BY <5>1, <4>2, <3>1, <2>7
      <4> QED BY <4>1, <4>3
    <3>2. CASE ~(Len(files[l - 1]) >= MaxSize)
      <4>1. MaxSize * Cardinality(FullFiles(l - 1)) = q
        BY <3>2, <2>9, <2>12
      <4>2. Len(f[j]) >= q
        BY <2>10, <2>12
      <4>3. Len(f[i]) >= q
        <5>1. \A x, y, z \in Nat : x = y + z /\ y >= q => x >= q
          OBVIOUS
        <5> HIDE DEF Enough, T
        <5> QED BY <5>1, <4>2, <2>7
      <4> QED BY <4>1, <4>3
    <3> QED BY <3>1, <3>2
  <2> QED BY <2>5, <2>13
<1>4. backups + 1 \in 1..(backups + 1) /\ backups + 1 - (backups + 1) = 0
  BY <1>2
<1>5. Log \in Seq(Nat) /\ Log = f[backups + 1]
  BY <1>1, <1>4 DEF Collects
<1>6. Enough(backups + 1)
  <2> HIDE DEF Enough
  <2> QED BY <1>3, <1>4
<1> QED BY <1>4, <1>5, <1>6

-----------------------------------------------------------------------------
(* How much of the log is kept *)

\* The lines are numbered from 1.  Unless an operation failed, a backup is full
\* or does not exist, the log file is full while it is rotated, it or the first
\* backup is full once there are backups, and no line is lost before there is
\* a last backup.
Stocked ==
    /\ \A i \in 0..backups : \A a \in 1..Len(files[i]) : files[i][a] >= 1
    /\ failures = 0 =>
         /\ \A j \in 1..backups : files[j] = <<>> \/ Len(files[j]) >= MaxSize
         /\ pc = "rename" => Len(files[0]) >= MaxSize
         /\ (\E j \in 1..backups : files[j] # <<>>) => Len(files[0]) >= MaxSize \/ files[1] # <<>>
         /\ backups > 0 /\ files[backups] = <<>> => written = 0 \/ Has(1)

\* Steps that touch no line.
LEMMA SameStock ==
    ASSUME Stocked, UNCHANGED <<backups, files, written>>, failures' = 0 => failures = 0,
           pc' = "rename" => pc = "rename" \/ Len(files[0]) >= MaxSize
    PROVE  Stocked'
BY DEF Stocked, Has

LEMMA RenameStock ==
    ASSUME IInv, OInv, Stocked, Rename
    PROVE  Stocked'
<1> DEFINE i == Head(todo)
<1>1. /\ pc = "rename" /\ todo' = Tail(todo)
      /\ pc' = (IF Len(todo) = 1 THEN "reopen" ELSE "rename")
      /\ UNCHANGED <<backups, written>>
      /\ \/ /\ files' = IF files[i] = <<>> THEN files
                        ELSE [files EXCEPT ![i + 1] = files[i], ![i] = <<>>]
            /\ failures' = failures
         \/ failures' = failures + 1 /\ files' = files
  BY DEF Rename, Attempt
<1>2. /\ Len(todo) \in 1..backups /\ i = Len(todo) - 1
  BY <1>1, TodoFacts DEF IInv
<1> HIDE DEF i
<1>3. /\ i \in 0..backups /\ i + 1 \in 0..backups /\ i + 1 = Len(todo)
      /\ failures \in Nat /\ backups \in Nat /\ written \in Nat /\ MaxSize \in Nat /\ MaxSize > 0
      /\ \A j \in 0..backups : files[j] \in Seq(Nat)
  BY <1>2, LogAssumption DEF IInv, TypeOK
<1>4. CASE files' = files
  <2>1. failures' = 0 => failures = 0
    BY <1>1, <1>3
  <2> QED BY <2>1, <1>1, <1>4, SameStock
<1>5. CASE files' # files
  <2>1. /\ files' = [files EXCEPT ![i + 1] = files[i], ![i] = <<>>] /\ failures' = failures
        /\ files[i] # <<>>
    BY <1>1, <1>5
  <2>2. /\ files'[i] = <<>> /\ files'[i + 1] = files[i]
        /\ \A j \in 0..backups : j # i /\ j # i + 1 => files'[j] = files[j]
    <3>1. \A j \in 0..backups :
             files'[j] = IF j = i THEN <<>> ELSE IF j = i + 1 THEN files[i] ELSE files[j]
      BY <2>1, <1>3, MovedFacts
    <3>2. i # i + 1
      BY <1>3
    <3> QED BY <3>1, <3>2, <1>3
  <2>3. \A j \in 0..backups : \A a \in 1..Len(files'[j]) : files'[j][a] >= 1
    <3> TAKE j \in 0..backups
    <3>1. CASE j = i
      BY <3>1, <2>2
    <3>2. CASE j = i + 1
      BY <3>2, <2>2, <1>3 DEF Stocked
    <3>3. CASE j # i /\ j # i + 1
      BY <3>3, <2>2 DEF Stocked
    <3> QED BY <3>1, <3>2, <3>3
  <2>4. ASSUME failures = 0
        PROVE  /\ \A j \in 1..backups : files'[j] = <<>> \/ Len(files'[j]) >= MaxSize
               /\ i # 0 => Len(files'[0]) >= MaxSize
               /\ i = 0 => files'[1] # <<>>
    <3>1. i = 0 \/ i \in 1..backups
      BY <1>3
    <3>2. Len(files[0]) >= MaxSize
      BY <2>4, <1>1 DEF Stocked
    <3>3. Len(files[i]) >= MaxSize
      BY <3>1, <3>2, <2>1, <2>4 DEF Stocked
    <3>4. \A j \in 1..backups : files'[j] = <<>> \/ Len(files'[j]) >= MaxSize
      <4> TAKE j \in 1..backups
      <4>1. CASE j = i \/ j = i + 1
        BY <4>1, <3>3, <2>2
      <4>2. CASE j # i /\ j # i + 1
        <5>1. j \in 0..backups
          BY <1>3
        <5> QED BY <5>1, <4>2, <2>2, <2>4 DEF Stocked
      <4> QED BY <4>1, <4>2
    <3>5. i # 0 => Len(files'[0]) >= MaxSize
      <4>1. 0 \in 0..backups /\ 0 # i + 1
        BY <1>3
      <4> QED BY <4>1, <3>2, <2>2
    <3>6. i = 0 => files'[1] # <<>>
      BY <2>1, <2>2
    <3> QED BY <3>4, <3>5, <3>6
  <2>5. pc' = "rename" => i # 0
    BY <1>1, <1>3
  <2>6. ASSUME failures = 0, files'[backups] = <<>>
        PROVE  written = 0 \/ \E j \in 0..backups : \E a \in 1..Len(files'[j]) : files'[j][a] = 1
    <3>1. i + 1 # backups
      BY <2>1, <2>2, <2>6
    <3>2. backups # i
      BY <1>3
    <3>3. files[backups] = <<>> /\ backups > 0
      <4>1. backups \in 0..backups
        BY <1>3
      <4> QED BY <4>1, <3>1, <3>2, <2>2, <2>6, <1>3
    <3>4. written = 0 \/ Has(1)
      BY <3>3, <2>6 DEF Stocked
    <3>5. files[i + 1] = <<>>
      <4>1. Len(todo) < backups
        BY <3>1, <1>2, <1>3
      <4> QED BY <4>1, <2>6, <1>1, <1>3 DEF OInv, Targets
    <3> SUFFICES ASSUME Has(1)
                 PROVE  \E j \in 0..backups : \E a \in 1..Len(files'[j]) : files'[j][a] = 1
      BY <3>4
    <3>6. PICK m \in 0..backups : \E a \in 1..Len(files[m]) : files[m][a] = 1
      BY DEF Has
    <3>7. m # i + 1
      BY <3>5, <3>6
    <3>8. CASE m = i
      BY <3>6, <3>8, <2>2, <1>3
    <3>9. CASE m # i
      BY <3>6, <3>7, <3>9, <2>2
    <3> QED BY <3>8, <3>9
  <2>7. failures' = 0 =>
          /\ \A j \in 1..backups : files'[j] = <<>> \/ Len(files'[j]) >= MaxSize
          /\ pc' = "rename" => Len(files'[0]) >= MaxSize
          /\ Len(files'[0]) >= MaxSize \/ files'[1] # <<>>
    BY <2>1, <2>4, <2>5
  <2>8. failures' = 0 /\ files'[backups] = <<>> =>
          written = 0 \/ \E j \in 0..backups : \E a \in 1..Len(files'[j]) : files'[j][a] = 1
    BY <2>1, <2>6
  <2> QED BY <2>3, <2>7, <2>8, <1>1 DEF Stocked, Has
<1> QED BY <1>4, <1>5

LEMMA DiscardStock ==
    ASSUME IInv, OInv, Stocked, Discard
    PROVE  Stocked'
<1>1. /\ pc = "remove" /\ pc' = "reopen" /\ UNCHANGED <<backups, written>>
      /\ \/ files' = [files EXCEPT ![0] = <<>>] /\ failures' = failures
         \/ failures' = failures + 1 /\ files' = files
  BY DEF Discard, Attempt
<1>2. backups = 0 /\ failures \in Nat
  BY <1>1 DEF IInv, OInv, Targets, TypeOK
<1>3. CASE files' = files
  BY <1>1, <1>2, <1>3, SameStock
<1>4. CASE files' = [files EXCEPT ![0] = <<>>]
  <2>1. \A j \in 0..backups : Len(files'[j]) = 0
    BY <1>2, <1>4 DEF IInv, TypeOK
  <2>2. backups' = 0 /\ 1..0 = {}
    BY <1>1, <1>2
  <2> QED BY <2>1, <2>2, <1>1, <1>2 DEF Stocked
<1> QED BY <1>1, <1>3, <1>4

LEMMA WriteLineStock ==
    ASSUME IInv, OInv, Stocked, WriteLine
    PROVE  Stocked'
<1>1. /\ pc = "write" /\ pc' = "idle" /\ UNCHANGED backups
      /\ \/ files' = [files EXCEPT ![0] = Append(@, written + 1)] /\ failures' = failures
         \/ failures' \in {failures, failures + 1} /\ files' = files
      /\ written' = IF files' # files THEN written + 1 ELSE written
  BY DEF WriteLine, Attempt
<1>2. failures \in Nat /\ written \in Nat /\ backups \in Nat /\ MaxSize \in Nat
      /\ \A j \in 0..backups : files[j] \in Seq(Nat) /\ Len(files[j]) \in Nat
  BY LogAssumption DEF IInv, TypeOK
<1>3. CASE files' = files
  BY <1>1, <1>2, <1>3, SameStock
<1>4. CASE files' # files
  <2>1. files' = [files EXCEPT ![0] = Append(files[0], written + 1)]
        /\ failures' = failures /\ written' = written + 1
    BY <1>1, <1>4
  <2>2. /\ \A j \in 0..backups : j # 0 => files'[j] = files[j]
        /\ files'[0] = Append(files[0], written + 1)
    BY <2>1, <1>2 DEF IInv, TypeOK
  <2>3. PICK n \in Nat : n = Len(files[0])
    BY <1>2
  <2>4. /\ Len(files'[0]) = n + 1 /\ files'[0][n + 1] = written + 1
        /\ \A a \in 1..n : files'[0][a] = files[0][a]
        /\ \A a \in 1..(n + 1) : a # n + 1 => a \in 1..n
    BY <2>2, <2>3, <1>2
  <2>5. \A a \in 1..Len(files'[0]) : files'[0][a] >= 1
    <3> TAKE a \in 1..Len(files'[0])
    <3>1. CASE a = n + 1
      BY <3>1, <2>4, <1>2
    <3>2. CASE a # n + 1
      <4>1. a \in 1..Len(files[0]) /\ files'[0][a] = files[0][a] /\ 0 \in 0..backups
        BY <3>2, <2>3, <2>4, <1>2
      <4> QED BY <4>1 DEF Stocked
    <3> QED BY <3>1, <3>2
  <2>6. \A j \in 0..backups : \A a \in 1..Len(files'[j]) : files'[j][a] >= 1
    BY <2>2, <2>5 DEF Stocked
  <2>7. \A j \in 1..backups : files'[j] = files[j]
    <3>1. \A j \in 1..backups : j \in 0..backups /\ j # 0
      BY <1>2
    <3> QED BY <3>1, <2>2
  <2>8. Len(files[0]) >= MaxSize => Len(files'[0]) >= MaxSize
    BY <2>3, <2>4, <1>2
  <2>9. \E j \in 0..backups : \E a \in 1..Len(files'[j]) : files'[j][a] = written + 1
    <3>1. 0 \in 0..backups /\ n + 1 \in 1..Len(files'[0])
      BY <2>4, <1>2
    <3> QED BY <3>1, <2>4
  <2>10. Has(1) => \E j \in 0..backups : \E a \in 1..Len(files'[j]) : files'[j][a] = 1
    <3> SUFFICES ASSUME Has(1)
                 PROVE  \E j \in 0..backups : \E a \in 1..Len(files'[j]) : files'[j][a] = 1
      OBVIOUS
    <3>1. PICK j \in 0..backups : \E a \in 1..Len(files[j]) : files[j][a] = 1
      BY DEF Has
    <3>2. PICK a \in 1..Len(files[j]) : files[j][a] = 1
      BY <3>1
    <3>3. a \in 1..Len(files'[j]) /\ files'[j][a] = 1
      BY <3>2, <2>2, <2>3, <2>4
    <3> QED BY <3>3
  <2>11. failures = 0 /\ backups > 0 /\ files'[backups] = <<>> =>
           \E j \in 0..backups : \E a \in 1..Len(files'[j]) : files'[j][a] = 1
    <3> SUFFICES ASSUME failures = 0, backups > 0, files'[backups] = <<>>
                 PROVE  \E j \in 0..backups : \E a \in 1..Len(files'[j]) : files'[j][a] = 1
      OBVIOUS
    <3>1. files[backups] = <<>>
      <4>1. backups \in 1..backups
        BY <1>2
      <4> QED BY <4>1, <2>7
    <3>2. written = 0 \/ Has(1)
      BY <3>1 DEF Stocked
    <3>3. CASE written = 0
      BY <3>3, <2>9
    <3> QED BY <3>2, <3>3, <2>10
  <2>12. failures = 0 =>
           /\ \A j \in 1..backups : files'[j] = <<>> \/ Len(files'[j]) >= MaxSize
           /\ (\E j \in 1..backups : files'[j] # <<>>) =>
                Len(files'[0]) >= MaxSize \/ files'[1] # <<>>
    <3> SUFFICES ASSUME failures = 0
                 PROVE  /\ \A j \in 1..backups : files'[j] = <<>> \/ Len(files'[j]) >= MaxSize
                        /\ (\E j \in 1..backups : files'[j] # <<>>) =>
                             Len(files'[0]) >= MaxSize \/ files'[1] # <<>>
      OBVIOUS
    <3>1. \A j \in 1..backups : files'[j] = <<>> \/ Len(files'[j]) >= MaxSize
      BY <2>7 DEF Stocked
    <3>2. ASSUME NEW j \in 1..backups, files'[j] # <<>>
          PROVE  Len(files'[0]) >= MaxSize \/ files'[1] # <<>>
      <4>1. files[j] # <<>> /\ 1 \in 1..backups
        BY <3>2, <2>7, <1>2
      <4>2. Len(files[0]) >= MaxSize \/ files[1] # <<>>
        BY <4>1 DEF Stocked
      <4> QED BY <4>1, <4>2, <2>7, <2>8
    <3> QED BY <3>1, <3>2
  <2> QED BY <2>1, <2>6, <2>11, <2>12, <1>1 DEF Stocked, Has
<1> QED BY <1>3, <1>4

\* The numbers without a backup below one that exists; rotate makes one of them
\* while it renames, and fills it with the next rename.
Holes == {j \in 1..backups : files[j] = <<>> /\ \E k \in (j + 1)..backups : files[k] # <<>>}
Moving == IF pc = "rename" THEN {Len(todo)} ELSE {}

\* Unless an operation failed, every other hole is what a restart within a
\* rotation has left.
FewHoles == failures = 0 => Cardinality(Holes \ Moving) <= restarts

LEMMA HolesFinite ==
    ASSUME TypeOK, NEW M
    PROVE  /\ IsFiniteSet(Holes) /\ Cardinality(Holes) \in Nat
           /\ IsFiniteSet(Holes \ M) /\ Cardinality(Holes \ M) \in Nat
<1>1. IsFiniteSet(1..backups)
  BY FS_Interval DEF TypeOK
<1>2. Holes \in SUBSET (1..backups) /\ Holes \ M \in SUBSET (1..backups)
  BY DEF Holes
<1> QED BY <1>1, <1>2, FS_Subset, FS_CardinalityType

\* Exchanging an element for another one does not make a set larger.
LEMMA Exchange ==
    ASSUME NEW S, IsFiniteSet(S), NEW T, NEW x, NEW y, x \in S,
           T \subseteq (S \ {x}) \cup {y}
    PROVE  Cardinality(T) <= Cardinality(S)
<1> DEFINE U == S \ {x}
<1>1. IsFiniteSet(U) /\ Cardinality(U) = Cardinality(S) - 1 /\ Cardinality(S) \in Nat
  BY FS_RemoveElement, FS_CardinalityType
<1>2. /\ IsFiniteSet(U \cup {y})
      /\ Cardinality(U \cup {y}) = IF y \in U THEN Cardinality(U) ELSE Cardinality(U) + 1
  BY <1>1, FS_AddElement
<1> HIDE DEF U
<1>3. Cardinality(U \cup {y}) \in Nat /\ Cardinality(U \cup {y}) <= Cardinality(S)
  <2>1. PICK n \in Nat : n = Cardinality(U)
    BY <1>1, FS_CardinalityType
  <2>2. Cardinality(S) = n + 1
    BY <2>1, <1>1
  <2> QED BY <2>1, <2>2, <1>2
<1>4. T \in SUBSET (U \cup {y})
  BY DEF U
<1>5. Cardinality(T) <= Cardinality(U \cup {y}) /\ IsFiniteSet(T)
  BY <1>2, <1>4, FS_Subset
<1>6. Cardinality(T) \in Nat
  BY <1>5, FS_CardinalityType
<1> QED BY <1>1, <1>3, <1>5, <1>6

\* All holes, the one that moves included.
LEMMA HolesBound ==
    ASSUME TypeOK, FewHoles, failures = 0
    PROVE  Cardinality(Holes) <= restarts + (IF pc = "rename" THEN 1 ELSE 0)
<1>1. /\ IsFiniteSet(Holes) /\ Cardinality(Holes) \in Nat
      /\ Cardinality(Holes \ Moving) \in Nat /\ Cardinality(Holes \ Moving) <= restarts
  BY HolesFinite DEF FewHoles
<1>2. restarts \in Nat
  BY DEF TypeOK
<1>3. CASE pc = "rename"
  <2>1. Moving = {Len(todo)}
    BY <1>3 DEF Moving
  <2>2. Cardinality(Holes \ {Len(todo)}) =
          IF Len(todo) \in Holes THEN Cardinality(Holes) - 1 ELSE Cardinality(Holes)
    BY <1>1, FS_RemoveElement
  <2> QED BY <2>1, <2>2, <1>1, <1>2, <1>3
<1>4. CASE pc # "rename"
  <2>1. Holes \ Moving = Holes
    BY <1>4 DEF Moving
  <2> QED BY <2>1, <1>1, <1>2, <1>4
<1> QED BY <1>3, <1>4

\* Steps that keep the backups and add no hole to the ones that count.
LEMMA SameHoles ==
    ASSUME TypeOK, FewHoles, failures' = 0 => failures = 0, restarts' = restarts,
           failures' = 0 => Holes' \ Moving' \subseteq Holes \ Moving
    PROVE  FewHoles'
<1> SUFFICES ASSUME failures' = 0 PROVE Cardinality(Holes' \ Moving') <= restarts
  BY DEF FewHoles
<1>1. IsFiniteSet(Holes \ Moving) /\ Cardinality(Holes \ Moving) \in Nat
  BY HolesFinite
<1>2. Holes' \ Moving' \in SUBSET (Holes \ Moving)
  OBVIOUS
<1>3. Cardinality(Holes' \ Moving') <= Cardinality(Holes \ Moving) /\ IsFiniteSet(Holes' \ Moving')
  BY <1>1, <1>2, FS_Subset
<1>4. Cardinality(Holes' \ Moving') \in Nat
  BY <1>3, FS_CardinalityType
<1>5. Cardinality(Holes \ Moving) <= restarts
  BY DEF FewHoles
<1> QED BY <1>1, <1>3, <1>4, <1>5 DEF TypeOK

\* A rename moves the hole, or passes over one that was there before: then that
\* one has moved up.
LEMMA RenameHoles ==
    ASSUME IInv, OInv, Stocked, FewHoles, Rename
    PROVE  FewHoles'
<1> DEFINE i == Head(todo)
<1>1. /\ pc = "rename" /\ todo' = Tail(todo)
      /\ pc' = (IF Len(todo) = 1 THEN "reopen" ELSE "rename")
      /\ UNCHANGED <<backups, restarts>>
      /\ \/ /\ files' = IF files[i] = <<>> THEN files
                        ELSE [files EXCEPT ![i + 1] = files[i], ![i] = <<>>]
            /\ failures' = failures
         \/ failures' = failures + 1 /\ files' = files
  BY DEF Rename, Attempt
<1>2. Len(todo) \in 1..backups /\ i = Len(todo) - 1 /\ Len(Tail(todo)) = Len(todo) - 1
  BY <1>1, TodoFacts DEF IInv
<1> HIDE DEF i
<1>3. /\ i \in 0..backups /\ i + 1 \in 1..backups /\ i + 1 = Len(todo)
      /\ failures \in Nat /\ backups \in Nat /\ MaxSize \in Nat /\ MaxSize > 0
      /\ restarts \in Nat
  BY <1>2, LogAssumption DEF IInv, TypeOK
<1> SUFFICES ASSUME failures' = 0 PROVE FewHoles'
  BY DEF FewHoles
<1>4. failures = 0 /\ failures' = failures
      /\ files' = IF files[i] = <<>> THEN files
                  ELSE [files EXCEPT ![i + 1] = files[i], ![i] = <<>>]
  BY <1>1, <1>3
<1>5. Moving = {i + 1} /\ Moving' = IF i = 0 THEN {} ELSE {i}
  <2>1. Moving = {i + 1}
    BY <1>1, <1>3 DEF Moving
  <2>2. i = 0 <=> Len(todo) = 1
    BY <1>3
  <2>3. Len(todo') = i
    BY <1>1, <1>2
  <2> QED BY <2>1, <2>2, <2>3, <1>1 DEF Moving
<1>6. CASE files[i] = <<>>
  <2>1. files' = files /\ Holes' = Holes
    BY <1>1, <1>4, <1>6 DEF Holes
  <2>2. i # 0
    <3>1. Len(files[0]) >= MaxSize
      BY <1>1, <1>4 DEF Stocked
    <3>2. Len(<<>>) = 0
      OBVIOUS
    <3> QED BY <3>1, <3>2, <1>3, <1>6
  <2>3. Moving' = {i}
    BY <2>2, <1>5
  <2>4. CASE i + 1 \notin Holes
    <3>1. Holes' \ Moving' \subseteq Holes \ Moving
      BY <2>1, <2>3, <2>4, <1>5
    <3> QED BY <3>1, <1>1, <1>4, SameHoles DEF IInv
  <2>5. CASE i + 1 \in Holes
    <3>1. i \in Holes
      <4>1. PICK k \in (i + 2)..backups : files[k] # <<>>
        BY <2>5, <1>3 DEF Holes
      <4>2. k \in (i + 1)..backups /\ i \in 1..backups
        BY <2>2, <1>3
      <4> QED BY <4>1, <4>2, <1>6 DEF Holes
    <3>2. i \in Holes \ Moving
      BY <3>1, <1>3, <1>5
    <3>3. Holes' \ Moving' \subseteq ((Holes \ Moving) \ {i}) \cup {i + 1}
      BY <2>1, <2>3, <1>5
    <3>4. IsFiniteSet(Holes \ Moving)
      BY HolesFinite DEF IInv
    <3>5. Cardinality(Holes' \ Moving') <= Cardinality(Holes \ Moving)
      BY <3>2, <3>3, <3>4, Exchange
    <3>6. Cardinality(Holes \ Moving) \in Nat /\ Cardinality(Holes \ Moving) <= restarts
      BY <1>4, HolesFinite DEF IInv, FewHoles
    <3>7. Cardinality(Holes' \ Moving') \in Nat
      <4>1. ((Holes \ Moving) \ {i}) \cup {i + 1} \in SUBSET (1..backups) /\ IsFiniteSet(1..backups)
        BY <1>3, FS_Interval DEF Holes
      <4> QED BY <4>1, <3>3, FS_Subset, FS_CardinalityType
    <3>8. Cardinality(Holes' \ Moving') <= restarts
      BY <3>5, <3>6, <3>7, <1>3
    <3> QED BY <3>8, <1>1 DEF FewHoles
  <2> QED BY <2>4, <2>5
<1>7. CASE files[i] # <<>>
  <2>1. /\ files'[i] = <<>> /\ files'[i + 1] = files[i]
        /\ \A j \in 0..backups : j # i /\ j # i + 1 => files'[j] = files[j]
    <3>1. \A j \in 0..backups :
             files'[j] = IF j = i THEN <<>> ELSE IF j = i + 1 THEN files[i] ELSE files[j]
      <4>1. i + 1 \in 0..backups
        BY <1>3
      <4> QED BY <4>1, <1>3, <1>4, <1>7, MovedFacts
    <3>2. i # i + 1 /\ i + 1 \in 0..backups
      BY <1>3
    <3> QED BY <3>1, <3>2, <1>3
  <2>2. ASSUME NEW j \in Holes', j # i PROVE j \in Holes /\ j # i + 1
    <3>1. j \in 1..backups /\ j \in 0..backups /\ files'[j] = <<>>
      BY <1>1, <1>3 DEF Holes
    <3>2. j # i + 1 /\ files[j] = <<>>
      BY <3>1, <2>1, <2>2, <1>7
    <3>3. PICK k \in (j + 1)..backups : files'[k] # <<>>
      BY <1>1 DEF Holes
    <3>4. k # i /\ k \in 0..backups
      BY <3>1, <3>3, <2>1, <1>3
    <3>5. CASE k = i + 1
      <4>1. i \in (j + 1)..backups
        BY <3>1, <3>3, <3>5, <2>2, <1>3
      <4> QED BY <4>1, <3>1, <3>2, <1>7 DEF Holes
    <3>6. CASE k # i + 1
      <4>1. files[k] # <<>>
        BY <3>3, <3>4, <3>6, <2>1
      <4> QED BY <4>1, <3>1, <3>2, <3>3 DEF Holes
    <3> QED BY <3>2, <3>5, <3>6
  <2>3. i = 0 => i \notin Holes'
    BY <1>1, <1>3 DEF Holes
  <2>4. Holes' \ Moving' \subseteq Holes \ Moving
    BY <2>2, <2>3, <1>5
  <2> QED BY <2>4, <1>1, <1>4, SameHoles DEF IInv
<1> QED BY <1>6, <1>7

\* The process dies: the hole rotate was about to fill stays.
LEMMA RestartHoles ==
    ASSUME IInv, FewHoles, Restart
    PROVE  FewHoles'
<1>1. /\ pc' = "idle" /\ restarts' = restarts + 1 /\ UNCHANGED <<backups, files>>
      /\ failures' = failures \/ failures' = failures + 1
  BY DEF Restart
<1>2. failures \in Nat /\ restarts \in Nat
  BY DEF IInv, TypeOK
<1> SUFFICES ASSUME failures' = 0 PROVE FewHoles'
  BY DEF FewHoles
<1>3. failures = 0
  BY <1>1, <1>2
<1>4. Holes' \ Moving' = Holes
  <2>1. Holes' = Holes
    BY <1>1 DEF Holes
  <2>2. Moving' = {}
    BY <1>1 DEF Moving
  <2> QED BY <2>1, <2>2
<1>5. Cardinality(Holes) <= restarts + 1
  <2>1. Cardinality(Holes) \in Nat
    BY HolesFinite DEF IInv
  <2>2. Cardinality(Holes) <= restarts + (IF pc = "rename" THEN 1 ELSE 0)
    BY <1>3, HolesBound DEF IInv
  <2>3. CASE pc = "rename"
    BY <2>2, <2>3
  <2>4. CASE pc # "rename"
    BY <2>1, <2>2, <2>4, <1>2
  <2> QED BY <2>3, <2>4
<1> QED BY <1>1, <1>4, <1>5 DEF FewHoles

\* The other steps.
LEMMA OtherHoles ==
    ASSUME IInv, OInv, FewHoles, Write \/ Discard \/ Reopen \/ WriteLine \/ UNCHANGED vars
    PROVE  FewHoles'
<1>1. failures \in Nat /\ backups \in Nat
  BY DEF IInv, TypeOK
<1>2. CASE Write
  <2>1. /\ pc = "idle" /\ UNCHANGED <<backups, files, restarts, failures>>
        /\ pc' = "rename" => todo' = Sources
    BY <1>2 DEF Write
  <2>2. Holes' = Holes /\ Moving = {}
    BY <2>1 DEF Holes, Moving
  <2> QED BY <2>1, <2>2, SameHoles DEF IInv
<1>3. CASE Discard
  <2>1. /\ pc = "remove" /\ UNCHANGED <<backups, restarts>>
        /\ failures' = failures \/ failures' = failures + 1
    BY <1>3 DEF Discard, Attempt
  <2>2. backups = 0
    BY <2>1 DEF OInv, Targets
  <2>3. Holes' = {}
    BY <2>1, <2>2 DEF Holes
  <2>4. failures' = 0 => failures = 0
    BY <2>1, <1>1
  <2> QED BY <2>1, <2>3, <2>4, SameHoles DEF IInv
<1>4. CASE Reopen
  <2>1. /\ pc = "reopen" /\ UNCHANGED <<backups, files, restarts>>
        /\ failures' = failures \/ failures' = failures + 1
    BY <1>4 DEF Reopen, Attempt
  <2>2. Holes' = Holes /\ Moving = {}
    BY <2>1 DEF Holes, Moving
  <2>3. failures' = 0 => failures = 0
    BY <2>1, <1>1
  <2> QED BY <2>1, <2>2, <2>3, SameHoles DEF IInv
<1>5. CASE WriteLine
  <2>1. /\ pc = "write" /\ UNCHANGED <<backups, restarts>>
        /\ failures' = failures \/ failures' = failures + 1
        /\ files' = [files EXCEPT ![0] = Append(@, written + 1)] \/ files' = files
    BY <1>5 DEF WriteLine, Attempt
  <2>2. \A j \in 1..backups : files'[j] = files[j]
    BY <2>1, <1>1 DEF IInv, TypeOK
  <2>3. \A j \in 1..backups : \A k \in (j + 1)..backups : k \in 1..backups
    BY <1>1
  <2>4. Holes' = Holes /\ Moving = {}
    BY <2>1, <2>2, <2>3 DEF Holes, Moving
  <2>5. failures' = 0 => failures = 0
    BY <2>1, <1>1
  <2> QED BY <2>1, <2>4, <2>5, SameHoles DEF IInv
<1>6. CASE UNCHANGED vars
  BY <1>6 DEF vars, FewHoles, Holes, Moving
<1> QED BY <1>2, <1>3, <1>4, <1>5, <1>6

\* With a last backup, all the others are there but for the holes, and two
\* files are full in any case.
LEMMA FullEnough ==
    ASSUME IInv, Stocked, FewHoles, failures = 0, backups > 0, files[backups] # <<>>
    PROVE  /\ Cardinality(FullFiles(0)) \in Nat
           /\ Cardinality(FullFiles(0)) >= backups - restarts
           /\ Cardinality(FullFiles(0)) >= 1
           /\ backups > 1 => Cardinality(FullFiles(0)) >= 2
<1>1. backups \in Nat /\ restarts \in Nat /\ MaxSize \in Nat /\ MaxSize > 0
  BY LogAssumption DEF IInv, TypeOK
<1>2. IsFiniteSet(FullFiles(0)) /\ Cardinality(FullFiles(0)) \in Nat
  <2>1. 0 \in 0..backups
    BY <1>1
  <2> QED BY <2>1, FullFilesFacts DEF IInv
<1> DEFINE B == (1..backups) \ Holes
<1>3. \A j \in B : j \in FullFiles(0) /\ j # 0
  <2> TAKE j \in B
  <2>1. j \in 1..backups /\ j \in 0..backups /\ j # 0 /\ j \notin Holes
    BY <1>1
  <2>2. files[j] # <<>>
    <3> SUFFICES ASSUME files[j] = <<>> PROVE FALSE
      OBVIOUS
    <3>1. backups \in (j + 1)..backups
      BY <2>1, <1>1
    <3> QED BY <3>1, <2>1 DEF Holes
  <2>3. Len(files[j]) >= MaxSize
    BY <2>1, <2>2 DEF Stocked
  <2> QED BY <2>1, <2>3 DEF FullFiles
<1>4. IsFiniteSet(B) /\ Cardinality(B) \in Nat /\ Cardinality(B) = backups - Cardinality(Holes)
  <2>1. IsFiniteSet(1..backups) /\ Cardinality(1..backups) = backups
    BY <1>1, FS_Interval
  <2>2. B \in SUBSET (1..backups) /\ B \cap Holes = {} /\ B \cup Holes = 1..backups
    BY DEF Holes
  <2> HIDE DEF B
  <2>3. IsFiniteSet(B) /\ IsFiniteSet(Holes) /\ Cardinality(Holes) \in Nat /\ Cardinality(B) \in Nat
    BY <2>1, <2>2, FS_Subset, FS_CardinalityType, HolesFinite DEF IInv
  <2>4. Cardinality(B \cup Holes) = Cardinality(B) + Cardinality(Holes) - Cardinality(B \cap Holes)
    BY <2>3, FS_Union
  <2>5. Cardinality({}) = 0
    BY FS_EmptySet
  <2>6. \A x, y \in Nat : backups = x + y - 0 => x = backups - y
    BY <1>1
  <2>7. backups = Cardinality(B) + Cardinality(Holes) - 0
    BY <2>1, <2>2, <2>4, <2>5
  <2> QED BY <2>3, <2>6, <2>7
<1> HIDE DEF B
<1>5. Cardinality(Holes) \in Nat /\ Cardinality(Holes) <= restarts + (IF pc = "rename" THEN 1 ELSE 0)
  BY HolesBound, HolesFinite DEF IInv
<1>6. Cardinality(FullFiles(0)) >= backups - restarts
  <2>1. CASE pc = "rename"
    <3>1. 0 \in FullFiles(0)
      BY <2>1, <1>1 DEF Stocked, FullFiles
    <3>2. B \cup {0} \in SUBSET FullFiles(0) /\ 0 \notin B
      BY <3>1, <1>3
    <3>3. Cardinality(B \cup {0}) = Cardinality(B) + 1
      BY <3>2, <1>4, FS_AddElement
    <3>4. Cardinality(B \cup {0}) <= Cardinality(FullFiles(0))
      BY <3>2, <1>2, FS_Subset
    <3>5. Cardinality(Holes) <= restarts + 1
      BY <2>1, <1>5
    <3> QED BY <3>3, <3>4, <3>5, <1>1, <1>2, <1>4, <1>5
  <2>2. CASE pc # "rename"
    <3>1. B \in SUBSET FullFiles(0)
      BY <1>3
    <3>2. Cardinality(B) <= Cardinality(FullFiles(0))
      BY <3>1, <1>2, FS_Subset
    <3>3. Cardinality(Holes) <= restarts
      BY <2>2, <1>1, <1>5
    <3> QED BY <3>2, <3>3, <1>1, <1>2, <1>4, <1>5
  <2> QED BY <2>1, <2>2
<1>7. backups \in FullFiles(0)
  <2>1. backups \in 1..backups /\ backups \in 0..backups
    BY <1>1
  <2> QED BY <2>1 DEF Stocked, FullFiles
<1>8. IsFiniteSet({backups}) /\ Cardinality({backups}) = 1
  BY FS_Singleton
<1>9. Cardinality(FullFiles(0)) >= 1
  <2>1. {backups} \in SUBSET FullFiles(0)
    BY <1>7
  <2>2. Cardinality({backups}) <= Cardinality(FullFiles(0))
    BY <2>1, <1>2, FS_Subset
  <2> QED BY <2>2, <1>2, <1>8
<1>10. ASSUME backups > 1 PROVE Cardinality(FullFiles(0)) >= 2
  <2>1. PICK x \in {0, 1} : x \in FullFiles(0)
    <3>1. backups \in 1..backups /\ 1 \in 1..backups /\ 1 \in 0..backups /\ 0 \in 0..backups
      BY <1>1, <1>10
    <3>2. Len(files[0]) >= MaxSize \/ files[1] # <<>>
      BY <3>1 DEF Stocked
    <3>3. files[1] # <<>> => Len(files[1]) >= MaxSize
      BY <3>1 DEF Stocked
    <3> QED BY <3>1, <3>2, <3>3 DEF FullFiles
  <2>2. x \notin {backups} /\ {backups} \cup {x} \in SUBSET FullFiles(0)
    BY <2>1, <1>1, <1>7, <1>10
  <2>3. Cardinality({backups} \cup {x}) = 2
    <3>1. Cardinality({backups} \cup {x}) =
            IF x \in {backups} THEN Cardinality({backups}) ELSE Cardinality({backups}) + 1
      BY <1>8, FS_AddElement
    <3> QED BY <3>1, <2>2, <1>8
  <2>4. Cardinality({backups} \cup {x}) <= Cardinality(FullFiles(0))
    BY <2>2, <1>2, FS_Subset
  <2> QED BY <2>3, <2>4, <1>2
<1> QED BY <1>2, <1>6, <1>9, <1>10

\* Max and Min of two numbers are one of them; what else they are, no bound on
\* the log needs.
LEMMA MaxMinOfTwo ==
    ASSUME NEW a \in Int, NEW b \in Int
    PROVE  Max({a, b}) \in {a, b} /\ Min({a, b}) \in {a, b} /\ Min({a, b}) <= a /\ Min({a, b}) <= b
<1>1. \E x \in {a, b} : \A y \in {a, b} : x >= y
  OBVIOUS
<1>2. \E x \in {a, b} : \A y \in {a, b} : x <= y
  OBVIOUS
<1>3. Max({a, b}) \in {a, b}
  BY <1>1 DEF Max
<1>4. Min({a, b}) \in {a, b} /\ \A y \in {a, b} : Min({a, b}) <= y
  BY <1>2 DEF Min
<1> QED BY <1>3, <1>4

\* What the log that is kept rests on.
KInv == IInv /\ OInv /\ Stocked /\ FewHoles

LEMMA KeptHolds ==
    ASSUME KInv
    PROVE  Kept
<1> USE DEF KInv
<1>1. Holds(Log, 0)
  BY LogHolds DEF IInv, OInv
<1>2. PICK L \in Seq(Nat) : L = Log
  BY <1>1 DEF Holds
<1>3. DOMAIN L = 1..Len(L) /\ Len(L) \in Nat /\ written \in Nat /\ backups \in Nat /\ restarts \in Nat
      /\ MaxSize \in Nat
  BY LogAssumption DEF IInv, TypeOK
<1>4. \A i, j \in DOMAIN L : i < j => L[i] < L[j]
  BY <1>1, <1>2, <1>3 DEF Holds
<1>5. ASSUME failures = 0 PROVE \A i \in 1..Len(L) : L[i] = written - Len(L) + i
  BY <1>2, <1>5, LogIsTail DEF IInv, OInv
<1>6. ASSUME failures = 0 PROVE L = [i \in DOMAIN L |-> written - Len(L) + i]
  BY <1>3, <1>5, <1>6
<1>7. ASSUME failures = 0, written > Len(L), backups > 0 PROVE files[backups] # <<>>
  <2> SUFFICES ASSUME files[backups] = <<>> PROVE FALSE
    OBVIOUS
  <2>1. Has(1)
    BY <1>3, <1>7 DEF Stocked
  <2>2. PICK j \in 0..backups : \E a \in 1..Len(files[j]) : files[j][a] = 1
    BY <2>1 DEF Has
  <2>3. PICK k \in 1..Len(L) : L[k] = 1
    BY <2>2, <1>1, <1>2 DEF Holds
  <2>4. written - Len(L) + k = 1
    BY <2>3, <1>5, <1>7
  <2> QED BY <2>4, <1>3, <1>7
<1>8. ASSUME failures = 0, written > Len(L)
      PROVE  Len(L) >= MaxSize * Max({backups - restarts, Min({backups, 2})})
  <2>1. PICK c \in Nat : c = Cardinality(FullFiles(0)) /\ Len(L) >= MaxSize * c
    <3>1. 0 \in 0..backups
      BY <1>3
    <3>2. Cardinality(FullFiles(0)) \in Nat
      BY <3>1, FullFilesFacts DEF IInv
    <3> QED BY <3>2, <1>2, LogLength DEF IInv
  <2>2. PICK n : n = Min({backups, 2})
    OBVIOUS
  <2>3. n \in {backups, 2} /\ n <= backups /\ n <= 2
    <3>1. backups \in Int /\ 2 \in Int
      BY <1>3
    <3> QED BY <3>1, <2>2, MaxMinOfTwo
  <2>4. PICK m : m = Max({backups - restarts, n})
    OBVIOUS
  <2>5. m \in {backups - restarts, n}
    <3>1. backups - restarts \in Int /\ n \in Int
      BY <2>3, <1>3
    <3> QED BY <3>1, <2>4, MaxMinOfTwo
  <2>6. m \in Int /\ m <= c
    <3>1. CASE backups = 0
      BY <3>1, <2>1, <2>3, <2>5, <1>3
    <3>2. CASE backups > 0
      <4>1. c >= backups - restarts /\ c >= 1 /\ (backups > 1 => c >= 2)
        BY <3>2, <2>1, <1>7, <1>8, FullEnough
      <4> QED BY <4>1, <3>2, <2>1, <2>3, <2>5, <1>3
    <3> QED BY <3>1, <3>2, <1>3
  <2>7. MaxSize * m <= MaxSize * c
    <3>1. \A s \in Nat, x, y \in Int : x <= y => s * x <= s * y
      OBVIOUS
    <3>2. MaxSize \in Nat /\ m \in Int /\ c \in Int /\ m <= c
      BY <2>1, <2>6, <1>3
    <3> QED BY <3>1, <3>2, Zenon
  <2>8. MaxSize * m \in Int /\ MaxSize * c \in Int
    BY <2>1, <2>6, <1>3
  <2>9. Len(L) >= MaxSize * m
    BY <2>1, <2>7, <2>8, <1>3
  <2> QED BY <2>2, <2>4, <2>9
<1> QED BY <1>2, <1>4, <1>6, <1>8 DEF Kept

\* The log is in order whatever failed; unless an operation failed, it is the
\* last lines written, all of them, and once a line has been dropped there are
\* the lines of all backups but one per restart, and of two files in any case.
THEOREM LogIsKept == Spec => []Kept
<1>1. Init => Stocked /\ FewHoles
  <2> SUFFICES ASSUME Init PROVE Stocked /\ FewHoles
    OBVIOUS
  <2>1. backups \in Nat /\ \A j \in 0..backups : files[j] = <<>> /\ Len(files[j]) = 0
    BY LogAssumption DEF Init
  <2>2. Stocked
    BY <2>1 DEF Init, Stocked
  <2>3. Holes = {}
    BY <2>1 DEF Holes
  <2>4. Cardinality(Holes \ Moving) = 0
    BY <2>3, FS_EmptySet
  <2> QED BY <2>2, <2>4 DEF Init, FewHoles
<1>2. ASSUME IInv, OInv, Stocked, FewHoles, [Next]_vars PROVE Stocked' /\ FewHoles'
  <2>1. FewHoles'
    BY <1>2, RenameHoles, RestartHoles, OtherHoles DEF Next
  <2>2. CASE Write
    <3>1. /\ UNCHANGED <<backups, files, written, failures>>
          /\ pc' = "rename" => Len(files[0]) >= MaxSize
      BY <2>2 DEF Write, Full
    <3> QED BY <3>1, <2>1, <1>2, SameStock
  <2>3. CASE Reopen
    <3>1. /\ UNCHANGED <<backups, files, written>> /\ pc' = "write"
          /\ failures' \in {failures, failures + 1} /\ failures \in Nat
      BY <2>3, <1>2 DEF Reopen, Attempt, IInv, TypeOK
    <3> QED BY <3>1, <2>1, <1>2, SameStock
  <2>4. CASE Restart
    <3>1. /\ UNCHANGED <<backups, files, written>> /\ pc' = "idle"
          /\ failures' \in {failures, failures + 1} /\ failures \in Nat
      BY <2>4, <1>2 DEF Restart, IInv, TypeOK
    <3> QED BY <3>1, <2>1, <1>2, SameStock
  <2>5. CASE UNCHANGED vars
    BY <2>5, <2>1, <1>2, SameStock DEF vars
  <2> QED BY <2>1, <2>2, <2>3, <2>4, <2>5, <1>2, RenameStock, DiscardStock, WriteLineStock DEF Next
<1>3. IInv /\ OInv /\ Stocked /\ FewHoles => Kept
  BY KeptHolds DEF KInv
<1> QED BY <1>1, <1>2, <1>3, Invariant, OrderInvariant, PTL DEF Spec
=============================================================================
