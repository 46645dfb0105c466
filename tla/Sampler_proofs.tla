--------------------------- MODULE Sampler_proofs ---------------------------
(***************************************************************************)
(* Theorems about Sampler, for every size of UDINT, every number of cans   *)
(* and whatever the operator writes: the doses add up, nothing but a clock *)
(* that is set back and a new start puts off the end of a test, and two    *)
(* defects are general: no sampling by time works, and no pause is left by *)
(* a command.                                                              *)
(*                                                                         *)
(* Theorems about Selector follow, for every number of inputs.             *)
(***************************************************************************)
EXTENDS Sampler, Selector, WellFoundedInduction, TLAPS

-----------------------------------------------------------------------------
(* Arithmetic of the type UDINT.                                           *)

\* A set of natural numbers has a least element.
LEMMA Least ==
  ASSUME NEW T, T \subseteq Nat, T # {}
  PROVE  \E m \in T : \A k \in T : m <= k
<1>1. PICK x \in T : \A y \in T : ~ (<<y, x>> \in OpToRel(<, Nat))
  BY NatLessThanWellFounded, WFMin, Zenon
<1>2. \A y \in T : ~ (y < x)
  BY <1>1 DEF OpToRel
<1>3. x \in T /\ \A y \in T : x <= y
  BY <1>2
<1>. QED  BY <1>3

\* A bounded one has a greatest.
LEMMA Greatest ==
  ASSUME NEW n \in Nat, NEW T, T \subseteq 0..n, T # {}
  PROVE  Max(T) \in T /\ \A k \in T : k <= Max(T)
<1>. DEFINE D == {d \in 0..n : n - d \in T}
<1>1. PICK m \in D : \A k \in D : m <= k
  <2>1. D \subseteq Nat
    OBVIOUS
  <2>2. \A k \in T : n - k \in D
    OBVIOUS
  <2>. HIDE DEF D
  <2>. QED  BY <2>1, <2>2, Least
<1>2. n - m \in T
  OBVIOUS
<1>3. \A k \in T : n - m >= k
  <2>1. \A k \in T : n - k \in D
    OBVIOUS
  <2>2. \A k \in T : m <= n - k
    BY <1>1, <2>1
  <2>. QED  BY <2>2
<1>4. Max(T) \in T /\ \A k \in T : Max(T) >= k
  BY <1>2, <1>3 DEF Max
<1>. QED  BY <1>4

LEMMA Words == /\ UDINT \in Nat \ {0} /\ CAN_MAX \in Nat /\ Selects \subseteq Nat
               /\ Periods \subseteq 0..(UDINT - 1) /\ Tests \subseteq 0..(UDINT - 1)
               /\ CanDoses \subseteq 0..(UDINT - 1) /\ MaxBack \in Nat
               /\ 0 \in 0..(UDINT - 1)
BY SamplerAssumption

LEMMA LongNat == Long \in Nat \ {0} /\ MaxBack \in Nat
<1>1. Max(Periods) \in Periods
  <2>1. Periods # {} /\ UDINT - 1 \in Nat
    BY SamplerAssumption
  <2>. QED  BY <2>1, Words, Greatest
<1>2. \A x \in 0..(UDINT - 1) : x + MaxBack + 1 \in Nat \ {0}
  BY Words
<1>3. Max(Periods) \in 0..(UDINT - 1)
  BY <1>1, Words
<1>. QED  BY <1>2, <1>3, Words DEF Long

LEMMA WrapType == ASSUME NEW x \in Int PROVE Wrap(x) \in 0..(UDINT - 1)
BY Words DEF Wrap

LEMMA WrapSame == ASSUME NEW x \in 0..(UDINT - 1) PROVE Wrap(x) = x
BY Words DEF Wrap

\* A dose passes from the remaining ones to the taken ones.
LEMMA DoseSum ==
  ASSUME NEW a \in 0..(UDINT - 1), NEW b \in 0..(UDINT - 1)
  PROVE  Wrap(Wrap(a + 1) + Wrap(b - 1)) = Wrap(a + b)
<1>. DEFINE u == UDINT
<1>0. u \in Nat \ {0}
  BY Words
<1>1. Wrap(a + 1) = IF a + 1 = u THEN 0 ELSE a + 1
  BY <1>0 DEF Wrap
<1>2. Wrap(b - 1) = IF b = 0 THEN u - 1 ELSE b - 1
  BY <1>0 DEF Wrap
<1>3. \A x \in 0..(u - 1) : Wrap(x) = x /\ Wrap(x + u) = x
  BY <1>0 DEF Wrap
<1>4. Wrap(a + 1) + Wrap(b - 1) \in {a + b, a + b - u, a + b + u}
  BY <1>0, <1>1, <1>2
<1>. QED  BY <1>0, <1>1, <1>2, <1>3, <1>4
-----------------------------------------------------------------------------
(* The inductive invariant, of the object and of the contacts.             *)

\* The objects: a word is a number of the type UDINT.
Word == 0..(UDINT - 1)
\* A time is before the start if the clock was set back.
Times == {t \in Int : t <= Long}
Samplers ==
  [state : States, method : Methods \cup {"PERIOD"}, select : Selects,
   period : Periods, test : Tests, canDoses : CanDoses,
   interval : {Infinite} \cup Word, noflow : BOOLEAN, grab : BOOLEAN, timeRemain : Word,
   grabCount : Word, grabPresent : Word, grabRemain : Word, timerInterval : Word,
   sinceStart : Times, lockErr : SUBSET Contacts]

\* What a method may rely on and must keep: the doses add up, no sampling
\* by time is ever at work, for its start has divided by zero.
Sound(r) ==
  /\ r.state \in Working \cup {"PAUSE"} => Wrap(r.grabPresent + r.grabRemain) = r.grabCount
  /\ r.state # "WORKTIME"
Well(r) == r \in Samplers /\ Sound(r)
Running(r) == Well(r) /\ r.state # "TRAPPED"

\* A start contact that is closed for two calculations is disregarded; after one, a
\* contact is.
HeldLocked ==
  /\ held = 1 => s.lockErr # {}
  /\ held = 2 => "START" \in s.lockErr

IInv == Well(s) /\ tick \in Word /\ held \in 0..2 /\ back \in 0..MaxBack /\ HeldLocked

LEMMA IInvImplies == IInv => TypeOK /\ DosesAdd
BY DEF IInv, Well, Sound, Samplers, Word, Times, TypeOK, DosesAdd

LEMMA InitIInv == Init => IInv
<1>. SUFFICES ASSUME Init PROVE IInv
  OBVIOUS
<1>1. PICK m \in Methods, sel \in Selects, p \in Periods, t \in Tests, c \in CanDoses :
        s = Fresh(m, sel, p, t, c)
  BY DEF Init
<1>2. s \in Samplers
  BY <1>1, Words, LongNat DEF Fresh, Samplers, States, Word, Times, Contacts, Working
<1>3. Sound(s)
  BY <1>1 DEF Fresh, Sound, Working
<1>. QED  BY <1>1, <1>2, <1>3, LongNat DEF Init, IInv, Well, HeldLocked, Fresh, Word

-----------------------------------------------------------------------------
(* Each method leads from a running object to a well-formed one.           *)

\* The values that are written without a look at the object.
LEMMA Literals ==
  ASSUME tick \in Word
  PROVE  /\ 0 \in Word /\ tick \in Word /\ 0 \in Times /\ Long \in Times
         /\ Infinite \in {Infinite} \cup Word /\ \A t \in Tests \cup CanDoses : t \in Word
         /\ States = {"TEST", "WORKTIME", "WORKVOLUME", "WORKMASS", "IDLE", "FINISH", "PAUSE", "ERROR", "TRAPPED"}
BY Words, LongNat DEF Word, Times, States, Working

LEMMA OnStart ==
  ASSUME NEW r, Running(r), tick \in Word
  PROVE  /\ Well(onStart(r)) /\ onStart(r).lockErr = r.lockErr
         /\ onStart(r).state \in {"WORKVOLUME", "WORKMASS", "ERROR", "TRAPPED"}
<1>. DEFINE y == [r EXCEPT !.interval = 0, !.grabCount = 0, !.grabPresent = 0,
                     !.grabRemain = 0]
            z == [r EXCEPT !.interval = 0, !.grabCount = 0, !.grabPresent = 0,
                     !.grabRemain = 0, !.timeRemain = 0, !.noflow = FALSE,
                     !.sinceStart = Long, !.timerInterval = 0]
            c == [z EXCEPT !.grabCount = r.canDoses]
<1>0. r \in Samplers /\ Sound(r) /\ r.state # "TRAPPED"
  BY DEF Running, Well
<1>1. y \in Samplers
  BY <1>0, Literals DEF Samplers
<1>2. z \in Samplers
  <2>1. z = [y EXCEPT !.timeRemain = 0, !.noflow = FALSE, !.sinceStart = Long, !.timerInterval = 0]
    OBVIOUS
  <2>. HIDE DEF y, z
  <2>. QED  BY <1>1, <2>1, Literals DEF Samplers
<1>3. c \in Samplers
  <2>1. r.canDoses \in Word
    BY <1>0, Literals DEF Samplers
  <2>. HIDE DEF z
  <2>. QED  BY <1>2, <2>1 DEF Samplers
<1>4. /\ c.grabCount = r.canDoses /\ c.grabPresent = 0 /\ c.interval = 0 /\ c.grabRemain = 0
      /\ c.lockErr = r.lockErr /\ c.method = r.method /\ c.period = r.period
      /\ c.select = r.select /\ c.state = r.state
      /\ z.lockErr = r.lockErr
  BY <1>0 DEF Samplers
<1>5. c.grabCount \in Word
  BY <1>0, <1>4, Literals DEF Samplers
<1>. HIDE DEF c, z
<1>6. ASSUME NEW st \in {"WORKVOLUME", "WORKMASS"}
      PROVE  /\ Well(Begun(c, Infinite, st)) /\ Begun(c, Infinite, st).lockErr = r.lockErr
             /\ Begun(c, Infinite, st).state = st
  <2>. DEFINE b == Begun(c, Infinite, st)
  <2>1. b = [c EXCEPT !.state = st, !.interval = Infinite, !.grabRemain = c.grabCount,
                      !.sinceStart = 0, !.timerInterval = tick]
    BY DEF Begun
  <2>2. b \in Samplers
    <3>1. st \in States /\ tick \in Word /\ Infinite \in {Infinite} \cup Word /\ 0 \in Times /\ c.grabCount \in Word
      BY <1>5, Literals
    <3>. HIDE DEF b
    <3>. QED  BY <1>3, <2>1, <3>1 DEF Samplers
  <2>3. b.state = st /\ b.grabPresent = 0 /\ b.grabRemain = b.grabCount /\ b.lockErr = r.lockErr /\ b.grabCount \in Word
    <3>1. /\ b.state = st /\ b.grabPresent = c.grabPresent /\ b.lockErr = c.lockErr
          /\ b.grabRemain = c.grabCount /\ b.grabCount = c.grabCount
      BY <1>3, <2>1 DEF Samplers
    <3>. HIDE DEF b
    <3>. QED  BY <1>4, <1>5, <3>1
  <2>4. Wrap(b.grabPresent + b.grabRemain) = b.grabCount
    <3>. HIDE DEF b
    <3>. QED  BY <2>3, Words, WrapSame DEF Word
  <2>5. Sound(b)
    <3>. HIDE DEF b
    <3>. QED  BY <2>3, <2>4 DEF Sound
  <2>. QED  BY <2>2, <2>3, <2>5 DEF Well
<1>7. [c EXCEPT !.state = "TRAPPED"] \in Samplers
  BY <1>3, Literals DEF Samplers
<1>8. [z EXCEPT !.state = "ERROR"] \in Samplers /\ [z EXCEPT !.method = "PERIOD", !.state = "ERROR"] \in Samplers
  BY <1>2, Literals DEF Samplers
<1>. DEFINE W == Begun(c, Infinite, "WORKVOLUME")
            M == Begun(c, Infinite, "WORKMASS")
            T == [c EXCEPT !.state = "TRAPPED"]
            E == [z EXCEPT !.state = "ERROR"]
            F == [z EXCEPT !.method = "PERIOD", !.state = "ERROR"]
<1>9. r.select \in Nat
  BY <1>0, Words DEF Samplers
<1>10. onStart(r) = CASE r.select >= CAN_MAX  -> E
       [] r.select < CAN_MAX /\ Divides(c) -> T
       [] r.select < CAN_MAX /\ ~Divides(c) /\ r.method = "PERIOD" ->
            Begun(c, c.period \div c.grabRemain, IF checkInterval(c.period \div c.grabRemain) THEN "WORKTIME" ELSE r.state)
       [] r.select < CAN_MAX /\ ~Divides(c) /\ r.method = "VOLUME" -> W
       [] r.select < CAN_MAX /\ ~Divides(c) /\ r.method = "MASS" -> M
       [] OTHER -> F
  <2>1. c.period = r.period
    BY <1>4
  <2>. QED  BY <2>1 DEF onStart, c, z
<1>11. onStart(r) \in {W, M, E, F} \/ (onStart(r) = T /\ r.method = "PERIOD")
  <2>1. Divides(c) <=> r.method = "PERIOD"
    BY <1>4 DEF Divides
  <2>. HIDE DEF W, M, E, F, T
  <2>2. CASE r.select >= CAN_MAX
    <3>1. ~ (r.select < CAN_MAX)
      BY <1>9, <2>2, Words
    <3>. QED  BY <1>10, <2>2, <3>1
  <2>3. CASE r.select < CAN_MAX
    <3>1. ~ (r.select >= CAN_MAX)
      BY <1>9, <2>3, Words
    <3>2. CASE r.method = "PERIOD"
      BY <1>10, <2>1, <2>3, <3>1, <3>2
    <3>3. CASE r.method = "VOLUME"
      BY <1>10, <2>1, <2>3, <3>1, <3>3
    <3>4. CASE r.method = "MASS"
      BY <1>10, <2>1, <2>3, <3>1, <3>4
    <3>5. CASE r.method \notin {"PERIOD", "VOLUME", "MASS"}
      BY <1>10, <2>1, <2>3, <3>1, <3>5
    <3>. QED  BY <3>2, <3>3, <3>4, <3>5
  <2>. QED  BY <1>9, <2>2, <2>3, Words
<1>12. /\ Well(E) /\ Well(F) /\ E.lockErr = r.lockErr /\ F.lockErr = r.lockErr
       /\ E.state = "ERROR" /\ F.state = "ERROR"
  <2>1. E.state = "ERROR" /\ F.state = "ERROR" /\ E.lockErr = r.lockErr /\ F.lockErr = r.lockErr
    BY <1>2, <1>4 DEF Samplers
  <2>. HIDE DEF E, F
  <2>. QED  BY <1>8, <2>1 DEF Well, Sound, Working, E, F
<1>13. r.method = "PERIOD" => Well(T) /\ T.lockErr = r.lockErr /\ T.state = "TRAPPED"
  <2>1. T.state = "TRAPPED" /\ T.lockErr = r.lockErr /\ T.method = r.method /\ T.grabRemain = 0 /\ T.interval = 0
    BY <1>3, <1>4 DEF Samplers
  <2>. HIDE DEF T
  <2>. QED  BY <1>7, <2>1 DEF Well, Sound, Working, T
<1>14. /\ Well(W) /\ Well(M) /\ W.lockErr = r.lockErr /\ M.lockErr = r.lockErr
       /\ W.state = "WORKVOLUME" /\ M.state = "WORKMASS"
  BY <1>6
<1>. QED
  <2>. HIDE DEF W, M, E, F, T
  <2>. QED  BY <1>11, <1>12, <1>13, <1>14

LEMMA SetState ==
  ASSUME NEW r, Running(r), NEW st \in {"IDLE", "FINISH", "ERROR"}
  PROVE  Running([r EXCEPT !.state = st]) /\ [r EXCEPT !.state = st].lockErr = r.lockErr
         /\ [r EXCEPT !.state = st].state = st
<1>. DEFINE q == [r EXCEPT !.state = st]
<1>1. r \in Samplers
  BY DEF Running, Well
<1>2. q \in Samplers /\ q.state = st /\ q.lockErr = r.lockErr
  BY <1>1 DEF Samplers, States, Working
<1>. HIDE DEF q
<1>3. Running(q)
  BY <1>2 DEF Running, Well, Sound, Working
<1>. QED  BY <1>2, <1>3 DEF q

\* The contacts are kept apart from the state.
LEMMA SetLock ==
  ASSUME NEW r, Running(r), NEW k \in SUBSET Contacts, NEW q, q = [r EXCEPT !.lockErr = k]
  PROVE  Running(q) /\ q.lockErr = k /\ q.state = r.state
<1>1. r \in Samplers /\ Sound(r) /\ r.state # "TRAPPED"
  BY DEF Running, Well
<1>2. /\ q \in Samplers /\ q.lockErr = k /\ q.state = r.state /\ q.grabPresent = r.grabPresent
      /\ q.grabRemain = r.grabRemain /\ q.grabCount = r.grabCount
  BY <1>1 DEF Samplers
<1>3. Running(q)
  BY <1>1, <1>2 DEF Running, Well, Sound
<1>. QED  BY <1>2, <1>3

LEMMA OnStartTest ==
  ASSUME NEW r, Running(r), tick \in Word
  PROVE  Running(onStartTest(r)) /\ onStartTest(r).lockErr = r.lockErr
<1>. DEFINE c == [r EXCEPT !.grabCount = r.test]
            i == Wrap(2 * r.test)
            b == [c EXCEPT !.state = "TEST", !.interval = i, !.grabRemain = c.grabCount,
                           !.sinceStart = 0, !.timerInterval = tick]
            q == [b EXCEPT !.noflow = FALSE, !.grabPresent = 0, !.timeRemain = 0]
<1>1. r \in Samplers /\ r.test \in Word /\ i \in Word
  <2>1. r \in Samplers /\ r.test \in Word
    BY Literals DEF Running, Well, Samplers
  <2>2. 2 * r.test \in Int
    BY <2>1, Words DEF Word
  <2>. QED  BY <2>1, <2>2, WrapType DEF Word
<1>. HIDE DEF i
<1>2. c \in Samplers /\ c.grabCount = r.test /\ c.lockErr = r.lockErr
  BY <1>1 DEF Samplers
<1>. HIDE DEF c
<1>3. b \in Samplers /\ b.state = "TEST" /\ b.grabCount = r.test /\ b.grabRemain = r.test /\ b.lockErr = r.lockErr
  BY <1>1, <1>2, Literals DEF Samplers
<1>4. b = Begun(c, i, "TEST")
  BY DEF Begun
<1>. HIDE DEF b
<1>5. /\ q \in Samplers /\ q.state = "TEST" /\ q.grabCount = r.test /\ q.grabRemain = r.test
      /\ q.grabPresent = 0 /\ q.lockErr = r.lockErr
  BY <1>3, Literals DEF Samplers
<1>6. q = onStartTest(r)
  BY <1>4 DEF onStartTest, c, i
<1>. HIDE DEF q
<1>7. Running(q)
  <2>1. Wrap(q.grabPresent + q.grabRemain) = q.grabCount
    BY <1>1, <1>5, Words, WrapSame DEF Word
  <2>. QED  BY <1>5, <2>1 DEF Running, Well, Sound
<1>. QED  BY <1>5, <1>6, <1>7

LEMMA Paused ==
  ASSUME NEW r, Running(r), r.state \in Working
  PROVE  Running(onPause(r)) /\ onPause(r).lockErr = r.lockErr
<1>. DEFINE q == [r EXCEPT !.state = "PAUSE"]
<1>1. r \in Samplers /\ Wrap(r.grabPresent + r.grabRemain) = r.grabCount
  BY DEF Running, Well, Sound
<1>2. /\ q \in Samplers /\ q.lockErr = r.lockErr /\ q.state = "PAUSE" /\ q.grabPresent = r.grabPresent
      /\ q.grabRemain = r.grabRemain /\ q.grabCount = r.grabCount
  BY <1>1 DEF Samplers, States
<1>3. q = onPause(r)
  BY DEF onPause
<1>. HIDE DEF q
<1>4. Running(q)
  BY <1>1, <1>2 DEF Running, Well, Sound
<1>. QED  BY <1>2, <1>3, <1>4

LEMMA Doses ==
  ASSUME NEW r, Running(r)
  PROVE  Running(Dose(r)) /\ Dose(r).lockErr = r.lockErr /\ Dose(r).state = r.state
<1>. DEFINE q == Dose(r)
<1>1. r \in Samplers /\ Sound(r) /\ r.state # "TRAPPED"
  BY DEF Running, Well
<1>2. r.grabPresent \in Word /\ r.grabRemain \in Word
  BY <1>1 DEF Samplers
<1>3. Wrap(r.grabPresent + 1) \in Word /\ Wrap(r.grabRemain - 1) \in Word
  BY <1>2, Words, WrapType DEF Word
<1>4. /\ q \in Samplers /\ q.lockErr = r.lockErr /\ q.state = r.state /\ q.grabCount = r.grabCount
      /\ q.grabPresent = Wrap(r.grabPresent + 1) /\ q.grabRemain = Wrap(r.grabRemain - 1)
  BY <1>1, <1>3 DEF Dose, Samplers
<1>. HIDE DEF q
<1>5. Wrap(q.grabPresent + q.grabRemain) = Wrap(r.grabPresent + r.grabRemain)
  BY <1>2, <1>4, DoseSum DEF Word
<1>6. Running(q)
  BY <1>1, <1>4, <1>5 DEF Running, Well, Sound
<1>. QED  BY <1>4, <1>6 DEF q

LEMMA TimerDoses ==
  ASSUME NEW r, Running(r), tick \in Word
  PROVE  Running(TimerDose(r)) /\ TimerDose(r).lockErr = r.lockErr /\ TimerDose(r).state = r.state
<1>. DEFINE d == Dose(r)
            tr == Wrap(d.timeRemain - r.interval)
            ti == Wrap(d.timerInterval + r.interval)
            q == [d EXCEPT !.timeRemain = Wrap(@ - r.interval), !.timerInterval = Wrap(@ + r.interval)]
<1>1. Running(d) /\ d.lockErr = r.lockErr /\ d.state = r.state
  BY Doses
<1>. HIDE DEF d
<1>2. d \in Samplers /\ Sound(d) /\ d.state # "TRAPPED"
  BY <1>1 DEF Running, Well
<1>3. r.interval \in Int
  BY Words DEF Running, Well, Samplers, Word, Infinite
<1>4. d.timeRemain \in Int /\ d.timerInterval \in Int
  BY <1>2, Words DEF Samplers, Word
<1>5. tr \in Word /\ ti \in Word
  BY <1>3, <1>4, WrapType DEF Word
<1>6. q = [d EXCEPT !.timeRemain = tr, !.timerInterval = ti]
  OBVIOUS
<1>7. /\ q \in Samplers /\ q.lockErr = d.lockErr /\ q.state = d.state /\ q.grabCount = d.grabCount
      /\ q.grabPresent = d.grabPresent /\ q.grabRemain = d.grabRemain
  <2>. HIDE DEF q, tr, ti
  <2>. QED  BY <1>2, <1>5, <1>6 DEF Samplers
<1>8. TimerDose(r) \in {r, q}
  BY DEF TimerDose, d
<1>. HIDE DEF q
<1>9. Running(q)
  BY <1>2, <1>7 DEF Running, Well, Sound
<1>. QED  BY <1>1, <1>7, <1>8, <1>9

LEMMA Ends ==
  ASSUME NEW r, Running(r), NEW over
  PROVE  Running(Finished(r, over)) /\ Finished(r, over).lockErr = r.lockErr
BY SetState DEF Finished

\* The contacts: what they leave is running, or is what a start leaves.
LEMMA CheckIO ==
  ASSUME NEW r, Running(r), tick \in Word, NEW stop \in Contact, NEW start \in Contact
  PROVE  /\ Well(checkIO(r, stop, start))
         /\ stop = 0 /\ start = 0 => checkIO(r, stop, start).state = r.state
         /\ start = 2 => \/ "START" \in checkIO(r, stop, start).lockErr
                         \/ "STOP" \in checkIO(r, stop, start).lockErr /\ r.lockErr = {}
         /\ start = 2 /\ "START" \in r.lockErr =>
              /\ "START" \in checkIO(r, stop, start).lockErr
              /\ checkIO(r, stop, start).state = r.state
<1>. DEFINE stopEdge == stop > 0 /\ "STOP" \notin r.lockErr
            a == IF stopEdge THEN Locked(r, "STOP") ELSE r
            b == Opened(a, "STOP", stop)
            startEdge == start > 0 /\ "START" \notin b.lockErr
            c == IF startEdge THEN Locked(b, "START") ELSE b
            d == Opened(c, "START", start)
            io == checkIO(r, stop, start)
<1>1. io = IF stopEdge /\ "START" \notin r.lockErr THEN onStop(a)
           ELSE IF startEdge /\ "STOP" \notin b.lockErr THEN onStart(c) ELSE d
  BY DEF checkIO
<1>2. r.lockErr \in SUBSET Contacts
  BY DEF Running, Well, Samplers
<1>3. /\ Running(a) /\ a.state = r.state
      /\ a.lockErr = IF stopEdge THEN r.lockErr \cup {"STOP"} ELSE r.lockErr
  <2>1. r.lockErr \cup {"STOP"} \in SUBSET Contacts
    BY <1>2 DEF Contacts
  <2>. DEFINE k == r.lockErr \cup {"STOP"}
  <2>2. Locked(r, "STOP") = [r EXCEPT !.lockErr = k]
    BY DEF Locked
  <2>3. k \in SUBSET Contacts
    BY <2>1
  <2>4. k = r.lockErr \cup {"STOP"}
    OBVIOUS
  <2>. HIDE DEF k
  <2>5. Running(Locked(r, "STOP")) /\ Locked(r, "STOP").lockErr = k /\ Locked(r, "STOP").state = r.state
    BY <2>2, <2>3, SetLock
  <2>. QED  BY <2>4, <2>5
<1>. HIDE DEF a
<1>4. a.lockErr \in SUBSET Contacts
  BY <1>2, <1>3 DEF Contacts
<1>5. /\ Running(b) /\ b.state = r.state
      /\ b.lockErr = IF stop \div 2 = 0 THEN a.lockErr \ {"STOP"} ELSE a.lockErr
  <2>. DEFINE k == a.lockErr \ {"STOP"}
  <2>1. b = IF stop \div 2 = 0 THEN [a EXCEPT !.lockErr = k] ELSE a
    BY DEF Opened
  <2>2. k \in SUBSET Contacts /\ k = a.lockErr \ {"STOP"}
    BY <1>4
  <2>. HIDE DEF k
  <2>3. CASE stop \div 2 = 0
    <3>1. b = [a EXCEPT !.lockErr = k] /\ Running(a)
      BY <1>3, <2>1, <2>3
    <3>. HIDE DEF b
    <3>2. Running(b) /\ b.lockErr = k /\ b.state = a.state
      BY <2>2, <3>1, SetLock
    <3>. QED  BY <1>3, <2>2, <2>3, <3>2
  <2>4. CASE stop \div 2 # 0
    BY <1>3, <2>1, <2>4
  <2>. QED  BY <2>3, <2>4
<1>. HIDE DEF b
<1>6. b.lockErr \in SUBSET Contacts
  BY <1>4, <1>5
<1>7. /\ Running(c) /\ c.state = r.state
      /\ c.lockErr = IF startEdge THEN b.lockErr \cup {"START"} ELSE b.lockErr
  <2>1. b.lockErr \cup {"START"} \in SUBSET Contacts
    BY <1>6 DEF Contacts
  <2>. DEFINE k == b.lockErr \cup {"START"}
  <2>2. Locked(b, "START") = [b EXCEPT !.lockErr = k]
    BY DEF Locked
  <2>3. k \in SUBSET Contacts
    BY <2>1
  <2>4. k = b.lockErr \cup {"START"}
    OBVIOUS
  <2>. HIDE DEF k
  <2>5. Running(Locked(b, "START")) /\ Locked(b, "START").lockErr = k /\ Locked(b, "START").state = b.state
    BY <1>5, <2>2, <2>3, SetLock
  <2>. QED  BY <1>5, <2>4, <2>5
<1>. HIDE DEF c
<1>8. c.lockErr \in SUBSET Contacts
  BY <1>6, <1>7 DEF Contacts
<1>9. /\ Running(d) /\ d.state = r.state
      /\ d.lockErr = IF start \div 2 = 0 THEN c.lockErr \ {"START"} ELSE c.lockErr
  <2>. DEFINE k == c.lockErr \ {"START"}
  <2>1. d = IF start \div 2 = 0 THEN [c EXCEPT !.lockErr = k] ELSE c
    BY DEF Opened
  <2>2. k \in SUBSET Contacts /\ k = c.lockErr \ {"START"}
    BY <1>8
  <2>. HIDE DEF k
  <2>3. CASE start \div 2 = 0
    BY <1>7, <2>1, <2>2, <2>3, SetLock
  <2>4. CASE start \div 2 # 0
    BY <1>7, <2>1, <2>4
  <2>. QED  BY <2>3, <2>4
<1>. HIDE DEF d
<1>10. Well(onStart(c)) /\ onStart(c).lockErr = c.lockErr
  BY <1>7, OnStart
<1>11. Running(onStop(a)) /\ onStop(a).lockErr = a.lockErr
  BY <1>3, SetState DEF onStop
<1>12. Well(io)
  BY <1>1, <1>9, <1>10, <1>11 DEF Running
<1>13. ASSUME stop = 0, start = 0 PROVE io.state = r.state
  BY <1>1, <1>9, <1>13
<1>14. stop \div 2 = 0 <=> stop # 2
  BY DEF Contact
<1>15. start = 2 => start \div 2 # 0 /\ start > 0
  OBVIOUS
<1>16. stop = 2 => stop > 0
  OBVIOUS
<1>17. ASSUME start = 2
       PROVE "START" \in io.lockErr \/ ("STOP" \in io.lockErr /\ r.lockErr = {})
  <2>1. CASE stopEdge /\ "START" \notin r.lockErr
    BY <1>1, <1>2, <1>3, <1>11, <2>1 DEF Contacts
  <2>2. CASE ~ (stopEdge /\ "START" \notin r.lockErr)
    BY <1>1, <1>7, <1>9, <1>10, <1>15, <1>17, <2>2
  <2>. QED  BY <2>1, <2>2
<1>18. ASSUME start = 2, "START" \in r.lockErr
       PROVE "START" \in io.lockErr /\ io.state = r.state
  BY <1>1, <1>3, <1>5, <1>7, <1>9, <1>15, <1>18
<1>. QED  BY <1>12, <1>13, <1>17, <1>18

LEMMA IdleTurn ==
  ASSUME NEW r, Running(r), tick \in Word, NEW command
  PROVE  Well(onIdle(r, command)) /\ onIdle(r, command).lockErr = r.lockErr
BY OnStart, OnStartTest, SetState DEF onIdle, onStop, Running

LEMMA TestTurn ==
  ASSUME NEW r, Running(r), r.state = "TEST", tick \in Word, NEW command, NEW growth, NEW full
  PROVE  /\ Running(onWorkTimer(r, command, FALSE, growth, full))
         /\ onWorkTimer(r, command, FALSE, growth, full).lockErr = r.lockErr
<1>1. r.state \in Working
  BY DEF Working
<1>2. Running(Interrupt(r, command)) /\ Interrupt(r, command).lockErr = r.lockErr
  BY <1>1, SetState, Paused DEF Interrupt
<1>. DEFINE d == TimerDose(r)
<1>3. Running(d) /\ d.lockErr = r.lockErr
  BY TimerDoses
<1>. DEFINE e == Finished(d, TimeOver(d) \/ IsCanOverflow(d, full))
<1>4. Running(e) /\ e.lockErr = r.lockErr
  BY <1>3, Ends
<1>5. onWorkTimer(r, command, FALSE, growth, full) \in {Interrupt(r, command), e}
  BY DEF onWorkTimer
<1>. QED  BY <1>2, <1>4, <1>5

LEMMA VolumeTurn ==
  ASSUME NEW r, Running(r), r.state \in {"WORKVOLUME", "WORKMASS"}, NEW command, NEW growth, NEW full
  PROVE  /\ Running(onWorkVolume(r, command, growth, full))
         /\ onWorkVolume(r, command, growth, full).lockErr = r.lockErr
<1>1. r.state \in Working
  BY DEF Working
<1>2. Running(Interrupt(r, command)) /\ Interrupt(r, command).lockErr = r.lockErr
  BY <1>1, SetState, Paused DEF Interrupt
<1>. DEFINE d == IF growth = "far" /\ r.interval # Infinite THEN Dose(r) ELSE r
<1>3. Running(d) /\ d.lockErr = r.lockErr
  BY Doses
<1>. DEFINE e == Finished(d, IsCanOverflow(d, full))
<1>4. Running(e) /\ e.lockErr = r.lockErr
  BY <1>3, Ends
<1>5. onWorkVolume(r, command, growth, full) \in {Interrupt(r, command), e}
  BY DEF onWorkVolume
<1>. QED  BY <1>2, <1>4, <1>5

\* The turn of the state keeps the object well-formed, and the contacts alone.
LEMMA TurnWell ==
  ASSUME NEW r, Well(r), tick \in Word, NEW command, NEW growth, NEW full
  PROVE  Well(Turn(r, command, growth, full)) /\ Turn(r, command, growth, full).lockErr = r.lockErr
<1>. DEFINE t == Turn(r, command, growth, full)
<1>1. CASE r.state \in {"IDLE", "FINISH"}
  <2>1. t = onIdle(r, command)
    BY <1>1 DEF Turn
  <2>. QED  BY <1>1, <2>1, IdleTurn DEF Running
<1>2. CASE r.state = "TEST"
  <2>1. t = onWorkTimer(r, command, FALSE, growth, full)
    BY <1>2 DEF Turn
  <2>2. Running(r)
    BY <1>2 DEF Running
  <2>3. Running(t) /\ t.lockErr = r.lockErr
    <3>. HIDE DEF t
    <3>. QED  BY <1>2, <2>1, <2>2, TestTurn
  <2>. QED  BY <2>3 DEF Running
<1>3. CASE r.state \in {"WORKVOLUME", "WORKMASS"}
  <2>1. t = onWorkVolume(r, command, growth, full)
    BY <1>3 DEF Turn
  <2>. QED  BY <1>3, <2>1, VolumeTurn DEF Running
<1>4. CASE r.state = "ERROR"
  <2>1. t = onWorkError(r, command)
    BY <1>4 DEF Turn
  <2>2. Running(r)
    BY <1>4 DEF Running
  <2>3. t = r \/ t = [r EXCEPT !.state = "IDLE"]
    BY <2>1 DEF onWorkError, onStop
  <2>4. Running(t) /\ t.lockErr = r.lockErr
    <3>. HIDE DEF t
    <3>1. Running([r EXCEPT !.state = "IDLE"]) /\ [r EXCEPT !.state = "IDLE"].lockErr = r.lockErr
      BY <2>2, SetState
    <3>. QED  BY <2>2, <2>3, <3>1
  <2>. QED  BY <2>4 DEF Running
<1>5. CASE r.state \in {"PAUSE", "TRAPPED"}
  <2>1. t = r
    BY <1>5 DEF Turn
  <2>. QED  BY <2>1
<1>6. r.state \in States /\ r.state # "WORKTIME"
  BY DEF Well, Sound, Samplers
<1>. QED  BY <1>1, <1>2, <1>3, <1>4, <1>5, <1>6 DEF States, Working

-----------------------------------------------------------------------------
(* The steps.                                                              *)

LEMMA WriteWell ==
  ASSUME IInv, Alive, NEW q,
         \/ \E v \in Methods : q = [s EXCEPT !.method = v]
         \/ \E v \in Selects : q = [s EXCEPT !.select = v]
         \/ \E v \in Periods : q = [s EXCEPT !.period = v]
         \/ \E v \in Tests : q = [s EXCEPT !.test = v]
         \/ \E v \in CanDoses : q = [s EXCEPT !.canDoses = v]
         \/ \E v \in BOOLEAN : q = [s EXCEPT !.grab = v]
         \/ \E v \in Times : q = [s EXCEPT !.sinceStart = v]
  PROVE  Running(q) /\ q.lockErr = s.lockErr /\ q.state = s.state
<1>1. s \in Samplers /\ Sound(s) /\ s.state # "TRAPPED"
  BY DEF IInv, Well, Alive
<1>2. /\ q \in Samplers /\ q.lockErr = s.lockErr /\ q.state = s.state /\ q.grabPresent = s.grabPresent
      /\ q.grabRemain = s.grabRemain /\ q.grabCount = s.grabCount
  BY <1>1 DEF Samplers
<1>3. Running(q)
  BY <1>1, <1>2 DEF Running, Well, Sound
<1>. QED  BY <1>2, <1>3

LEMMA StepIInv == IInv /\ [Next]_vars => IInv'
<1>. SUFFICES ASSUME IInv, [Next]_vars PROVE IInv'
  OBVIOUS
<1>0. Well(s) /\ tick \in Word /\ held \in 0..2 /\ HeldLocked /\ back \in 0..MaxBack
  BY DEF IInv
<1>1. ASSUME NEW command \in Commands, NEW stop \in Contact, NEW start \in Contact,
             NEW growth \in Growths, NEW full \in BOOLEAN,
             calculate(command, stop, start, growth, full)
      PROVE  IInv'
  <2>. DEFINE idle == [s EXCEPT !.grab = FALSE]
              io == checkIO(idle, stop, start)
  <2>1. Alive /\ s' = Turn(io, command, growth, full) /\ tick' = tick /\ back' = back
        /\ held' = IF start = 2 THEN Min({held + 1, 2}) ELSE 0
    BY <1>1 DEF calculate
  <2>2. Running(idle) /\ idle.lockErr = s.lockErr
    BY <2>1, WriteWell
  <2>. HIDE DEF idle
  <2>3. /\ Well(io)
        /\ start = 2 => "START" \in io.lockErr \/ ("STOP" \in io.lockErr /\ s.lockErr = {})
    BY <1>0, <2>2, CheckIO
  <2>4. start = 2 /\ "START" \in s.lockErr => "START" \in io.lockErr
    BY <1>0, <2>2, CheckIO
  <2>. HIDE DEF io
  <2>5. Well(s') /\ s'.lockErr = io.lockErr
    BY <1>0, <2>1, <2>3, TurnWell
  <2>6. held' = IF start # 2 THEN 0 ELSE IF held = 0 THEN 1 ELSE 2
    <3>1. Min({0 + 1, 2}) = 1 /\ Min({1 + 1, 2}) = 2 /\ Min({2 + 1, 2}) = 2
      BY DEF Min
    <3>. QED  BY <1>0, <2>1, <3>1
  <2>7. HeldLocked'
    BY <1>0, <2>3, <2>4, <2>5, <2>6 DEF HeldLocked
  <2>. QED  BY <1>0, <2>1, <2>5, <2>6, <2>7 DEF IInv
<1>2. CASE calculateAgain
  <2>1. Running(s') /\ s'.lockErr = s.lockErr
    BY <1>2, WriteWell DEF calculateAgain
  <2>. QED  BY <1>0, <1>2, <2>1 DEF calculateAgain, IInv, HeldLocked, Running
<1>3. ASSUME NEW field, NEW v, Write(field, v),
             \/ field = "method" /\ v \in Methods
             \/ field = "select" /\ v \in Selects
             \/ field = "period" /\ v \in Periods
             \/ field = "test" /\ v \in Tests
             \/ field = "canDoses" /\ v \in CanDoses
      PROVE  IInv'
  <2>1. Running(s') /\ s'.lockErr = s.lockErr
    BY <1>3, WriteWell DEF Write
  <2>. QED  BY <1>0, <1>3, <2>1 DEF Write, IInv, HeldLocked, Running
<1>4. CASE Tick
  <2>1. Min({s.sinceStart + 1, Long}) \in Times
    <3>1. s.sinceStart \in Int /\ s.sinceStart + 1 \in Int
      BY <1>0 DEF Well, Samplers, Times
    <3>. DEFINE S == {s.sinceStart + 1, Long}
    <3>2. \E x \in S : \A y \in S : x <= y
      BY <3>1, LongNat
    <3>3. Min(S) \in S /\ \A y \in S : Min(S) <= y
      BY <3>2 DEF Min
    <3>. QED  BY <3>1, <3>3, LongNat DEF Times
  <2>2. Running(s') /\ s'.lockErr = s.lockErr
    <3>. DEFINE m == Min({s.sinceStart + 1, Long})
    <3>1. s' = [s EXCEPT !.sinceStart = m] /\ Alive
      BY <1>4 DEF Tick
    <3>. HIDE DEF m
    <3>. QED  BY <2>1, <3>1, WriteWell DEF m
  <2>3. tick' \in Word
    <3>1. tick + 1 \in Int
      BY <1>0, Words DEF Word
    <3>. QED  BY <1>4, <3>1, WrapType DEF Tick, Word
  <2>. QED  BY <1>0, <1>4, <2>2, <2>3 DEF Tick, IInv, HeldLocked, Running
<1>5. ASSUME NEW d \in 1..back, SetClock(d) PROVE IInv'
  <2>1. s.sinceStart - d \in Times /\ tick - d \in Int /\ back - d \in 0..MaxBack
    BY <1>0, Words, LongNat DEF Well, Samplers, Word, Times
  <2>2. Running(s') /\ s'.lockErr = s.lockErr
    <3>. DEFINE m == s.sinceStart - d
    <3>1. s' = [s EXCEPT !.sinceStart = m] /\ Alive
      BY <1>5 DEF SetClock
    <3>. HIDE DEF m
    <3>. QED  BY <2>1, <3>1, WriteWell DEF m
  <2>3. tick' \in Word
    BY <1>5, <2>1, WrapType DEF SetClock, Word
  <2>. QED  BY <1>0, <1>5, <2>1, <2>2, <2>3 DEF SetClock, IInv, HeldLocked, Running
<1>6. CASE UNCHANGED vars
  BY <1>0, <1>6 DEF vars, IInv, HeldLocked
<1>. QED  BY <1>1, <1>2, <1>3, <1>4, <1>5, <1>6 DEF Next, Calculations

LEMMA Invariant == Spec => []IInv
<1>. QED  BY InitIInv, StepIInv, PTL DEF Spec

\* What the object keeps has its type: no count of doses leaves UDINT, whatever is
\* subtracted from it.
THEOREM TypeCorrect == Spec => []TypeOK
BY Invariant, IInvImplies, PTL

\* While doses are taken, and in a pause, the taken and the remaining ones add up to
\* the number set at the start, over the wrap of the counts (onStart, onStartTest).
THEOREM DosesSum == Spec => []DosesAdd
BY Invariant, IInvImplies, PTL

\* No sampling by time is at work: onStart divides the period by the number of doses
\* that it has set to zero, so WORKTIME is never entered.
NeverByTime == s.state # "WORKTIME"
\* A sampling by time never works (rSampler::onStart).
THEOREM TimeNeverWorks == Spec => []NeverByTime
<1>1. IInv => NeverByTime
  BY DEF IInv, Well, Sound, NeverByTime
<1>. QED  BY Invariant, <1>1, PTL

\* No command takes a paused sampler out of the pause, RESUME does not either: only a
\* contact does (rSampler::calculate, checkIO).
THEOREM PauseIsHeld == Spec => PauseHeld
<1>1. IInv /\ [Next]_vars =>
        [s.state = "PAUSE" /\ s'.state # "PAUSE"
     => \E command \in Commands, stop, start \in Contact, growth \in Growths, full \in BOOLEAN :
          calculate(command, stop, start, growth, full) /\ stop + start > 0]_vars
  <2>. SUFFICES ASSUME IInv, Next, s.state = "PAUSE", s'.state # "PAUSE"
                PROVE  \E command \in Commands, stop, start \in Contact, growth \in Growths, full \in BOOLEAN :
                         calculate(command, stop, start, growth, full) /\ stop + start > 0
    OBVIOUS
  <2>1. ASSUME NEW q, Alive,
         \/ \E v \in Methods : q = [s EXCEPT !.method = v]
         \/ \E v \in Selects : q = [s EXCEPT !.select = v]
         \/ \E v \in Periods : q = [s EXCEPT !.period = v]
         \/ \E v \in Tests : q = [s EXCEPT !.test = v]
         \/ \E v \in CanDoses : q = [s EXCEPT !.canDoses = v]
         \/ \E v \in BOOLEAN : q = [s EXCEPT !.grab = v]
         \/ \E v : q = [s EXCEPT !.sinceStart = v]
        PROVE q.state = "PAUSE"
    BY <2>1 DEF IInv, Well, Samplers
  <2>2. PICK command \in Commands, stop \in Contact, start \in Contact, growth \in Growths, full \in BOOLEAN :
          calculate(command, stop, start, growth, full)
    BY <2>1 DEF Next, Calculations, calculateAgain, Write, Tick, SetClock
  <2>. SUFFICES ASSUME stop + start <= 0 PROVE FALSE
    BY <2>2 DEF Contact
  <2>3. stop = 0 /\ start = 0
    BY DEF Contact
  <2>. DEFINE idle == [s EXCEPT !.grab = FALSE]
              io == checkIO(idle, stop, start)
  <2>4. Alive /\ s' = Turn(io, command, growth, full)
    BY <2>2 DEF calculate
  <2>5. Running(idle) /\ idle.state = "PAUSE" /\ tick \in Word
    BY <2>4, WriteWell DEF IInv
  <2>. HIDE DEF idle
  <2>6. io.state = "PAUSE"
    BY <2>3, <2>5, CheckIO
  <2>. HIDE DEF io
  <2>. QED  BY <2>4, <2>6 DEF Turn
<1>. QED  BY Invariant, <1>1, PTL DEF Spec, PauseHeld

\* A start contact that stays closed starts one sampling: when that is finished, no
\* other begins without a command (rSampler::checkIO).
THEOREM HeldStarts == Spec => HeldStartsOnce
<1>1. IInv /\ [Next]_vars =>
        [held = 2 /\ s.state = "FINISH" /\ s'.state \notin {"FINISH", "IDLE"}
     => \A stop \in Contact, growth \in Growths, full \in BOOLEAN :
          ~calculate("NONE", stop, 2, growth, full)]_vars
  <2>. SUFFICES ASSUME IInv, held = 2, s.state = "FINISH", NEW stop \in Contact, NEW growth \in Growths,
                       NEW full \in BOOLEAN, calculate("NONE", stop, 2, growth, full)
                PROVE  s'.state = "FINISH"
    OBVIOUS
  <2>. DEFINE idle == [s EXCEPT !.grab = FALSE]
              io == checkIO(idle, stop, 2)
  <2>1. Alive /\ s' = Turn(io, "NONE", growth, full)
    BY DEF calculate
  <2>2. Running(idle) /\ idle.state = "FINISH" /\ tick \in Word /\ "START" \in idle.lockErr
    BY <2>1, WriteWell DEF IInv, HeldLocked
  <2>. HIDE DEF idle
  <2>3. io.state = "FINISH"
    <3>1. 2 \in Contact
      BY DEF Contact
    <3>. QED  BY <2>2, <3>1, CheckIO
  <2>. HIDE DEF io
  <2>. QED  BY <2>1, <2>3 DEF Turn, onIdle
<1>. QED  BY Invariant, <1>1, PTL DEF Spec, HeldStartsOnce

-----------------------------------------------------------------------------
(* The clock of a test.                                                    *)

\* The state, its clock and the time it has are the same.
Same(q, r) == q.state = r.state /\ q.sinceStart = r.sinceStart /\ q.period = r.period

\* The contacts are kept apart from the clock.
LEMMA LockSame ==
  ASSUME NEW r, Running(r), NEW k \in Contacts, NEW v
  PROVE  /\ Running(Locked(r, k)) /\ Same(Locked(r, k), r)
         /\ Running(Opened(r, k, v)) /\ Same(Opened(r, k, v), r)
<1>1. ASSUME NEW l \in SUBSET Contacts, NEW q, q = [r EXCEPT !.lockErr = l]
      PROVE  Running(q) /\ Same(q, r)
  <2>1. Running(q)
    BY <1>1, SetLock
  <2>2. Same(q, r)
    BY <1>1 DEF Running, Well, Samplers, Same
  <2>. QED  BY <2>1, <2>2
<1>2. r.lockErr \cup {k} \in SUBSET Contacts /\ r.lockErr \ {k} \in SUBSET Contacts
  BY DEF Running, Well, Samplers
<1>3. Running(Locked(r, k)) /\ Same(Locked(r, k), r)
  BY <1>1, <1>2 DEF Locked
<1>4. Running(Opened(r, k, v)) /\ Same(Opened(r, k, v), r)
  <2>1. CASE v \div 2 = 0
    BY <1>1, <1>2, <2>1 DEF Opened
  <2>2. CASE v \div 2 # 0
    BY <2>2 DEF Opened, Same
  <2>. QED  BY <2>1, <2>2
<1>. QED  BY <1>3, <1>4

\* The contacts leave a test and its clock as they are, or it is no test any more; only
\* a stop contact leaves it for the command TEST.
LEMMA CheckIOSame ==
  ASSUME NEW r, Running(r), tick \in Word, NEW stop, NEW start, r.state = "TEST"
  PROVE  \/ Same(checkIO(r, stop, start), r)
         \/ checkIO(r, stop, start).state \in {"WORKVOLUME", "WORKMASS", "ERROR", "TRAPPED"}
         \/ checkIO(r, stop, start).state = "IDLE" /\ stop > 0
<1>. DEFINE stopEdge == stop > 0 /\ "STOP" \notin r.lockErr
            a == IF stopEdge THEN Locked(r, "STOP") ELSE r
            b == Opened(a, "STOP", stop)
            startEdge == start > 0 /\ "START" \notin b.lockErr
            c == IF startEdge THEN Locked(b, "START") ELSE b
            d == Opened(c, "START", start)
            io == checkIO(r, stop, start)
<1>1. io \in {onStart(c), d} \/ (io = onStop(a) /\ stop > 0)
  BY DEF checkIO
<1>2. "STOP" \in Contacts /\ "START" \in Contacts
  BY DEF Contacts
<1>3. Running(a) /\ Same(a, r)
  BY <1>2, LockSame DEF Same
<1>. HIDE DEF a
<1>4. Running(b) /\ Same(b, r)
  BY <1>2, <1>3, LockSame DEF Same
<1>. HIDE DEF b
<1>5. Running(c) /\ Same(c, r)
  BY <1>2, <1>4, LockSame DEF Same
<1>. HIDE DEF c
<1>6. Running(d) /\ Same(d, r)
  BY <1>2, <1>5, LockSame DEF Same
<1>. HIDE DEF d
<1>7. onStop(a).state = "IDLE"
  BY <1>3, SetState DEF onStop
<1>8. onStart(c).state \in {"WORKVOLUME", "WORKMASS", "ERROR", "TRAPPED"}
  BY <1>5, OnStart
<1>. QED  BY <1>1, <1>6, <1>7, <1>8

\* A dose does not touch the clock.
LEMMA DoseSame ==
  ASSUME NEW r, Running(r)
  PROVE  Same(TimerDose(r), r)
<1>. DEFINE d == Dose(r)
            q == [d EXCEPT !.timeRemain = Wrap(@ - r.interval), !.timerInterval = Wrap(@ + r.interval)]
<1>1. Running(d) /\ Same(d, r)
  <2>1. Running(d)
    BY Doses
  <2>2. Same(d, r)
    BY DEF Running, Well, Samplers, Dose, Same
  <2>. QED  BY <2>1, <2>2
<1>. HIDE DEF d
<1>2. Same(q, r)
  BY <1>1 DEF Running, Well, Samplers, Same
<1>3. TimerDose(r) \in {q, r}
  BY DEF TimerDose, d
<1>. HIDE DEF q
<1>. QED  BY <1>2, <1>3 DEF Same

\* A turn goes on with a test only while its time is not over.
LEMMA TurnClock ==
  ASSUME NEW r, Well(r), tick \in Word, NEW command, NEW growth, NEW full, NEW t,
         t = Turn(r, command, growth, full), t.state = "TEST"
  PROVE  \/ t.sinceStart = 0 /\ command = "TEST" /\ r.state \in {"IDLE", "FINISH"}
         \/ Same(t, r) /\ ~TimeOver(r)
<1>1. CASE r.state \in {"IDLE", "FINISH"}
  <2>1. t = onIdle(r, command) /\ Running(r)
    BY <1>1 DEF Turn, Running
  <2>2. t \in {onStart(r), onStop(r), r} \/ (t = onStartTest(r) /\ command = "TEST")
    BY <2>1 DEF onIdle
  <2>3. onStart(r).state # "TEST" /\ onStop(r).state = "IDLE"
    BY <2>1, OnStart, SetState DEF onStop
  <2>4. onStartTest(r).sinceStart = 0
    <3>. DEFINE e == [r EXCEPT !.grabCount = r.test]
    <3>1. e \in Samplers
      BY <2>1, Literals DEF Running, Well, Samplers
    <3>. HIDE DEF e
    <3>2. [Begun(e, Wrap(2 * r.test), "TEST") EXCEPT !.noflow = FALSE, !.grabPresent = 0, !.timeRemain = 0].sinceStart = 0
      BY <3>1 DEF Begun, Samplers
    <3>. QED  BY <3>2 DEF onStartTest, e
  <2>. QED  BY <1>1, <2>2, <2>3, <2>4
<1>2. CASE r.state = "TEST"
  <2>. DEFINE d == TimerDose(r)
              over == TimeOver(d) \/ IsCanOverflow(d, full)
              e == Finished(d, over)
  <2>1. Running(r) /\ t = onWorkTimer(r, command, FALSE, growth, full)
    BY <1>2 DEF Turn, Running
  <2>2. Interrupted(command) => Interrupt(r, command).state \in {"FINISH", "PAUSE"}
    BY <2>1 DEF Interrupt, onPause, Running, Well, Samplers
  <2>3. ~Interrupted(command) /\ t = e
    BY <1>2, <2>1, <2>2 DEF onWorkTimer
  <2>4. Running(d) /\ Same(d, r)
    BY <2>1, DoseSame, TimerDoses
  <2>5. e.state = "FINISH" \/ (e = d /\ ~TimeOver(d))
    <3>. HIDE DEF d
    <3>1. [d EXCEPT !.state = "FINISH"].state = "FINISH"
      BY <2>4, SetState
    <3>. QED  BY <3>1 DEF Finished
  <2>6. e = d /\ ~TimeOver(d)
    BY <2>3, <2>5
  <2>. HIDE DEF d, e
  <2>. QED  BY <2>3, <2>4, <2>6 DEF TimeOver, Same
<1>3. CASE r.state \in {"WORKVOLUME", "WORKMASS"}
  <2>. DEFINE d == IF growth = "far" /\ r.interval # Infinite THEN Dose(r) ELSE r
              e == Finished(d, IsCanOverflow(d, full))
  <2>1. Running(r) /\ t = onWorkVolume(r, command, growth, full)
    BY <1>3 DEF Turn, Running
  <2>2. Interrupted(command) => Interrupt(r, command).state \in {"FINISH", "PAUSE"}
    BY <2>1 DEF Interrupt, onPause, Running, Well, Samplers
  <2>3. t = e
    BY <2>1, <2>2 DEF onWorkVolume
  <2>4. Running(d) /\ d.state = r.state
    BY <2>1, Doses
  <2>. HIDE DEF d
  <2>5. [d EXCEPT !.state = "FINISH"].state = "FINISH"
    BY <2>4, SetState
  <2>6. e.state \in {"FINISH", r.state}
    BY <2>4, <2>5 DEF Finished
  <2>. QED  BY <1>3, <2>3, <2>6
<1>4. CASE r.state = "ERROR"
  <2>1. Running(r) /\ t \in {r, onStop(r)}
    BY <1>4 DEF Turn, onWorkError, Running
  <2>. QED  BY <1>4, <2>1, SetState DEF onStop
<1>5. CASE r.state \in {"PAUSE", "TRAPPED"}
  BY <1>5 DEF Turn
<1>6. r.state \in States /\ r.state # "WORKTIME"
  BY DEF Well, Sound, Samplers
<1>. QED  BY <1>1, <1>2, <1>3, <1>4, <1>5, <1>6 DEF States, Working

\* Nothing puts off the end of a test but a clock that is set back, by as much as it is,
\* and a new start, in the calculation that a stop contact has ended the test in; a test
\* whose time is over is not gone on with (rSampler::calculate, onWorkTimer).
THEOREM TestGoesOn == Spec => TestAdvances
<1>. DEFINE Goes == s'.sinceStart >= s.sinceStart - (back - back') /\ (TimeOver(s) => ~Calculations)
            Anew == /\ s'.sinceStart = 0
                    /\ \E stop \in Contact \ {0}, start \in Contact, growth \in Growths, full \in BOOLEAN :
                         calculate("TEST", stop, start, growth, full)
<1>1. ASSUME IInv, Next, s.state = "TEST", s'.state = "TEST"
      PROVE  Goes \/ Anew
  <2>1. s \in Samplers /\ s.sinceStart \in Int /\ tick \in Word /\ Well(s) /\ back \in Int
    BY <1>1, Words DEF IInv, Well, Samplers, Times
  <2>2. ASSUME NEW command \in Commands, NEW stop \in Contact, NEW start \in Contact,
               NEW growth \in Growths, NEW full \in BOOLEAN,
               calculate(command, stop, start, growth, full)
        PROVE  Anew \/ (s'.sinceStart = s.sinceStart /\ ~TimeOver(s))
    <3>. DEFINE idle == [s EXCEPT !.grab = FALSE]
                io == checkIO(idle, stop, start)
    <3>1. Alive /\ s' = Turn(io, command, growth, full)
      BY <2>2 DEF calculate
    <3>2. Running(idle)
      BY <1>1, <3>1, WriteWell
    <3>3. Same(idle, s)
      BY <2>1 DEF Same, Samplers
    <3>. HIDE DEF idle
    <3>4. Well(io)
      BY <2>1, <3>2, CheckIO
    <3>5. \/ Same(io, idle)
          \/ io.state \in {"WORKVOLUME", "WORKMASS", "ERROR", "TRAPPED"}
          \/ io.state = "IDLE" /\ stop > 0
      BY <1>1, <2>1, <3>2, <3>3, CheckIOSame DEF Same
    <3>. HIDE DEF io
    <3>6. \/ s'.sinceStart = 0 /\ command = "TEST" /\ io.state \in {"IDLE", "FINISH"}
          \/ Same(s', io) /\ ~TimeOver(io)
      BY <1>1, <2>1, <3>1, <3>4, TurnClock
    <3>7. CASE Same(s', io) /\ ~TimeOver(io)
      <4>1. Same(io, idle)
        BY <1>1, <3>5, <3>7 DEF Same
      <4>. QED  BY <3>3, <3>7, <4>1 DEF Same, TimeOver
    <3>8. CASE s'.sinceStart = 0 /\ command = "TEST" /\ io.state \in {"IDLE", "FINISH"}
      <4>1. stop \in Contact \ {0}
        BY <1>1, <3>3, <3>5, <3>8 DEF Same
      <4>. QED  BY <2>2, <3>8, <4>1
    <3>. QED  BY <3>6, <3>7, <3>8
  <2>3. ASSUME Calculations PROVE Goes \/ Anew
    <3>1. PICK command \in Commands, stop \in Contact, start \in Contact, growth \in Growths, full \in BOOLEAN :
            calculate(command, stop, start, growth, full)
      BY <2>3 DEF Calculations
    <3>2. back' = back
      BY <3>1 DEF calculate
    <3>3. CASE Anew
      BY <3>3
    <3>4. CASE s'.sinceStart = s.sinceStart /\ ~TimeOver(s)
      BY <2>1, <3>2, <3>4
    <3>. HIDE DEF Anew, Goes
    <3>. QED  BY <2>2, <3>1, <3>3, <3>4
  <2>4. ASSUME ~Calculations PROVE s'.sinceStart >= s.sinceStart - (back - back')
    <3>1. ASSUME calculateAgain PROVE s'.sinceStart = s.sinceStart /\ back' = back
      BY <2>1, <3>1 DEF calculateAgain, Samplers
    <3>2. ASSUME NEW field \in {"method", "select", "period", "test", "canDoses"}, NEW v, Write(field, v)
          PROVE  s'.sinceStart = s.sinceStart /\ back' = back
      BY <2>1, <3>2 DEF Write, Samplers
    <3>3. ASSUME Tick PROVE s'.sinceStart >= s.sinceStart - (back - back')
      \* The least of two times: the next second, or the longest one.
      <4>. DEFINE m == Min({s.sinceStart + 1, Long})
      <4>1. PICK x \in {s.sinceStart + 1, Long} : m = x
        <5>. DEFINE S == {s.sinceStart + 1, Long}
        <5>1. \E x \in S : \A y \in S : x <= y
          BY <2>1, LongNat
        <5>. QED  BY <5>1 DEF Min
      <4>2. s.sinceStart <= Long
        BY <1>1 DEF IInv, Well, Samplers, Times
      <4>3. s' = [s EXCEPT !.sinceStart = m] /\ back' = back
        BY <3>3 DEF Tick
      <4>. HIDE DEF m
      <4>4. s'.sinceStart = m
        BY <2>1, <4>3 DEF Samplers
      <4>. QED  BY <2>1, <4>1, <4>2, <4>3, <4>4, LongNat
    <3>4. ASSUME NEW d \in 1..back, SetClock(d) PROVE s'.sinceStart >= s.sinceStart - (back - back')
      <4>1. s' = [s EXCEPT !.sinceStart = s.sinceStart - d] /\ back' = back - d
        BY <3>4 DEF SetClock
      <4>2. s'.sinceStart = s.sinceStart - d
        BY <2>1, <4>1 DEF Samplers
      <4>. QED  BY <2>1, <4>1, <4>2
    <3>5. \/ calculateAgain \/ Tick \/ \E d \in 1..back : SetClock(d)
          \/ \E field \in {"method", "select", "period", "test", "canDoses"} : \E v : Write(field, v)
      BY <1>1, <2>4 DEF Next
    <3>. QED  BY <2>1, <3>1, <3>2, <3>3, <3>4, <3>5
  <2>. QED  BY <2>3, <2>4
<1>2. IInv /\ [Next]_vars => [s.state = "TEST" /\ s'.state = "TEST" => Goes \/ Anew]_vars
  <2>. HIDE DEF Goes, Anew
  <2>. QED  BY <1>1
<1>. QED  BY Invariant, <1>2, PTL DEF Spec, TestAdvances

-----------------------------------------------------------------------------
(* Selector.                                                               *)

\* A set that holds 0 and the successor of each of its members holds every number.
LEMMA Naturals_Induct ==
  ASSUME NEW T, 0 \in T, \A n \in Nat : n \in T => n + 1 \in T
  PROVE  Nat \subseteq T
<1>. SUFFICES ASSUME Nat \ T # {} PROVE FALSE
  OBVIOUS
<1>1. PICK m \in Nat \ T : \A k \in Nat \ T : m <= k
  BY Least
<1>2. m # 0 /\ m - 1 \in Nat
  BY <1>1
<1>3. m - 1 \in T
  BY <1>1, <1>2
<1>. QED  BY <1>1, <1>2, <1>3

-----------------------------------------------------------------------------
\* The places the loop of calculateSelector visits, from s on.
Visits(from) ==
  LET At[k \in 0..MAX_INPUTS] == IF k = 0 THEN from ELSE Neighbour(At[k - 1])
  IN  At

\* As many steps as the arrays have places: the function of the visits exists.
LEMMA VisitsStep ==
  ASSUME NEW from
  PROVE  /\ Visits(from)[0] = from
         /\ \A k \in 1..MAX_INPUTS : Visits(from)[k] = Neighbour(Visits(from)[k - 1])
<1>. DEFINE Rule(n, g) == g = [k \in 0..n |-> IF k = 0 THEN from ELSE Neighbour(g[k - 1])]
            T == {n \in Nat : \E g : Rule(n, g)}
<1>1. 0 \in T
  <2>. DEFINE g == [k \in 0..0 |-> from]
  <2>1. g = [k \in 0..0 |-> IF k = 0 THEN from ELSE Neighbour(g[k - 1])]
    OBVIOUS
  <2>. QED  BY <2>1
<1>2. ASSUME NEW n \in Nat, n \in T PROVE n + 1 \in T
  <2>1. PICK g : Rule(n, g)
    BY <1>2
  <2>. DEFINE h == [k \in 0..(n + 1) |-> IF k = n + 1 THEN Neighbour(g[n]) ELSE g[k]]
  <2>2. \A k \in 0..n : g[k] = IF k = 0 THEN from ELSE Neighbour(g[k - 1])
    BY <2>1
  <2>3. ASSUME NEW k \in 0..(n + 1)
        PROVE  h[k] = IF k = 0 THEN from ELSE Neighbour(h[k - 1])
    <3>1. CASE k = 0
      BY <2>2, <3>1
    <3>2. CASE k = n + 1
      <4>1. h[k - 1] = g[n] /\ h[k] = Neighbour(g[n]) /\ k # 0
        BY <3>2
      <4>. QED  BY <4>1
    <3>3. CASE k \in 1..n
      <4>1. h[k - 1] = g[k - 1] /\ h[k] = g[k] /\ k # 0 /\ k \in 0..n
        BY <3>3
      <4>. QED  BY <2>2, <4>1
    <3>. QED  BY <3>1, <3>2, <3>3
  <2>4. h = [k \in 0..(n + 1) |-> IF k = 0 THEN from ELSE Neighbour(h[k - 1])]
    BY <2>3
  <2>5. Rule(n + 1, h)
    BY <2>4
  <2>. HIDE DEF h, Rule
  <2>. QED  BY <2>5
<1>3. MAX_INPUTS \in T
  <2>. HIDE DEF T
  <2>1. Nat \subseteq T
    BY <1>1, <1>2, Naturals_Induct
  <2>. QED  BY <2>1, SelectorAssumption
<1>4. PICK g : Rule(MAX_INPUTS, g)
  BY <1>3
<1>5. Visits(from) = [k \in 0..MAX_INPUTS |-> IF k = 0 THEN from ELSE Neighbour(Visits(from)[k - 1])]
  <2>. DEFINE v == CHOOSE v : v = [k \in 0..MAX_INPUTS |-> IF k = 0 THEN from ELSE Neighbour(v[k - 1])]
  <2>1. v = [k \in 0..MAX_INPUTS |-> IF k = 0 THEN from ELSE Neighbour(v[k - 1])]
    BY <1>4
  <2>2. Visits(from) = v
    BY DEF Visits
  <2>. HIDE DEF v
  <2>. QED  BY <2>1, <2>2
<1>6. Visits(from)[0] = from
  BY <1>5, SelectorAssumption
<1>7. ASSUME NEW k \in 1..MAX_INPUTS PROVE Visits(from)[k] = Neighbour(Visits(from)[k - 1])
  <2>1. k \in 0..MAX_INPUTS /\ k # 0
    BY SelectorAssumption
  <2>. DEFINE w == Visits(from)
  <2>. HIDE DEF w
  <2>2. w = [j \in 0..MAX_INPUTS |-> IF j = 0 THEN from ELSE Neighbour(w[j - 1])]
    BY <1>5 DEF w
  <2>3. w[k] = Neighbour(w[k - 1])
    BY <2>1, <2>2
  <2>. QED  BY <2>3 DEF w
<1>. QED  BY <1>6, <1>7

LEMMA NeighbourRange ==
  ASSUME CountInputs \in Nat \ {0}, NEW from \in Keypad..CountInputs
  PROVE  Neighbour(from) \in 0..CountInputs
BY DEF Neighbour, Keypad

\* Every place the loop comes to is an input or the one behind the inputs.
LEMMA VisitsRange ==
  ASSUME CountInputs \in Nat \ {0}, NEW from \in Keypad..CountInputs, NEW k \in 1..MAX_INPUTS
  PROVE  Visits(from)[k] \in 0..CountInputs
<1>. DEFINE T == {n \in Nat : n \in 0..MAX_INPUTS => Visits(from)[n] \in Keypad..CountInputs}
<1>1. 0 \in T
  BY VisitsStep
<1>2. ASSUME NEW n \in Nat, n \in T PROVE n + 1 \in T
  <2>1. SUFFICES ASSUME n + 1 \in 0..MAX_INPUTS PROVE Visits(from)[n + 1] \in Keypad..CountInputs
    OBVIOUS
  <2>2. Visits(from)[n] \in Keypad..CountInputs
    BY <1>2, <2>1, SelectorAssumption
  <2>3. Visits(from)[n + 1] = Neighbour(Visits(from)[n])
    <3>1. n + 1 \in 1..MAX_INPUTS /\ (n + 1) - 1 = n
      BY <2>1, SelectorAssumption
    <3>2. Visits(from)[n + 1] = Neighbour(Visits(from)[(n + 1) - 1])
      BY <3>1, VisitsStep
    <3>. QED  BY <3>1, <3>2
  <2>4. Neighbour(Visits(from)[n]) \in 0..CountInputs
    BY <2>2, NeighbourRange
  <2>. QED  BY <2>3, <2>4 DEF Keypad
<1>3. k - 1 \in T
  <2>. HIDE DEF T
  <2>1. Nat \subseteq T
    BY <1>1, <1>2, Naturals_Induct
  <2>. QED  BY <2>1, SelectorAssumption
<1>4. Visits(from)[k - 1] \in Keypad..CountInputs
  BY <1>3, SelectorAssumption
<1>5. Visits(from)[k] = Neighbour(Visits(from)[k - 1])
  BY VisitsStep
<1>. QED  BY <1>4, <1>5, NeighbourRange

-----------------------------------------------------------------------------
(* The loop of calculateSelector.                                                  *)

Tries == 1..Max({1, CountInputs - 2})

LEMMA TriesMax ==
  ASSUME CountInputs \in Nat \ {0}
  PROVE  /\ Max({1, CountInputs - 2}) = IF CountInputs > 3 THEN CountInputs - 2 ELSE 1
         /\ Max(Tries) = Max({1, CountInputs - 2})
<1>. DEFINE m == IF CountInputs > 3 THEN CountInputs - 2 ELSE 1
<1>1. Max({1, CountInputs - 2}) = m
  BY DEF Max
<1>2. Tries = 1..m
  BY <1>1 DEF Tries
<1>3. m \in 1..m /\ \A k \in 1..m : m >= k
  OBVIOUS
<1>4. Max(1..m) = m
  <2>. HIDE DEF m
  <2>1. \A x \in 1..m : (\A y \in 1..m : x >= y) => x = m
    BY <1>3
  <2>. QED  BY <1>3, <2>1 DEF Max
<1>. QED  BY <1>1, <1>2, <1>4

\* The selection the loop ends with is a place it has visited; when the next
\* place already has no fault it is that one.
LEMMA SwitchedVisits ==
  ASSUME CountInputs \in 1..(MAX_INPUTS - 1), NEW from, NEW f
  PROVE  /\ \E k \in 1..MAX_INPUTS : Switched(from, f) = Visits(from)[k]
         /\ CountInputs <= 3 => Switched(from, f) = Visits(from)[1]
<1>. DEFINE good == {k \in Tries : Visits(from)[k] \notin f}
            at == IF good = {} THEN Max(Tries) ELSE Min(good)
<1>0. CountInputs \in Nat \ {0} /\ MAX_INPUTS \in Nat
  BY SelectorAssumption
<1>1. Switched(from, f) = Visits(from)[at]
  BY DEF Switched, Visits, Tries
<1>2. Tries = 1..Max(Tries) /\ Max(Tries) \in Nat \ {0} /\ Max(Tries) <= CountInputs
      /\ (CountInputs <= 3 => Max(Tries) = 1)
  BY <1>0, TriesMax DEF Tries
<1>3. good # {} => Min(good) \in good
  <2>1. SUFFICES ASSUME good # {} PROVE Min(good) \in good
    OBVIOUS
  <2>2. good \subseteq Nat
    BY <1>2
  <2>. HIDE DEF good
  <2>3. PICK m \in good : \A k \in good : m <= k
    BY <2>1, <2>2, Least
  <2>. QED  BY <2>3 DEF Min
<1>4. at \in Tries
  BY <1>2, <1>3
<1>5. at \in 1..MAX_INPUTS /\ (CountInputs <= 3 => at = 1)
  <2>. HIDE DEF at
  <2>. QED  BY <1>0, <1>2, <1>4
<1>. HIDE DEF at
<1>. QED  BY <1>1, <1>5

LEMMA SwitchedRange ==
  ASSUME CountInputs \in 1..(MAX_INPUTS - 1), NEW from \in Keypad..CountInputs, NEW f
  PROVE  Switched(from, f) \in 0..CountInputs
<1>1. PICK k \in 1..MAX_INPUTS : Switched(from, f) = Visits(from)[k]
  BY SwitchedVisits
<1>2. CountInputs \in Nat \ {0}
  BY SelectorAssumption
<1>. QED  BY <1>1, <1>2, VisitsRange

LEMMA SwitchedNext ==
  ASSUME CountInputs \in 1..(MAX_INPUTS - 1), CountInputs <= 3, NEW from, NEW f
  PROVE  Switched(from, f) = Neighbour(from)
<1>1. Switched(from, f) = Visits(from)[1]
  BY SwitchedVisits
<1>2. 1 \in 1..MAX_INPUTS /\ 1 - 1 = 0
  BY SelectorAssumption
<1>3. Visits(from)[1] = Neighbour(Visits(from)[1 - 1]) /\ Visits(from)[0] = from
  BY <1>2, VisitsStep
<1>. QED  BY <1>1, <1>2, <1>3

-----------------------------------------------------------------------------
(* The invariant.  Only a configuration that was accepted is calculated,   *)
(* and the outputs come from the keypad until then.  The outputs show the  *)
(* selection until the operator writes it anew.                            *)

\* The inductive invariant.
SelectorIInv ==
  /\ SelectorTypeOK
  /\ state = "loaded" => CountInputs \in 2..(MAX_INPUTS - 1)
  /\ state = "none" => out = Keypad
  /\ ~user /\ out # Keypad => select = out

LEMMA SelectorInitIInv == SelectorInit => SelectorIInv
<1>. SUFFICES ASSUME SelectorInit PROVE SelectorIInv
  OBVIOUS
<1>1. Keypad \in Selections /\ Keypad \in Keypad..(MAX_INPUTS - 1) /\ MAX_INPUTS \in 0..MAX_INPUTS
  BY SelectorAssumption DEF Selections, Keypad
<1>2. "CHANGENEXT" \in Modes
  BY DEF Modes
<1>. QED  BY <1>1, <1>2 DEF SelectorInit, SelectorIInv, SelectorTypeOK

\* What calculateSelector makes of a selection it has found valid.
LEMMA TransitionRange ==
  ASSUME CountInputs \in 2..(MAX_INPUTS - 1), lockErr \in BOOLEAN,
         NEW from \in Keypad..(CountInputs - 1), NEW f
  PROVE  Transition(from, f).sel \in Keypad..CountInputs /\ Transition(from, f).lock \in BOOLEAN
<1>1. CountInputs \in Nat \ {0} /\ CountInputs \in 1..(MAX_INPUTS - 1)
  BY SelectorAssumption
<1>2. from \in Keypad..CountInputs /\ Keypad \in Keypad..CountInputs
  BY <1>1 DEF Keypad
<1>. DEFINE x == IF mode = "TOERROR" THEN Keypad ELSE from
            t == Switched(x, f)
<1>3. t \in 0..CountInputs
  <2>1. x \in Keypad..CountInputs
    BY <1>2
  <2>. HIDE DEF x
  <2>. QED  BY <1>1, <2>1, SwitchedRange
<1>4. Transition(from, f) = IF from = Keypad THEN [sel |-> from, lock |-> lockErr]
                         ELSE IF from \notin f THEN [sel |-> from, lock |-> FALSE]
                         ELSE IF mode = "NOCHANGE" THEN [sel |-> from, lock |-> TRUE]
                         ELSE [sel |-> IF t \in f THEN Keypad ELSE t, lock |-> FALSE]
  BY DEF Transition
<1>. HIDE DEF t
<1>5. t \in Keypad..CountInputs
  BY <1>1, <1>3 DEF Keypad
<1>6. from \in Keypad..CountInputs /\ Keypad \in Keypad..CountInputs
      /\ (IF t \in f THEN Keypad ELSE t) \in Keypad..CountInputs
  BY <1>2, <1>5
<1>7. CASE from = Keypad
  BY <1>4, <1>6, <1>7
<1>8. CASE from # Keypad /\ from \notin f
  BY <1>4, <1>6, <1>8
<1>9. CASE from # Keypad /\ from \in f /\ mode = "NOCHANGE"
  BY <1>4, <1>6, <1>9
<1>10. CASE from # Keypad /\ from \in f /\ mode # "NOCHANGE"
  BY <1>4, <1>6, <1>10
<1>. QED  BY <1>7, <1>8, <1>9, <1>10

LEMMA ValidSelect ==
  ASSUME SelectorTypeOK, CountInputs \in 2..(MAX_INPUTS - 1)
  PROVE  (IF InvalidSelect(select) THEN Keypad ELSE select) \in Keypad..(CountInputs - 1)
BY SelectorAssumption DEF SelectorTypeOK, InvalidSelect, Keypad, Selections

LEMMA Calculation ==
  ASSUME SelectorIInv, NEW f, calculateSelector(f)
  PROVE  SelectorIInv'
<1>. DEFINE valid == IF InvalidSelect(select) THEN Keypad ELSE select
            r == Transition(valid, f)
<1>1. SelectorTypeOK /\ state = "loaded" /\ CountInputs \in 2..(MAX_INPUTS - 1) /\ lockErr \in BOOLEAN
  BY DEF SelectorIInv, SelectorTypeOK, calculateSelector
<1>2. valid \in Keypad..(CountInputs - 1)
  BY <1>1, ValidSelect
<1>3. r.sel \in Keypad..CountInputs /\ r.lock \in BOOLEAN
  <2>. HIDE DEF valid
  <2>. QED  BY <1>1, <1>2, TransitionRange
<1>4. /\ select' = r.sel /\ saved' = valid /\ lockErr' = r.lock /\ out' = r.sel
      /\ fault' = (r.sel = Keypad \/ r.sel \in f) /\ user' = FALSE
      /\ UNCHANGED <<config, mode>>
  BY DEF calculateSelector
<1>. HIDE DEF valid, r
<1>5. Keypad..CountInputs \subseteq Selections /\ Keypad..CountInputs \subseteq Keypad..(MAX_INPUTS - 1)
      /\ Keypad..(CountInputs - 1) \subseteq Selections
  BY <1>1, SelectorAssumption DEF Selections, Keypad
<1>6. SelectorTypeOK'
  BY <1>1, <1>2, <1>3, <1>4, <1>5 DEF SelectorTypeOK, config
<1>. QED  BY <1>1, <1>4, <1>6 DEF SelectorIInv, config

LEMMA SelectorStepIInv == SelectorIInv /\ [SelectorNext]_selectorVars => SelectorIInv'
<1>. SUFFICES ASSUME SelectorIInv, [SelectorNext]_selectorVars PROVE SelectorIInv'
  OBVIOUS
<1>. USE DEF SelectorIInv, SelectorTypeOK, config, result
<1>1. ASSUME NEW n \in 0..MaxLinks, NEW m \in Modes \ {"other"}, NEW from \in Selections,
             NEW o \in BOOLEAN, loadFromXML(n, m, from, o)
      PROVE  SelectorIInv'
  <2>1. Accepts(n) => n \in 2..(MAX_INPUTS - 1) /\ n \in 0..MAX_INPUTS
    BY SelectorAssumption DEF Accepts
  <2>. QED  BY <1>1, <2>1 DEF loadFromXML
<1>2. ASSUME NEW from \in Selections, SetSelect(from) PROVE SelectorIInv'
  BY <1>2 DEF SetSelect
<1>3. ASSUME NEW m \in Modes, SetMode(m) PROVE SelectorIInv'
  BY <1>3 DEF SetMode
<1>4. ASSUME NEW f, calculateSelector(f) PROVE SelectorIInv'
  BY <1>4, Calculation
<1>5. CASE calculateOff
  BY <1>5 DEF calculateOff
<1>6. CASE UNCHANGED selectorVars
  BY <1>6 DEF selectorVars
<1>. QED  BY <1>1, <1>2, <1>3, <1>4, <1>5, <1>6 DEF SelectorNext

LEMMA SelectorInvariant == SelectorSpec => []SelectorIInv
BY SelectorInitIInv, SelectorStepIInv, PTL DEF SelectorSpec

\* Every variable keeps its type, and the selection that calculate reads the arrays of
\* inputs with is within them (rSelector::calculate).
THEOREM SelectorTypeCorrect == SelectorSpec => []SelectorTypeOK
<1>1. SelectorIInv => SelectorTypeOK
  BY DEF SelectorIInv
<1>. QED  BY <1>1, SelectorInvariant, PTL

\* A failed one of two inputs is left for the other one in the same calculation, if
\* that has no fault: always with CHANGEPREV, and with CHANGENEXT from the first one to
\* the second (rSelector::calculate).
THEOREM PairsSwitch == SelectorSpec => PairSwitches
<1>1. ASSUME SelectorIInv, NEW f \in Failures, calculateSelector(f), CountInputs = 2, select \in f, f # {0, 1},
             mode = "CHANGEPREV" \/ (mode = "CHANGENEXT" /\ select = 0)
      PROVE  out' \in {0, 1} \ f /\ ~fault'
  <2>1. /\ CountInputs \in 1..(MAX_INPUTS - 1) /\ CountInputs <= 3
        /\ f \subseteq {0, 1} /\ select \in {0, 1}
    BY <1>1 DEF SelectorIInv, Failures, calculateSelector
  <2>2. Neighbour(select) \in {0, 1} \ f
    <3>1. CASE mode = "CHANGENEXT" /\ select = 0
      <4>1. Neighbour(select) = 1
        BY <1>1, <3>1 DEF Neighbour
      <4>. QED  BY <1>1, <2>1, <3>1, <4>1
    <3>2. CASE mode = "CHANGEPREV" /\ select = 0
      <4>1. Neighbour(select) = 1
        BY <1>1, <3>2 DEF Neighbour
      <4>. QED  BY <1>1, <2>1, <3>2, <4>1
    <3>3. CASE mode = "CHANGEPREV" /\ select = 1
      <4>1. Neighbour(select) = 0
        BY <1>1, <3>3 DEF Neighbour
      <4>. QED  BY <1>1, <2>1, <3>3, <4>1
    <3>. QED  BY <1>1, <2>1, <3>1, <3>2, <3>3
  <2>3. Switched(select, f) = Neighbour(select)
    BY <2>1, SwitchedNext
  <2>4. ~InvalidSelect(select) /\ select # Keypad /\ mode # "TOERROR" /\ mode # "NOCHANGE"
    BY <1>1, <2>1 DEF InvalidSelect, Keypad
  <2>5. Transition(select, f).sel = Neighbour(select)
    BY <1>1, <2>2, <2>3, <2>4 DEF Transition
  <2>6. out' = Neighbour(select) /\ (fault' <=> (Neighbour(select) = Keypad \/ Neighbour(select) \in f))
    <3>. DEFINE r == Transition(select, f)
    <3>1. out' = r.sel /\ fault' = (r.sel = Keypad \/ r.sel \in f)
      BY <1>1, <2>4 DEF calculateSelector
    <3>2. r.sel = Neighbour(select)
      BY <2>5
    <3>. HIDE DEF r
    <3>. QED  BY <3>1, <3>2
  <2>. QED  BY <2>2, <2>6 DEF Keypad
<1>2. SelectorIInv => [\A f \in Failures :
                 /\ calculateSelector(f) /\ CountInputs = 2 /\ select \in f /\ f # {0, 1}
                 /\ mode = "CHANGEPREV" \/ (mode = "CHANGENEXT" /\ select = 0)
                 => out' \in {0, 1} \ f /\ ~fault']_selectorVars
  BY <1>1
<1>. QED  BY <1>2, SelectorInvariant, PTL DEF PairSwitches

\* With NOCHANGE a calculation keeps a valid selection (rSelector::calculate).
THEOREM SelectionIsKept == SelectorSpec => NoChangeHolds
<1>1. ASSUME SelectorIInv, NEW f \in Failures, calculateSelector(f), mode = "NOCHANGE",
             select \in 0..(CountInputs - 1)
      PROVE  select' = select
  <2>1. CountInputs \in Int
    BY <1>1 DEF SelectorIInv, SelectorTypeOK
  <2>2. ~InvalidSelect(select) /\ select # Keypad
    BY <1>1, <2>1 DEF InvalidSelect, Keypad
  <2>3. Transition(select, f).sel = select
    BY <1>1, <2>2 DEF Transition
  <2>. QED  BY <1>1, <2>2, <2>3 DEF calculateSelector
<1>2. SelectorIInv => [\A f \in Failures :
                 calculateSelector(f) /\ mode = "NOCHANGE" /\ select \in 0..(CountInputs - 1)
                 => select' = select]_selectorVars
  BY <1>1
<1>. QED  BY <1>2, SelectorInvariant, PTL DEF NoChangeHolds

\* The place behind the inputs, which CHANGENEXT reaches, is left by the next
\* calculation (rSelector::calculate).
THEOREM PhantomIsLeft == SelectorSpec => PhantomShort
<1>1. ASSUME SelectorIInv, NEW f \in Failures, calculateSelector(f), out = CountInputs, ~user
      PROVE  out' # CountInputs
  <2>1. CountInputs \in 2..(MAX_INPUTS - 1) /\ MAX_INPUTS \in Nat
    BY <1>1, SelectorAssumption DEF SelectorIInv, calculateSelector
  <2>2. select = CountInputs /\ CountInputs # Keypad
    BY <1>1, <2>1 DEF SelectorIInv, Keypad
  <2>3. InvalidSelect(select)
    BY <2>1, <2>2 DEF InvalidSelect
  <2>4. Transition(Keypad, f).sel = Keypad
    BY DEF Transition
  <2>5. out' = Keypad
    BY <1>1, <2>3, <2>4 DEF calculateSelector
  <2>. QED  BY <2>2, <2>5
<1>2. SelectorIInv => [\A f \in Failures :
                 calculateSelector(f) /\ out = CountInputs /\ ~user => out' # CountInputs]_selectorVars
  BY <1>1
<1>. QED  BY <1>2, SelectorInvariant, PTL DEF PhantomShort
=============================================================================
