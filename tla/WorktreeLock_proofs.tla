-------------------------- MODULE WorktreeLock_proofs --------------------------
(***************************************************************************)
(* Proofs about WorktreeLock: a running thread is never taken for an       *)
(* exited one, and the lock has one holder if no holder keeps it for       *)
(* longer than a living owner is left alone.  Then about the gates that    *)
(* AssetGate and KeyedGate model.                                          *)
(***************************************************************************)
EXTENDS WorktreeLock, AssetGate, NaturalsInduction, FiniteSetTheorems, SequenceTheorems, TLAPS

(* The registry: a running thread has its slot to itself, and the slot of  *)
(* an ended one has moved on or is about to.                               *)
RunningAlive == \A t \in up : ProcOf[t] \in alive
RunningSlot ==
    \A t \in up : name[t].gen # 0 => slot[ProcOf[t]][name[t].slot] = name[t].gen
NamesApart ==
    \A t, u \in up :
        ProcOf[t] = ProcOf[u] /\ name[t] = name[u] /\ name[t].gen # 0 => t = u
EndedPassed == \A p \in Proc : \A n \in ended[p] : Abs(slot[p][n.slot]) >= n.gen
EndedNotRunning == \A t \in up : name[t] \notin ended[ProcOf[t]]

RegistryInv ==
    RunningAlive /\ RunningSlot /\ NamesApart /\ EndedPassed /\ EndedNotRunning

(* The lock: the file of a holder is there and names it, and no waiter is  *)
(* about to remove it.                                                     *)
IdsUsed ==
    /\ file.id <= locks
    /\ \A c \in Caller : mine[c] <= locks /\ want[c] <= locks
TokensApart == \A c, d \in Caller : mine[c] = mine[d] /\ mine[c] # 0 => c = d
Holds(c) ==
    /\ On[c] \in up
    /\ mine[c] # 0 /\ file.id = mine[c]
    /\ ~file.blank /\ ~file.released
    /\ file.on = On[c] /\ file.inc = inc[On[c]] /\ file.name = name[On[c]]
    /\ file.age <= held[c]
HoldersHold == \A c \in Caller : pc[c] = "holding" => Holds(c)
RemovalsSafe ==
    \A c, d \in Caller : pc[c] = "remove" /\ pc[d] = "holding" => mine[d] # want[c]

(* Nobody keeps the lock for longer than a living owner is left alone.     *)
Timely == MaxHold <= Stale * Multiplier

LockInv == IdsUsed /\ TokensApart /\ HoldersHold /\ RemovalsSafe

-----------------------------------------------------------------------------
LEMMA NoNameType == /\ NoName \in [slot : Slot, gen : {0}]
                    /\ NoName \notin Names
                    /\ NoFile.on \in Thread
BY ThreadAssumption DEF NoName, NoFile, Names, Thread

LEMMA NoFileType ==
    /\ NoFile \in [id : 0..MaxLocks, blank : BOOLEAN, released : BOOLEAN, on : Thread,
                 inc : 0..MaxStarts, name : Names \cup {NoName}, age : 0..MaxAge]
    /\ NoFile.id = 0 /\ ~NoFile.blank /\ ~NoFile.released
    /\ NoFile.age = 0 /\ NoFile.name = NoName /\ NoFile.inc = 0
<1>1. MaxAge \in Nat
  BY TimeAssumption DEF MaxAge
<1> QED
  BY <1>1, NoNameType, BoundAssumption DEF NoFile

-----------------------------------------------------------------------------
(* The steps of callers leave the registry alone.                          *)
CallerNext ==
    \E c \in Caller : begin(c) \/ Wait(c) \/ giveUp(c) \/ startRelease(c) \/ Release(c)

LEMMA CallersKeepRegistry ==
    ASSUME CallerNext \/ tick
    PROVE  UNCHANGED <<alive, up, slot, name, ended, inc, starts>>
BY DEF CallerNext, tick, begin, Wait, create, statLock, decide, removeLockIfOwner, giveUp,
       startRelease, Release, removeOwn, writeReleasedMarker, Forgotten, registry

-----------------------------------------------------------------------------
(* The registry is well typed, and its invariant, by the steps that change *)
(* it.                                                                     *)
RegistryType ==
    /\ alive \subseteq Proc
    /\ slot \in [Proc -> [Slot -> (-MaxGen)..MaxGen]]
    /\ up \subseteq Thread
    /\ name \in [Thread -> Names \cup {NoName}]
    /\ ended \in [Proc -> SUBSET Names]
    /\ inc \in [Thread -> 0..MaxStarts]
    /\ starts \in 0..MaxStarts

LEMMA RegistryInit == Init => RegistryType /\ RegistryInv
<1> SUFFICES ASSUME Init PROVE RegistryType /\ RegistryInv
  OBVIOUS
<1> USE ThreadAssumption, TimeAssumption, BoundAssumption, NoNameType
<1>1. RegistryType
  BY DEF Init, RegistryType, Thread
<1>2. \A t \in Thread : name[t].gen = 0
  BY DEF Init
<1>3. RunningAlive
  BY DEF Init, RunningAlive, Thread
<1>4. RunningSlot /\ NamesApart
  BY <1>1, <1>2 DEF RegistryType, RunningSlot, NamesApart
<1>5. EndedPassed /\ EndedNotRunning
  BY DEF Init, EndedPassed, EndedNotRunning, Thread
<1> QED
  BY <1>1, <1>3, <1>4, <1>5 DEF RegistryInv

(* What reserve gives: nothing, or the next generation of a slot that no   *)
(* running thread has.                                                     *)
Given(p, n) ==
    /\ n \in Names
    /\ slot[p][n.slot] <= 0
    /\ n.gen = -slot[p][n.slot] + 1
    /\ slot' = [slot EXCEPT ![p] = [@ EXCEPT ![n.slot] = n.gen]]

LEMMA ReserveGives ==
    ASSUME RegistryType, NEW p \in Proc, NEW n, Reserve(p, n)
    PROVE  (n = NoName /\ UNCHANGED slot) \/ Given(p, n)
<1>1. CASE \A s \in Slot : ~Reservable(p, s)
  BY <1>1 DEF Reserve
<1>2. CASE ~(\A s \in Slot : ~Reservable(p, s))
  <2>1. PICK s \in Slot :
           /\ Reservable(p, s)
           /\ n = [slot |-> s, gen |-> Abs(slot[p][s]) + 1]
           /\ slot' = [slot EXCEPT ![p][s] = n.gen]
    BY <1>2 DEF Reserve
  <2>2. slot[p][s] \in (-MaxGen)..MaxGen /\ MaxGen \in Nat
    BY TimeAssumption DEF RegistryType
  <2>3. Abs(slot[p][s]) = -slot[p][s] /\ slot[p][s] <= 0 /\ slot[p][s] # -MaxGen
    BY <2>1, <2>2 DEF Abs, Reservable
  <2>4. -slot[p][s] + 1 \in 1..MaxGen
    BY <2>2, <2>3
  <2>5. n = [slot |-> s, gen |-> -slot[p][s] + 1]
    BY <2>1, <2>3
  <2>6. n \in Names /\ n.slot = s /\ n.gen = -slot[p][s] + 1
    BY <2>4, <2>5 DEF Names
  <2> QED
    BY <2>1, <2>3, <2>6 DEF Given
<1> QED
  BY <1>1, <1>2

(* A slot at or below zero is nobody's.                                    *)
LEMMA FreeSlotUnnamed ==
    ASSUME RegistryType, RegistryInv, NEW p \in Proc, NEW n, Given(p, n),
           NEW u \in up, ProcOf[u] = p, name[u].gen # 0
    PROVE  name[u].slot # n.slot
<1>1. name[u] \in Names
  BY NoNameType DEF RegistryType
<1>2. slot[p][name[u].slot] = name[u].gen /\ name[u].gen >= 1
  BY <1>1 DEF RegistryInv, RunningSlot, Names
<1> QED
  BY <1>1, <1>2 DEF Given, Names

LEMMA StartKeepsRegistry ==
    ASSUME RegistryType, RegistryInv, NEW t \in Worker, Started(t)
    PROVE  (RegistryType /\ RegistryInv)'
<1> USE ThreadAssumption DEF Thread
<1>1. PICK n : startThread(t, n)
  BY DEF Started
<1> DEFINE p == ProcOf[t]
<1>2. p \in Proc /\ p \in alive /\ t \in Thread /\ t \notin up
  BY <1>1 DEF startThread
<1>3. (n = NoName /\ UNCHANGED slot) \/ Given(p, n)
  BY <1>1, <1>2, ReserveGives DEF startThread
<1>4. alive' = alive /\ starts' = starts + 1 /\ starts < MaxStarts
  BY <1>1 DEF startThread
<1>5. starts' \in 0..MaxStarts /\ starts + 1 \in 0..MaxStarts
  BY <1>4, BoundAssumption DEF RegistryType
<1>6. slot' \in [Proc -> [Slot -> (-MaxGen)..MaxGen]]
  <2>1. CASE Given(p, n)
    <3>1. n.slot \in Slot /\ n.gen \in (-MaxGen)..MaxGen
      BY <2>1, TimeAssumption DEF Given, Names
    <3> QED
      BY <2>1, <3>1, <1>2 DEF Given, RegistryType
  <2> QED
    BY <1>3, <2>1 DEF RegistryType
<1>7. n \in Names \cup {NoName}
  BY <1>3 DEF Given
<1>8. EndedPassed' \/ ended' # ended
  <2>1. SUFFICES ASSUME ended' = ended, NEW q \in Proc, NEW m \in ended[q]
                 PROVE  Abs(slot'[q][m.slot]) >= m.gen
    BY DEF EndedPassed
  <2>2. Abs(slot[q][m.slot]) >= m.gen /\ m.slot \in Slot /\ m.gen \in Nat
    BY DEF RegistryInv, EndedPassed, RegistryType, Names
  <2>3. CASE UNCHANGED slot
    BY <2>2, <2>3
  <2>4. CASE Given(p, n)
    <3>1. CASE q = p /\ m.slot = n.slot
      <4>1. slot'[q][m.slot] = n.gen /\ slot[q][m.slot] \in Int
        BY <2>4, <3>1, <1>2, <2>2 DEF Given, RegistryType
      <4> QED
        BY <4>1, <2>4, <2>2, <3>1 DEF Given, Abs, Names
    <3>2. CASE ~(q = p /\ m.slot = n.slot)
      <4>1. slot'[q][m.slot] = slot[q][m.slot]
        BY <2>4, <3>2, <1>2, <2>2 DEF Given, RegistryType
      <4> QED
        BY <4>1, <2>2
    <3> QED
      BY <3>1, <3>2
  <2> QED
    BY <1>3, <2>3, <2>4
<1>9. \A u \in up : name[u].gen # 0 => slot'[ProcOf[u]][name[u].slot] = name[u].gen
  <2>1. SUFFICES ASSUME NEW u \in up, name[u].gen # 0
                 PROVE  slot'[ProcOf[u]][name[u].slot] = name[u].gen
    OBVIOUS
  <2>2. slot[ProcOf[u]][name[u].slot] = name[u].gen
    BY <2>1 DEF RegistryInv, RunningSlot
  <2>3. CASE Given(p, n)
    <3>1. ProcOf[u] # p \/ name[u].slot # n.slot
      BY <2>1, <2>3, <1>2, FreeSlotUnnamed
    <3>2. ProcOf[u] \in Proc /\ name[u].slot \in Slot
      BY NoNameType DEF RegistryType, Names
    <3> QED
      BY <2>2, <2>3, <3>1, <3>2, <1>2 DEF Given, RegistryType, Names
  <2> QED
    BY <1>3, <2>2, <2>3
<1>10. \A q \in Proc : \A m \in ended[q] : ~(Given(p, n) /\ q = p /\ m = n)
  <2>1. SUFFICES ASSUME NEW m \in ended[p], Given(p, n), m = n PROVE FALSE
    OBVIOUS
  <2>2. Abs(slot[p][n.slot]) >= n.gen /\ slot[p][n.slot] \in Int
    BY <2>1, <1>2 DEF RegistryInv, EndedPassed, Given, RegistryType, Names
  <2> QED
    BY <2>1, <2>2 DEF Given, Abs
<1>11. CASE /\ up' = up \cup {t}
            /\ name' = [name EXCEPT ![t] = n]
            /\ inc' = [inc EXCEPT ![t] = starts + 1]
            /\ UNCHANGED ended
  <2>1. RegistryType'
    BY <1>11, <1>2, <1>4, <1>5, <1>6, <1>7 DEF RegistryType
  <2>2. name'[t] = n /\ \A u \in up : name'[u] = name[u]
    BY <1>11, <1>2 DEF RegistryType
  <2>3. RunningAlive'
    BY <1>11, <1>2, <1>4 DEF RunningAlive, RegistryInv
  <2>4. n.gen # 0 => Given(p, n)
    BY <1>3, NoNameType
  <2>5. n.gen # 0 => slot'[p][n.slot] = n.gen
    BY <2>4, <1>2 DEF Given, RegistryType, Names
  <2>6. RunningSlot'
    BY <1>9, <1>11, <2>2, <2>5 DEF RunningSlot
  <2>7. NamesApart'
    <3>1. SUFFICES ASSUME NEW u \in up, n.gen # 0, ProcOf[u] = p PROVE name[u] # n
      BY <1>11, <2>2 DEF NamesApart, RegistryInv
    <3> QED
      BY <3>1, <2>4, <1>2, FreeSlotUnnamed
  <2>8. EndedNotRunning'
    <3>1. n \notin ended[p]
      BY <1>3, <1>2, <1>10, NoNameType DEF RegistryType
    <3> QED
      BY <3>1, <1>11, <2>2 DEF EndedNotRunning, RegistryInv
  <2> QED
    BY <1>8, <1>11, <2>1, <2>3, <2>6, <2>7, <2>8 DEF RegistryInv
<1>12. CASE /\ n # NoName
            /\ ended' = [ended EXCEPT ![ProcOf[t]] = @ \cup {n}]
            /\ UNCHANGED <<up, name, inc>>
  <2>1. Given(p, n)
    BY <1>3, <1>12
  <2>2. n \in Names
    BY <2>1 DEF Given
  <2>3. RegistryType'
    BY <1>12, <1>2, <1>4, <1>5, <1>6, <2>2 DEF RegistryType
  <2>4. RunningAlive' /\ RunningSlot' /\ NamesApart'
    BY <1>9, <1>12, <1>4 DEF RunningAlive, RunningSlot, NamesApart, RegistryInv
  <2>5. EndedPassed'
    <3>1. SUFFICES ASSUME NEW q \in Proc, NEW m \in ended'[q]
                   PROVE  Abs(slot'[q][m.slot]) >= m.gen
      BY DEF EndedPassed
    <3>2. (q = p /\ m = n) \/ m \in ended[q]
      BY <3>1, <1>12, <1>2 DEF RegistryType
    <3>3. m.slot \in Slot /\ m.gen \in Nat
      BY <2>2, <3>2 DEF RegistryType, Names
    <3>4. CASE q = p /\ m.slot = n.slot
      <4>1. slot'[q][m.slot] = n.gen /\ slot[q][m.slot] \in Int
        BY <2>1, <3>3, <3>4, <1>2 DEF Given, RegistryType
      <4>2. m # n => Abs(slot[q][m.slot]) >= m.gen
        BY <3>2 DEF RegistryInv, EndedPassed
      <4> QED
        BY <4>1, <4>2, <2>1, <3>3, <3>4 DEF Given, Abs, Names
    <3>5. CASE ~(q = p /\ m.slot = n.slot)
      <4>1. slot'[q][m.slot] = slot[q][m.slot]
        BY <2>1, <3>3, <3>5, <1>2 DEF Given, RegistryType
      <4> QED
        BY <4>1, <3>2, <3>5 DEF RegistryInv, EndedPassed
    <3> QED
      BY <3>4, <3>5
  <2>6. EndedNotRunning'
    <3>1. \A u \in up : ProcOf[u] = p => name[u] # n
      BY <1>2, <2>1, <2>2, FreeSlotUnnamed, NoNameType DEF Names
    <3> QED
      BY <3>1, <1>12, <1>2 DEF EndedNotRunning, RegistryInv, RegistryType
  <2> QED
    BY <2>3, <2>4, <2>5, <2>6 DEF RegistryInv
<1> QED
  BY <1>1, <1>11, <1>12 DEF startThread

LEMMA EndKeepsRegistry ==
    ASSUME RegistryType, RegistryInv, NEW t \in Worker, endThread(t)
    PROVE  (RegistryType /\ RegistryInv)'
<1> USE ThreadAssumption DEF Thread
<1>1. /\ t \in up /\ up' = up \ {t}
      /\ ended' = [ended EXCEPT ![ProcOf[t]] = @ \cup ({name[t]} \ {NoName})]
      /\ name' = [name EXCEPT ![t] = NoName]
      /\ inc' = [inc EXCEPT ![t] = 0]
      /\ UNCHANGED <<alive, slot, starts>>
  BY DEF endThread
<1>2. RegistryType'
  BY <1>1, BoundAssumption DEF RegistryType
<1>3. \A u \in up' : u \in up /\ name'[u] = name[u]
  BY <1>1 DEF RegistryType
<1>4. RunningAlive' /\ RunningSlot' /\ NamesApart'
  BY <1>1, <1>3 DEF RegistryInv, RunningAlive, RunningSlot, NamesApart
<1>5. EndedPassed'
  <2>1. SUFFICES ASSUME NEW q \in Proc, NEW m \in ended'[q]
                 PROVE  Abs(slot[q][m.slot]) >= m.gen
    BY <1>1 DEF EndedPassed
  <2>2. CASE m \in ended[q]
    BY <2>2 DEF RegistryInv, EndedPassed
  <2>3. CASE m \notin ended[q]
    <3>1. q = ProcOf[t] /\ m = name[t] /\ m # NoName
      BY <1>1, <2>1, <2>3 DEF RegistryType
    <3>2. m \in Names /\ m.gen # 0
      BY <3>1, <1>1 DEF RegistryType, Names
    <3>3. slot[q][m.slot] = m.gen
      BY <1>1, <3>1, <3>2 DEF RegistryInv, RunningSlot
    <3> QED
      BY <3>2, <3>3 DEF Abs, Names
  <2> QED
    BY <2>2, <2>3
<1>6. EndedNotRunning'
  <2>1. SUFFICES ASSUME NEW u \in up, u # t, ProcOf[u] = ProcOf[t], name[u] = name[t],
                        name[t] # NoName
                 PROVE  FALSE
    BY <1>1, <1>3 DEF EndedNotRunning, RegistryInv, RegistryType
  <2>2. name[u].gen # 0
    BY <2>1 DEF RegistryType, Names
  <2> QED
    BY <1>1, <2>1, <2>2 DEF RegistryInv, NamesApart
<1> QED
  BY <1>2, <1>4, <1>5, <1>6 DEF RegistryInv

LEMMA RetireKeepsRegistry ==
    ASSUME RegistryType, RegistryInv, NEW p \in Proc, NEW n \in Names, retire(p, n)
    PROVE  (RegistryType /\ RegistryInv)'
<1> USE ThreadAssumption, TimeAssumption
<1>1. /\ n \in ended[p]
      /\ slot' = [slot EXCEPT ![p][n.slot] = RetiredSlot(p, n)]
      /\ UNCHANGED <<alive, up, name, ended, inc, starts>>
  BY DEF retire
<1>2. /\ slot[p][n.slot] \in (-MaxGen)..MaxGen
      /\ n.gen \in 1..MaxGen /\ n.slot \in Slot
  BY DEF RegistryType, Names
<1>3. RetiredSlot(p, n) \in (-MaxGen)..MaxGen /\ Abs(RetiredSlot(p, n)) = Abs(slot[p][n.slot])
  BY <1>2 DEF RetiredSlot, Abs
<1>4. RegistryType'
  BY <1>1, <1>2, <1>3 DEF RegistryType
<1>5. \A q \in Proc, s \in Slot : Abs(slot'[q][s]) = Abs(slot[q][s])
  BY <1>1, <1>2, <1>3 DEF RegistryType
<1>6. EndedPassed'
  BY <1>1, <1>5 DEF RegistryInv, EndedPassed, RegistryType, Names
<1>7. RunningSlot'
  <2>1. SUFFICES ASSUME NEW u \in up, name[u].gen # 0
                 PROVE  slot'[ProcOf[u]][name[u].slot] = name[u].gen
    BY <1>1 DEF RunningSlot
  <2>2. /\ ProcOf[u] \in Proc /\ name[u] \in Names
        /\ slot[ProcOf[u]][name[u].slot] = name[u].gen
    BY <2>1, NoNameType DEF RegistryType, RegistryInv, RunningSlot
  <2>3. CASE ProcOf[u] = p /\ name[u].slot = n.slot
    <3>1. name[u] # n
      BY <1>1, <2>3 DEF RegistryInv, EndedNotRunning
    <3>2. slot[p][n.slot] # n.gen
      BY <2>2, <2>3, <3>1 DEF Names
    <3> QED
      BY <1>1, <2>2, <2>3, <3>2 DEF RetiredSlot, RegistryType, Names
  <2>4. CASE ~(ProcOf[u] = p /\ name[u].slot = n.slot)
    BY <1>1, <2>2, <2>4 DEF RegistryType, Names
  <2> QED
    BY <2>3, <2>4
<1>8. RunningAlive' /\ NamesApart' /\ EndedNotRunning'
  BY <1>1 DEF RegistryInv, RunningAlive, NamesApart, EndedNotRunning
<1> QED
  BY <1>4, <1>6, <1>7, <1>8 DEF RegistryInv

LEMMA CrashKeepsRegistry ==
    ASSUME RegistryType, RegistryInv, NEW p \in Proc, crash(p)
    PROVE  (RegistryType /\ RegistryInv)'
BY DEF crash, registry, RegistryType, RegistryInv, RunningAlive, RunningSlot, NamesApart,
       EndedPassed, EndedNotRunning

LEMMA RegistryStep ==
    ASSUME RegistryType, RegistryInv, [Next]_vars
    PROVE  (RegistryType /\ RegistryInv)'
<1>1. CASE UNCHANGED <<alive, up, slot, name, ended, inc, starts>>
  BY <1>1 DEF RegistryType, RegistryInv, RunningAlive, RunningSlot, NamesApart,
              EndedPassed, EndedNotRunning
<1>2. CASE \E t \in Worker : Started(t) \/ endThread(t)
  BY <1>2, StartKeepsRegistry, EndKeepsRegistry
<1>3. CASE \E p \in Proc : Retired(p) \/ RetiredAgain(p) \/ crash(p)
  BY <1>3, RetireKeepsRegistry, CrashKeepsRegistry DEF Retired, RetiredAgain
<1>4. CASE CallerNext \/ tick
  BY <1>1, <1>4, CallersKeepRegistry
<1> QED
  BY <1>1, <1>2, <1>3, <1>4 DEF Next, vars, registry, CallerNext

(* A running thread's slot has its generation.                             *)
LEMMA RunningIsNotExited ==
    ASSUME RegistryType, RegistryInv PROVE RunningNotExited
<1>1. SUFFICES ASSUME NEW t \in up, name[t].gen > 0 PROVE ~HasExited(ProcOf[t], name[t])
  BY DEF RunningNotExited, HasExited
<1>2. name[t] \in Names
  BY <1>1, NoNameType DEF RegistryType
<1>3. slot[ProcOf[t]][name[t].slot] = name[t].gen /\ name[t].gen \in 1..MaxGen
  BY <1>1, <1>2 DEF RegistryInv, RunningSlot, Names
<1> QED
  BY <1>3, TimeAssumption DEF HasExited, Abs

(* THEOREM. The registry never says of a running thread that it has        *)
(* exited: retire, hasExited and reserve agree about every slot, whatever  *)
(* threads had it before.                                                  *)
THEOREM ThreadNotTakenForExited == Spec => []RunningNotExited
<1>1. Init => RegistryType /\ RegistryInv
  BY RegistryInit
<1>2. (RegistryType /\ RegistryInv) /\ [Next]_vars => (RegistryType /\ RegistryInv)'
  BY RegistryStep
<1>3. RegistryType /\ RegistryInv => RunningNotExited
  BY RunningIsNotExited
<1> QED
  BY <1>1, <1>2, <1>3, PTL DEF Spec

-----------------------------------------------------------------------------
(* The lock file and its callers are well typed.                           *)
FileRecord ==
    [id : 0..MaxLocks, blank : BOOLEAN, released : BOOLEAN, on : Thread,
     inc : 0..MaxStarts, name : Names \cup {NoName}, age : 0..MaxAge]
LockType ==
    /\ file \in FileRecord
    /\ pc \in [Caller -> {"idle", "try", "inspect", "remove", "holding", "releasing"}]
    /\ mine \in [Caller -> 0..MaxLocks]
    /\ seen \in [Caller -> (0..MaxLocks) \X BOOLEAN \X BOOLEAN]
    /\ want \in [Caller -> 0..MaxLocks]
    /\ held \in [Caller -> 0..MaxHold]
    /\ locks \in 0..MaxLocks
    /\ busy \in 0..MaxBusy

LEMMA StatType ==
    /\ \A f \in FileRecord : Stat(f) \in (0..MaxLocks) \X BOOLEAN \X BOOLEAN
    /\ NoFile \in FileRecord
BY NoFileType DEF Stat, FileRecord

LEMMA MaxAgeType == MaxAge \in Nat /\ MaxHold \in Nat /\ Stale * Multiplier \in Nat
BY TimeAssumption DEF MaxAge

LEMMA LockInit == Init => LockType /\ LockInv
<1> USE NoFileType, StatType, BoundAssumption, MaxAgeType
<1>1. Init => LockType
  BY DEF Init, LockType
<1>2. Init => LockInv
  BY DEF Init, LockInv, IdsUsed, TokensApart, HoldersHold, RemovalsSafe
<1> QED
  BY <1>1, <1>2

(* A thread that ends, or a process that dies, takes its callers with it.  *)
FileMayBeLeft ==
    \/ UNCHANGED <<file, locks>>
    \/ /\ file.id = 0 /\ locks < MaxLocks /\ locks' = locks + 1
       /\ file' = [NoFile EXCEPT !.id = locks + 1, !.blank = TRUE]
CallersGo(G) ==
    /\ pc' = [c \in Caller |-> IF c \in G THEN "idle" ELSE pc[c]]
    /\ mine' = [c \in Caller |-> IF c \in G THEN 0 ELSE mine[c]]
    /\ held' = [c \in Caller |-> IF c \in G THEN 0 ELSE held[c]]
    /\ seen' = [c \in Caller |-> IF c \in G THEN Stat(NoFile) ELSE seen[c]]
    /\ want' = [c \in Caller |-> IF c \in G THEN 0 ELSE want[c]]

LEMMA EndTakesCallers ==
    ASSUME NEW t \in Worker, endThread(t)
    PROVE  FileMayBeLeft /\ CallersGo({c \in Caller : On[c] = t}) /\ UNCHANGED busy
<1>1. FileLeft({t}) /\ Gone({t})
  BY DEF endThread
<1>2. FileMayBeLeft
  BY <1>1 DEF FileLeft, FileMayBeLeft
<1>3. CallersGo({c \in Caller : On[c] = t})
  BY <1>1 DEF Gone, CallersGo
<1> QED
  BY <1>2, <1>3 DEF endThread

LEMMA CrashTakesCallers ==
    ASSUME NEW p \in Proc, crash(p)
    PROVE  FileMayBeLeft /\ CallersGo({c \in Caller : ProcOf[On[c]] = p}) /\ UNCHANGED busy
<1>1. FileLeft({t \in up : ProcOf[t] = p}) /\ Gone({t \in Thread : ProcOf[t] = p})
  BY DEF crash
<1>2. FileMayBeLeft
  BY <1>1 DEF FileLeft, FileMayBeLeft
<1>3. CallersGo({c \in Caller : ProcOf[On[c]] = p})
  BY <1>1, ThreadAssumption DEF Gone, CallersGo
<1> QED
  BY <1>2, <1>3 DEF crash

LEMMA CallersGoType ==
    ASSUME LockType, NEW G \in SUBSET Caller, FileMayBeLeft, CallersGo(G), UNCHANGED busy
    PROVE  LockType'
<1> USE NoFileType, StatType, BoundAssumption, MaxAgeType
<1>1. file' \in FileRecord /\ locks' \in 0..MaxLocks
  <2>1. CASE UNCHANGED <<file, locks>>
    BY <2>1 DEF LockType
  <2>2. CASE /\ locks < MaxLocks /\ locks' = locks + 1
             /\ file' = [NoFile EXCEPT !.id = locks + 1, !.blank = TRUE]
    <3>1. file' = [id |-> locks + 1, blank |-> TRUE, released |-> FALSE, on |-> NoFile.on,
                   inc |-> 0, name |-> NoName, age |-> 0]
      BY <2>2 DEF NoFile
    <3>2. locks + 1 \in 0..MaxLocks /\ 0 \in 0..MaxStarts /\ 0 \in 0..MaxAge
      BY <2>2 DEF LockType
    <3> QED
      BY <2>2, <3>1, <3>2, NoNameType DEF FileRecord
  <2> QED
    BY <2>1, <2>2 DEF FileMayBeLeft
<1>2. /\ pc' \in [Caller -> {"idle", "try", "inspect", "remove", "holding", "releasing"}]
      /\ mine' \in [Caller -> 0..MaxLocks]
      /\ want' \in [Caller -> 0..MaxLocks]
      /\ held' \in [Caller -> 0..MaxHold]
  BY DEF CallersGo, LockType
<1>3. seen' \in [Caller -> (0..MaxLocks) \X BOOLEAN \X BOOLEAN]
  BY DEF CallersGo, LockType
<1> QED
  BY <1>1, <1>2, <1>3 DEF LockType

LEMMA LockTypeStep ==
    ASSUME LockType, RegistryType, [Next]_vars
    PROVE  LockType'
<1> USE NoFileType, StatType, BoundAssumption, MaxAgeType, ThreadAssumption
<1>1. CASE UNCHANGED <<file, pc, mine, seen, want, held, locks, busy>>
  BY <1>1 DEF LockType
<1>2. CASE tick
  <2>1. file' \in FileRecord
    BY <1>2 DEF tick, LockType, FileRecord
  <2>2. held' \in [Caller -> 0..MaxHold]
    BY <1>2 DEF tick, LockType
  <2> QED
    BY <1>2, <2>1, <2>2 DEF tick, LockType
<1>3. ASSUME NEW t \in Worker, endThread(t) PROVE LockType'
  BY <1>3, EndTakesCallers, CallersGoType
<1>4. ASSUME NEW p \in Proc, crash(p) PROVE LockType'
  <2>1. {c \in Caller : ProcOf[On[c]] = p} \in SUBSET Caller
    OBVIOUS
  <2> QED
    BY <1>4, <2>1, CrashTakesCallers, CallersGoType
<1>5. ASSUME NEW c \in Caller, begin(c) \/ giveUp(c) \/ startRelease(c) PROVE LockType'
  <2>1. UNCHANGED <<file, mine, seen, want, locks, busy>>
    BY <1>5 DEF begin, giveUp, startRelease
  <2>2. held' = held \/ held' = [held EXCEPT ![c] = 0]
    BY <1>5 DEF begin, giveUp, startRelease
  <2>3. \E to \in {"idle", "try", "releasing"} : pc' = [pc EXCEPT ![c] = to]
    BY <1>5 DEF begin, giveUp, startRelease, Step
  <2>4. pc' \in [Caller -> {"idle", "try", "inspect", "remove", "holding", "releasing"}]
    BY <2>3 DEF LockType
  <2>5. held' \in [Caller -> 0..MaxHold]
    BY <2>2 DEF LockType
  <2> QED
    BY <2>1, <2>4, <2>5 DEF LockType
<1>6. ASSUME NEW c \in Caller, create(c) PROVE LockType'
  <2>1. file' \in FileRecord
    BY <1>6 DEF create, LockType, FileRecord, RegistryType
  <2> QED
    BY <1>6, <2>1 DEF create, Step, LockType
<1>7. ASSUME NEW c \in Caller, statLock(c) PROVE LockType'
  BY <1>7 DEF statLock, Step, LockType
<1>8. ASSUME NEW c \in Caller, decide(c) PROVE LockType'
  <2>1. PICK reclaim : /\ pc' = [pc EXCEPT ![c] = IF reclaim THEN "remove" ELSE "try"]
                       /\ want' = [want EXCEPT ![c] = IF reclaim THEN file.id ELSE 0]
                       /\ seen' = [seen EXCEPT ![c] = IF reclaim THEN @ ELSE Stat(NoFile)]
    BY <1>8 DEF decide
  <2>2. UNCHANGED <<file, mine, held, locks, busy>>
    BY <1>8 DEF decide
  <2>3. file.id \in 0..MaxLocks
    BY DEF LockType, FileRecord
  <2>4. CASE reclaim
    BY <2>1, <2>2, <2>3, <2>4 DEF LockType
  <2>5. CASE ~reclaim
    BY <2>1, <2>2, <2>3, <2>5 DEF LockType
  <2> QED
    BY <2>4, <2>5
<1>9. ASSUME NEW c \in Caller, removeLockIfOwner(c) PROVE LockType'
  BY <1>9 DEF removeLockIfOwner, Step, LockType
<1>10. ASSUME NEW c \in Caller, removeOwn(c) PROVE LockType'
  BY <1>10 DEF removeOwn, Forgotten, Step, LockType
<1>11. ASSUME NEW c \in Caller, writeReleasedMarker(c) PROVE LockType'
  <2>1. file' \in FileRecord
    <3>1. file \in FileRecord
      BY DEF LockType
    <3>2. [file EXCEPT !.released = TRUE] \in FileRecord
      BY <3>1 DEF FileRecord
    <3> QED
      BY <1>11, <3>1, <3>2 DEF writeReleasedMarker
  <2>2. busy' \in 0..MaxBusy
    BY <1>11 DEF writeReleasedMarker, LockType
  <2> QED
    BY <1>11, <2>1, <2>2 DEF writeReleasedMarker, Forgotten, Step, LockType
<1>12. ASSUME NEW t \in Worker, Started(t) PROVE LockType'
  BY <1>1, <1>12 DEF Started, startThread, caller
<1>13. ASSUME NEW p \in Proc, Retired(p) \/ RetiredAgain(p) PROVE LockType'
  BY <1>1, <1>13 DEF Retired, RetiredAgain, retire, caller
<1> QED
  BY <1>1, <1>2, <1>3, <1>4, <1>5, <1>6, <1>7, <1>8, <1>9, <1>10, <1>11, <1>12, <1>13
  DEF Next, vars, caller, Wait, Release

LEMMA TypeParts == TypeOK <=> RegistryType /\ LockType
BY DEF TypeOK, RegistryType, LockType, FileRecord

(* THEOREM. Types; in particular the generations of ThreadLifetimeRegistry *)
(* stay within 32 bits, because a slot is retired for good at the last.    *)
THEOREM TypeCorrect == Spec => []TypeOK
<1>1. Init => RegistryType /\ RegistryInv /\ LockType
  BY RegistryInit, LockInit
<1>2. (RegistryType /\ RegistryInv /\ LockType) /\ [Next]_vars
      => (RegistryType /\ RegistryInv /\ LockType)'
  BY RegistryStep, LockTypeStep
<1>3. RegistryType /\ LockType => TypeOK
  BY TypeParts
<1> QED
  BY <1>1, <1>2, <1>3, PTL DEF Spec

-----------------------------------------------------------------------------
(* The lock invariant, by the steps that change the file or a caller.      *)

(* A file that a waiter may reclaim has no holder: its owner would run,    *)
(* be in the registry, have its token active and be young enough.          *)
LEMMA ReclaimableHasNoHolder ==
    ASSUME Timely, RegistryType, RegistryInv, LockType, LockInv,
           NEW t \in Thread, Reclaimable(t), ~file.blank,
           NEW d \in Caller, pc[d] = "holding"
    PROVE  FALSE
<1>1. Holds(d)
  BY DEF LockInv, HoldersHold
<1>2. file.on = On[d] /\ On[d] \in up /\ ProcOf[file.on] \in alive
  BY <1>1 DEF Holds, RegistryInv, RunningAlive
<1>3. ~HasExited(ProcOf[file.on], file.name)
  BY <1>1, <1>2, RunningIsNotExited DEF Holds, RunningNotExited
<1>4. Active(file.id)
  BY <1>1 DEF Holds, Active
<1>5. ~(file.age > Stale * Multiplier)
  <2>1. file.age \in Nat /\ held[d] \in 0..MaxHold /\ file.age <= held[d]
    BY <1>1 DEF Holds, LockType, FileRecord
  <2> QED
    BY <2>1, MaxAgeType DEF Timely
<1> QED
  BY <1>1, <1>2, <1>3, <1>4, <1>5 DEF Reclaimable, Holds

LEMMA TickKeepsLock ==
    ASSUME LockType, LockInv, tick PROVE LockInv'
<1> USE MaxAgeType
<1>1. /\ UNCHANGED <<up, name, inc, pc, mine, want, locks>>
      /\ held' = [c \in Caller |-> IF pc[c] = "holding" THEN held[c] + 1 ELSE held[c]]
      /\ file' = [file EXCEPT !.age = IF file.id # 0 /\ @ < MaxAge THEN @ + 1 ELSE @]
  BY DEF tick, registry
<1>2. /\ file'.id = file.id /\ file'.blank = file.blank /\ file'.released = file.released
      /\ file'.on = file.on /\ file'.inc = file.inc /\ file'.name = file.name
      /\ file'.age <= file.age + 1
  BY <1>1 DEF LockType, FileRecord
<1>3. HoldersHold'
  <2>1. SUFFICES ASSUME NEW c \in Caller, pc[c] = "holding" PROVE Holds(c)'
    BY <1>1 DEF HoldersHold
  <2>2. Holds(c)
    BY <2>1 DEF LockInv, HoldersHold
  <2>3. file'.age <= held'[c]
    <3>1. /\ file.age \in Nat /\ file'.age \in Int /\ held[c] \in Nat
          /\ held'[c] = held[c] + 1
      BY <1>1, <2>1 DEF LockType, FileRecord
    <3> QED
      BY <1>2, <2>2, <3>1 DEF Holds
  <2> QED
    BY <1>1, <1>2, <2>2, <2>3 DEF Holds
<1>4. IdsUsed' /\ TokensApart' /\ RemovalsSafe'
  BY <1>1, <1>2 DEF LockInv, IdsUsed, TokensApart, RemovalsSafe
<1> QED
  BY <1>3, <1>4 DEF LockInv

(* The registry changes, but not for a running thread.                     *)
LEMMA RegistryKeepsLock ==
    ASSUME LockInv, UNCHANGED <<file, caller, locks>>,
           \A t \in up : t \in up' /\ name'[t] = name[t] /\ inc'[t] = inc[t]
    PROVE  LockInv'
BY DEF LockInv, IdsUsed, TokensApart, HoldersHold, Holds, RemovalsSafe, caller

(* Threads end, with their callers.                                        *)
LEMMA CallersGoKeepLock ==
    ASSUME LockType, LockInv, NEW G \in SUBSET Caller, FileMayBeLeft, CallersGo(G),
           \A c \in Caller \ G : On[c] \in up =>
               /\ On[c] \in up'
               /\ name'[On[c]] = name[On[c]] /\ inc'[On[c]] = inc[On[c]]
    PROVE  LockInv'
<1>1. \A c \in Caller : pc'[c] = "holding" =>
          /\ c \notin G /\ pc[c] = "holding" /\ Holds(c) /\ mine'[c] = mine[c] /\ held'[c] = held[c]
  BY DEF CallersGo, LockInv, HoldersHold
<1>2. (\E c \in Caller : pc'[c] = "holding") => UNCHANGED <<file, locks>>
  BY <1>1 DEF FileMayBeLeft, Holds
<1>3. HoldersHold'
  BY <1>1, <1>2 DEF HoldersHold, Holds
<1>4. IdsUsed'
  <2>1. locks \in Nat /\ locks' \in {locks, locks + 1}
    BY DEF FileMayBeLeft, LockType
  <2>2. file'.id <= locks'
    <3>1. CASE UNCHANGED <<file, locks>>
      BY <3>1 DEF LockInv, IdsUsed
    <3>2. CASE locks' = locks + 1 /\ file' = [NoFile EXCEPT !.id = locks + 1, !.blank = TRUE]
      <4>1. file'.id = locks + 1
        BY <3>2 DEF NoFile
      <4> QED
        BY <2>1, <3>2, <4>1
    <3> QED
      BY <3>1, <3>2 DEF FileMayBeLeft
  <2>3. \A c \in Caller : /\ mine[c] \in Nat /\ want[c] \in Nat
                         /\ mine'[c] \in {0, mine[c]} /\ want'[c] \in {0, want[c]}
    BY DEF CallersGo, LockType
  <2>4. \A c \in Caller : mine[c] <= locks /\ want[c] <= locks
    BY DEF LockInv, IdsUsed
  <2>5. \A c \in Caller : mine'[c] <= locks' /\ want'[c] <= locks'
    BY <2>1, <2>3, <2>4
  <2> QED
    BY <2>2, <2>5 DEF IdsUsed
<1>5. TokensApart'
  BY DEF CallersGo, LockInv, TokensApart
<1>6. RemovalsSafe'
  <2>1. \A c \in Caller : pc'[c] = "remove" => pc[c] = "remove" /\ want'[c] = want[c]
    BY DEF CallersGo
  <2> QED
    BY <1>1, <2>1 DEF LockInv, RemovalsSafe
<1> QED
  BY <1>3, <1>4, <1>5, <1>6 DEF LockInv

LEMMA CreateKeepsLock ==
    ASSUME LockType, LockInv, NEW c \in Caller, create(c) PROVE LockInv'
<1>1. /\ On[c] \in up /\ pc' = [pc EXCEPT ![c] = "holding"]
      /\ file.id = 0 /\ locks' = locks + 1
      /\ file' = [id |-> locks + 1, blank |-> FALSE, released |-> FALSE, on |-> On[c],
                  inc |-> inc[On[c]], name |-> name[On[c]], age |-> 0]
      /\ mine' = [mine EXCEPT ![c] = locks + 1]
      /\ held' = [held EXCEPT ![c] = 0]
      /\ UNCHANGED <<up, name, inc, want>>
  BY DEF create, Step, Runs, registry
<1>2. \A d \in Caller : pc[d] # "holding"
  BY <1>1 DEF LockInv, HoldersHold, Holds
<1>3. \A d \in Caller : pc'[d] = "holding" => d = c
  BY <1>1, <1>2 DEF LockType
<1>4. locks \in Nat /\ mine'[c] = locks + 1 /\ held'[c] = 0
  BY <1>1 DEF LockType
<1>5. HoldersHold'
  BY <1>1, <1>3, <1>4 DEF HoldersHold, Holds
<1>6. ASSUME NEW d \in Caller
      PROVE  /\ mine[d] \in Nat /\ want[d] \in Nat
             /\ mine[d] < locks + 1 /\ want[d] < locks + 1
             /\ mine'[d] = IF d = c THEN locks + 1 ELSE mine[d]
  <2>1. mine[d] \in 0..MaxLocks /\ want[d] \in 0..MaxLocks
    BY DEF LockType
  <2>2. mine[d] <= locks /\ want[d] <= locks
    BY DEF LockInv, IdsUsed
  <2>3. mine'[d] = IF d = c THEN locks + 1 ELSE mine[d]
    BY <1>1 DEF LockType
  <2> QED
    BY <1>4, <2>1, <2>2, <2>3
<1>7. IdsUsed'
  <2>1. file'.id <= locks'
    BY <1>1, <1>4
  <2>2. ASSUME NEW d \in Caller PROVE mine'[d] <= locks' /\ want'[d] <= locks'
    BY <1>1, <1>4, <1>6
  <2> QED
    BY <2>1, <2>2 DEF IdsUsed
<1>8. TokensApart'
  <2>1. ASSUME NEW d \in Caller, NEW e \in Caller, mine'[d] = mine'[e], mine'[d] # 0
        PROVE  d = e
    BY <1>4, <1>6, <2>1 DEF TokensApart, LockInv
  <2> QED
    BY <2>1 DEF TokensApart
<1>9. RemovalsSafe'
  <2>1. ASSUME NEW e \in Caller PROVE mine'[c] # want'[e]
    BY <1>1, <1>4, <1>6
  <2> QED
    BY <1>3, <2>1 DEF RemovalsSafe
<1> QED
  BY <1>5, <1>7, <1>8, <1>9 DEF LockInv

(* A caller moves on without touching the file or its token.               *)
LEMMA MoveKeepsLock ==
    ASSUME LockType, LockInv, NEW c \in Caller,
           UNCHANGED <<up, name, inc, file, mine, locks>>,
           NEW to \in {"idle", "try", "inspect", "releasing"},
           pc' = [pc EXCEPT ![c] = to],
           \A d \in Caller : want'[d] \in {0, want[d]},
           \A d \in Caller : d # c => want'[d] = want[d] /\ held'[d] = held[d]
    PROVE  LockInv'
<1>1. \A d \in Caller : pc'[d] \in {"holding", "remove"} => d # c /\ pc'[d] = pc[d]
  BY DEF LockType
<1>2. HoldersHold' /\ RemovalsSafe'
  BY <1>1 DEF LockInv, HoldersHold, Holds, RemovalsSafe
<1>3. IdsUsed'
  BY DEF LockInv, IdsUsed, LockType
<1> QED
  BY <1>2, <1>3 DEF LockInv, TokensApart

LEMMA DecideKeepsLock ==
    ASSUME Timely, RegistryType, RegistryInv, LockType, LockInv, NEW c \in Caller, decide(c)
    PROVE  LockInv'
<1> DEFINE R == IF file.id = 0 THEN FALSE
                ELSE IF file.blank THEN seen[c] = Stat(file) /\ file.age > Stale
                ELSE Reclaimable(On[c])
<1>1. /\ pc' = [pc EXCEPT ![c] = IF R THEN "remove" ELSE "try"]
      /\ want' = [want EXCEPT ![c] = IF R THEN file.id ELSE 0]
      /\ UNCHANGED <<up, name, inc, file, mine, held, locks>>
  BY DEF decide, registry
<1>2. CASE ~R
  <2> HIDE DEF R
  <2>1. pc' = [pc EXCEPT ![c] = "try"] /\ want' = [want EXCEPT ![c] = 0]
    BY <1>1, <1>2
  <2>2. \A d \in Caller : want'[d] \in {0, want[d]} /\ (d # c => want'[d] = want[d])
    BY <2>1 DEF LockType
  <2> QED
    BY <1>1, <2>1, <2>2, MoveKeepsLock
<1>3. CASE R
  <2>1. \A d \in Caller : pc[d] # "holding"
    <3>1. SUFFICES ASSUME NEW d \in Caller, pc[d] = "holding" PROVE FALSE
      OBVIOUS
    <3>2. ~file.blank
      BY <3>1 DEF LockInv, HoldersHold, Holds
    <3>3. Reclaimable(On[c]) /\ On[c] \in Thread
      BY <1>3, <3>2, ThreadAssumption
    <3> QED
      BY <3>1, <3>2, <3>3, ReclaimableHasNoHolder
  <2> HIDE DEF R
  <2>2. pc' = [pc EXCEPT ![c] = "remove"] /\ want' = [want EXCEPT ![c] = file.id]
    BY <1>1, <1>3
  <2>3. \A d \in Caller : pc'[d] # "holding"
    BY <2>1, <2>2 DEF LockType
  <2>4. IdsUsed'
    BY <1>1, <2>2 DEF LockInv, IdsUsed, LockType
  <2> QED
    BY <1>1, <2>3, <2>4 DEF LockInv, TokensApart, HoldersHold, RemovalsSafe
<1> QED
  BY <1>2, <1>3

(* A file that goes, or is marked, is not a holder's.                      *)
LEMMA FileStepKeepsLock ==
    ASSUME LockType, LockInv, NEW c \in Caller,
           UNCHANGED <<up, name, inc, held, locks>>,
           NEW to \in {"idle", "try"}, pc' = [pc EXCEPT ![c] = to],
           \A d \in Caller : want'[d] \in {0, want[d]} /\ (d # c => want'[d] = want[d]),
           \A d \in Caller : mine'[d] \in {0, mine[d]} /\ (d # c => mine'[d] = mine[d]),
           file'.id \in {0, file.id},
           \A d \in Caller \ {c} : pc[d] = "holding" => file' = file
    PROVE  LockInv'
<1>1. \A d \in Caller : pc'[d] \in {"holding", "remove"} => d # c /\ pc'[d] = pc[d]
  BY DEF LockType
<1>2. HoldersHold'
  BY <1>1 DEF LockInv, HoldersHold, Holds
<1>3. RemovalsSafe'
  BY <1>1 DEF LockInv, RemovalsSafe
<1>4. IdsUsed'
  <2>1. file'.id <= locks'
    BY DEF LockInv, IdsUsed, LockType, FileRecord
  <2>2. \A d \in Caller : mine'[d] <= locks' /\ want'[d] <= locks'
    BY DEF LockInv, IdsUsed, LockType
  <2> QED
    BY <2>1, <2>2 DEF IdsUsed
<1>5. TokensApart'
  BY DEF LockInv, TokensApart
<1> QED
  BY <1>2, <1>3, <1>4, <1>5 DEF LockInv

LEMMA RemoveKeepsLock ==
    ASSUME LockType, LockInv, NEW c \in Caller, removeLockIfOwner(c) PROVE LockInv'
<1>1. /\ pc[c] = "remove" /\ pc' = [pc EXCEPT ![c] = "try"]
      /\ want' = [want EXCEPT ![c] = 0]
      /\ UNCHANGED <<up, name, inc, mine, held, locks>>
      /\ file' = file \/ (file' = NoFile /\ file.id = want[c])
  BY DEF removeLockIfOwner, Step, Removable, registry
<1>2. \A d \in Caller : pc[d] = "holding" => file.id # want[c]
  BY <1>1 DEF LockInv, RemovalsSafe, HoldersHold, Holds
<1>3. \A d \in Caller : want'[d] \in {0, want[d]} /\ (d # c => want'[d] = want[d])
  BY <1>1 DEF LockType
<1>4. file'.id \in {0, file.id}
  BY <1>1, NoFileType
<1> QED
  BY <1>1, <1>2, <1>3, <1>4, FileStepKeepsLock

LEMMA ReleaseKeepsLock ==
    ASSUME LockType, LockInv, NEW c \in Caller, Release(c) PROVE LockInv'
<1>1. /\ pc[c] = "releasing" /\ pc' = [pc EXCEPT ![c] = "idle"]
      /\ mine' = [mine EXCEPT ![c] = 0]
      /\ UNCHANGED <<up, name, inc, want, held, locks>>
  BY DEF Release, removeOwn, writeReleasedMarker, Forgotten, Step, registry
<1>2. \/ file' = file
      \/ file.id = mine[c] /\ (file' = NoFile \/ file' = [file EXCEPT !.released = TRUE])
  BY DEF Release, removeOwn, writeReleasedMarker
<1>3. \A d \in Caller : mine'[d] \in {0, mine[d]} /\ (d # c => mine'[d] = mine[d])
  BY <1>1 DEF LockType
<1>4. file'.id \in {0, file.id}
  BY <1>2, NoFileType DEF LockType, FileRecord
<1>5. \A d \in Caller \ {c} : pc[d] = "holding" => file' = file
  BY <1>2 DEF LockInv, HoldersHold, Holds, TokensApart
<1> QED
  BY <1>1, <1>3, <1>4, <1>5, FileStepKeepsLock

LEMMA LockStep ==
    ASSUME Timely, RegistryType, RegistryInv, LockType, LockInv, [Next]_vars
    PROVE  LockInv'
<1> USE ThreadAssumption DEF Thread
<1>1. CASE UNCHANGED vars
  BY <1>1, RegistryKeepsLock DEF vars, caller, registry
<1>2. CASE tick
  BY <1>2, TickKeepsLock
<1>3. ASSUME NEW t \in Worker, Started(t) PROVE LockInv'
  BY <1>3, RegistryKeepsLock DEF Started, startThread, caller, RegistryType
<1>4. ASSUME NEW t \in Worker, endThread(t) PROVE LockInv'
  <2>1. /\ up' = up \ {t} /\ name' = [name EXCEPT ![t] = NoName]
        /\ inc' = [inc EXCEPT ![t] = 0]
    BY <1>4 DEF endThread
  <2>2. {c \in Caller : On[c] = t} \in SUBSET Caller
    OBVIOUS
  <2>3. \A c \in Caller \ {d \in Caller : On[d] = t} : On[c] \in up =>
            /\ On[c] \in up'
            /\ name'[On[c]] = name[On[c]] /\ inc'[On[c]] = inc[On[c]]
    BY <2>1 DEF RegistryType
  <2> QED
    BY <1>4, <2>2, <2>3, EndTakesCallers, CallersGoKeepLock
<1>5. ASSUME NEW p \in Proc, Retired(p) \/ RetiredAgain(p) PROVE LockInv'
  BY <1>5, RegistryKeepsLock DEF Retired, RetiredAgain, retire, caller
<1>6. ASSUME NEW p \in Proc, crash(p) PROVE LockInv'
  <2>1. up' = {t \in up : ProcOf[t] # p} /\ UNCHANGED <<name, inc>>
    BY <1>6 DEF crash, registry
  <2>2. {c \in Caller : ProcOf[On[c]] = p} \in SUBSET Caller
    OBVIOUS
  <2>3. \A c \in Caller \ {d \in Caller : ProcOf[On[d]] = p} : On[c] \in up =>
            /\ On[c] \in up'
            /\ name'[On[c]] = name[On[c]] /\ inc'[On[c]] = inc[On[c]]
    BY <2>1
  <2> QED
    BY <1>6, <2>2, <2>3, CrashTakesCallers, CallersGoKeepLock
<1>7. ASSUME NEW c \in Caller, begin(c) \/ giveUp(c) \/ statLock(c) \/ startRelease(c)
      PROVE  LockInv'
  <2>1. UNCHANGED <<up, name, inc, file, mine, want, locks>>
    BY <1>7 DEF begin, giveUp, statLock, startRelease, registry
  <2>2. PICK to \in {"idle", "try", "inspect", "releasing"} : pc' = [pc EXCEPT ![c] = to]
    BY <1>7 DEF begin, giveUp, statLock, startRelease, Step
  <2>3. \A d \in Caller : d # c => held'[d] = held[d]
    BY <1>7 DEF begin, giveUp, statLock, startRelease, LockType
  <2> QED
    BY <2>1, <2>2, <2>3, MoveKeepsLock
<1> QED
  BY <1>1, <1>2, <1>3, <1>4, <1>5, <1>6, <1>7, CreateKeepsLock, DecideKeepsLock,
     RemoveKeepsLock, ReleaseKeepsLock
  DEF Next, Wait

(* THEOREM. The worktree lock has at most one holder, over all threads and *)
(* processes, crashes, interrupted creations, failed releases and reclaims *)
(* decided on old readings (acquireWorktreeLock, removeLockIfOwner), as    *)
(* long as nobody holds it for longer than a living owner is left alone.   *)
THEOREM HoldersStayApart ==
    ASSUME Timely
    PROVE  Spec => []HoldersApart
<1>1. Init => RegistryType /\ RegistryInv /\ LockType /\ LockInv
  BY RegistryInit, LockInit
<1>2. (RegistryType /\ RegistryInv /\ LockType /\ LockInv) /\ [Next]_vars
      => (RegistryType /\ RegistryInv /\ LockType /\ LockInv)'
  BY RegistryStep, LockTypeStep, LockStep
<1>3. LockInv => HoldersApart
  BY DEF LockInv, HoldersHold, Holds, TokensApart, HoldersApart
<1> QED
  BY <1>1, <1>2, <1>3, PTL DEF Spec

-----------------------------------------------------------------------------
(***************************************************************************)
(* The lock file works between processes; inside one event loop the gates  *)
(* of shared/concurrency do.  AssetGate is the reader/writer gate, for     *)
(* every policy, priority and aging.                                       *)
(***************************************************************************)
(* Queues: In and Once, and what inserting, cutting out and taking from    *)
(* the head do to them.                                                    *)

In(q, t) == \E k \in 1..Len(q) : q[k] = t
Once(q) == \A k, m \in 1..Len(q) : q[k] = q[m] => k = m

LEMMA LeastNatural ==
  ASSUME NEW T \in SUBSET Nat, T # {}
  PROVE  \E n \in T : \A m \in T : ~(m < n)
<1>. DEFINE R == OpToRel(<, Nat)
<1>1. IsWellFoundedOn(R, Nat)
  BY NatLessThanWellFounded
<1>2. \A m, n \in Nat : m < n => <<m, n>> \in R
  BY DEF OpToRel
<1>. HIDE DEF R
<1>3. PICK n \in T : \A m \in T : ~(<<m, n>> \in R)
  BY <1>1, WFMin
<1>4. ASSUME NEW m \in T PROVE ~(m < n)
  <2>1. m \in Nat /\ n \in Nat /\ ~(<<m, n>> \in R)
    BY <1>3
  <2>. QED
    BY <2>1, <1>2
<1>. QED
  BY <1>4

LEMMA Inserted ==
  ASSUME NEW S, NEW q \in Seq(S), NEW i \in 1..(Len(q) + 1), NEW t \in S, Once(q), ~In(q, t)
  PROVE  /\ InsertAt(q, i, t) \in Seq(S) /\ Once(InsertAt(q, i, t))
         /\ \A u \in S : In(InsertAt(q, i, t), u) <=> In(q, u) \/ u = t
<1> DEFINE a == SubSeq(q, 1, i - 1)
           b == SubSeq(q, i, Len(q))
           r == InsertAt(q, i, t)
<1>1. /\ a \in Seq(S) /\ Len(a) = i - 1 /\ \A k \in 1..(i - 1) : a[k] = q[k]
      /\ b \in Seq(S) /\ Len(b) = Len(q) - i + 1
      /\ \A k \in 1..(Len(q) - i + 1) : b[k] = q[k + i - 1]
  OBVIOUS
<1>2. r = (a \o <<t>>) \o b
  BY DEF InsertAt
<1> HIDE DEF a, b, r
<1>3. /\ r \in Seq(S) /\ Len(r) = Len(q) + 1
      /\ \A k \in 1..(Len(q) + 1) :
           r[k] = IF k < i THEN q[k] ELSE IF k = i THEN t ELSE q[k - 1]
  <2> DEFINE m == a \o <<t>>
  <2>1. /\ m \in Seq(S) /\ Len(m) = i /\ m[i] = t
        /\ \A k \in 1..(i - 1) : m[k] = a[k]
    BY <1>1
  <2> HIDE DEF m
  <2>2. r = m \o b
    BY <1>2 DEF m
  <2>3. /\ r \in Seq(S) /\ Len(r) = Len(m) + Len(b)
        /\ \A k \in 1..(Len(m) + Len(b)) : r[k] = IF k <= Len(m) THEN m[k] ELSE b[k - Len(m)]
    <3>1. m \in Seq(S) /\ b \in Seq(S)
      BY <1>1, <2>1
    <3>2. /\ m \o b \in Seq(S) /\ Len(m \o b) = Len(m) + Len(b)
          /\ \A k \in 1..Len(m) + Len(b) :
               (m \o b)[k] = IF k <= Len(m) THEN m[k] ELSE b[k - Len(m)]
      BY <3>1, ConcatProperties, Zenon
    <3> QED
      BY <2>2, <3>2
  <2>4. ASSUME NEW k \in (i + 1)..(Len(q) + 1) PROVE r[k] = q[k - 1]
    <3>1. r[k] = b[k - i]
      BY <1>1, <2>1, <2>3
    <3>2. k - i \in 1..(Len(q) - i + 1) /\ (k - i) + i - 1 = k - 1
      OBVIOUS
    <3> QED
      BY <1>1, <3>1, <3>2
  <2>5. ASSUME NEW k \in 1..i PROVE r[k] = m[k]
    BY <1>1, <2>1, <2>3
  <2> QED
    BY <1>1, <2>1, <2>3, <2>4, <2>5
<1>4. Once(r)
  <2> SUFFICES ASSUME NEW k \in 1..(Len(q) + 1), NEW m \in 1..(Len(q) + 1), r[k] = r[m], k < m
               PROVE  FALSE
    BY <1>3 DEF Once
  <2>1. CASE k = i
    BY <1>3, <2>1 DEF In
  <2>2. CASE m = i
    BY <1>3, <2>2 DEF In
  <2>3. CASE k < i /\ m < i
    BY <1>3, <2>3 DEF Once
  <2>4. CASE k < i /\ m > i
    <3>1. /\ k \in 1..Len(q) /\ m - 1 \in 1..Len(q) /\ k # m - 1
          /\ r[k] = q[k] /\ r[m] = q[m - 1]
      BY <1>3, <2>4
    <3> QED
      BY <3>1 DEF Once
  <2>5. CASE k > i
    <3>1. /\ k - 1 \in 1..Len(q) /\ m - 1 \in 1..Len(q) /\ k - 1 # m - 1
          /\ r[k] = q[k - 1] /\ r[m] = q[m - 1]
      BY <1>3, <2>5
    <3> QED
      BY <3>1 DEF Once
  <2> QED
    BY <2>1, <2>2, <2>3, <2>4, <2>5
<1>5. ASSUME NEW u \in S PROVE In(r, u) <=> In(q, u) \/ u = t
  <2>1. ASSUME NEW k \in 1..(Len(q) + 1), r[k] = u PROVE In(q, u) \/ u = t
    BY <1>3, <2>1 DEF In
  <2>2. ASSUME NEW k \in 1..Len(q), q[k] = u PROVE In(r, u)
    <3>1. CASE k < i
      BY <1>3, <2>2, <3>1 DEF In
    <3>2. CASE k >= i
      <4>1. k + 1 \in 1..(Len(q) + 1) /\ r[k + 1] = u
        BY <1>3, <2>2, <3>2
      <4> QED
        BY <1>3, <4>1 DEF In
    <3> QED
      BY <3>1, <3>2
  <2>3. u = t => In(r, u)
    BY <1>3 DEF In
  <2> QED
    BY <1>3, <2>1, <2>2, <2>3 DEF In
<1> QED
  BY <1>3, <1>4, <1>5 DEF r

LEMMA CutOut ==
  ASSUME NEW S, NEW q \in Seq(S), NEW i \in 1..Len(q), NEW t, q[i] = t, Once(q)
  PROVE  LET r == SubSeq(q, 1, i - 1) \o SubSeq(q, i + 1, Len(q))
         IN  /\ r \in Seq(S) /\ Once(r)
             /\ \A u \in S : In(r, u) <=> In(q, u) /\ u # t
<1> DEFINE a == SubSeq(q, 1, i - 1)
           b == SubSeq(q, i + 1, Len(q))
           r == a \o b
<1>1. i \in 1..Len(q) /\ q[i] = t
  OBVIOUS
<1>2. /\ a \in Seq(S) /\ Len(a) = i - 1 /\ \A k \in 1..(i - 1) : a[k] = q[k]
      /\ b \in Seq(S) /\ Len(b) = Len(q) - i /\ \A k \in 1..(Len(q) - i) : b[k] = q[k + i]
  BY <1>1
<1>3. r = a \o b
  OBVIOUS
<1> HIDE DEF a, b, r
<1>4. /\ r \in Seq(S) /\ Len(r) = Len(q) - 1
      /\ \A k \in 1..(Len(q) - 1) : r[k] = IF k < i THEN q[k] ELSE q[k + 1]
  <2>1. /\ r \in Seq(S) /\ Len(r) = Len(a) + Len(b)
        /\ \A k \in 1..(Len(a) + Len(b)) : r[k] = IF k <= Len(a) THEN a[k] ELSE b[k - Len(a)]
    <3>1. a \in Seq(S) /\ b \in Seq(S)
      BY <1>2
    <3>2. /\ a \o b \in Seq(S) /\ Len(a \o b) = Len(a) + Len(b)
          /\ \A k \in 1..Len(a) + Len(b) :
               (a \o b)[k] = IF k <= Len(a) THEN a[k] ELSE b[k - Len(a)]
      BY <3>1, ConcatProperties, Zenon
    <3> QED
      BY <1>3, <3>2
  <2>2. ASSUME NEW k \in i..(Len(q) - 1) PROVE r[k] = q[k + 1]
    <3>1. /\ k \in 1..(Len(a) + Len(b)) /\ ~(k <= Len(a))
          /\ k - Len(a) = k - (i - 1)
      BY <1>1, <1>2
    <3>3. r[k] = b[k - Len(a)]
      BY <2>1, <3>1
    <3>2. k - (i - 1) \in 1..(Len(q) - i) /\ (k - (i - 1)) + i = k + 1
      BY <1>1
    <3> QED
      BY <1>2, <3>1, <3>2, <3>3
  <2>3. ASSUME NEW k \in 1..(i - 1) PROVE r[k] = q[k]
    BY <1>1, <1>2, <2>1
  <2> QED
    BY <1>1, <1>2, <2>1, <2>2, <2>3
<1>5. Once(r)
  BY <1>1, <1>4 DEF Once
<1>6. ASSUME NEW u \in S PROVE In(r, u) <=> In(q, u) /\ u # t
  <2>1. ASSUME NEW k \in 1..(Len(q) - 1), r[k] = u PROVE In(q, u) /\ u # t
    <3>1. CASE k < i
      BY <1>1, <1>4, <2>1, <3>1 DEF In, Once
    <3>2. CASE k >= i
      BY <1>1, <1>4, <2>1, <3>2 DEF In, Once
    <3> QED
      BY <1>1, <3>1, <3>2
  <2>2. ASSUME NEW k \in 1..Len(q), q[k] = u, u # t PROVE In(r, u)
    <3>1. CASE k < i
      BY <1>1, <1>4, <2>2, <3>1 DEF In
    <3>2. CASE k > i
      <4>1. k - 1 \in 1..(Len(q) - 1) /\ r[k - 1] = u
        BY <1>1, <1>4, <2>2, <3>2
      <4> QED
        BY <1>4, <4>1 DEF In
    <3> QED
      BY <1>1, <2>2, <3>1, <3>2
  <2> QED
    BY <1>4, <2>1, <2>2 DEF In
<1>7. /\ r \in Seq(S) /\ Once(r)
      /\ \A u \in S : In(r, u) <=> In(q, u) /\ u # t
  BY <1>4, <1>5, <1>6
<1> QED
  BY <1>7, Zenon DEF r, a, b

LEMMA TakenOut ==
  ASSUME NEW S, NEW q \in Seq(S), NEW t \in S, Once(q), In(q, t)
  PROVE  /\ Without(q, t) \in Seq(S) /\ Once(Without(q, t))
         /\ \A u \in S : In(Without(q, t), u) <=> In(q, u) /\ u # t
<1> DEFINE i == CHOOSE k \in DOMAIN q : q[k] = t
<1>1. i \in 1..Len(q) /\ q[i] = t
  BY DEF In
<1>2. Without(q, t) = SubSeq(q, 1, i - 1) \o SubSeq(q, i + 1, Len(q))
  BY DEF Without
<1> HIDE DEF i
<1> DEFINE r == SubSeq(q, 1, i - 1) \o SubSeq(q, i + 1, Len(q))
<1>3. /\ r \in Seq(S) /\ Once(r)
      /\ \A u \in S : In(r, u) <=> In(q, u) /\ u # t
  BY <1>1, CutOut, Zenon
<1> HIDE DEF r
<1>4. Without(q, t) = r
  BY <1>2 DEF r
<1> QED
  BY <1>3, <1>4

\* The first n of a queue, and those behind them.
FirstOf(q, n) == {q[k] : k \in 1..n}
RestOf(q, n) == SubSeq(q, n + 1, Len(q))

LEMMA Behind ==
  ASSUME NEW S, NEW q \in Seq(S), NEW n \in 0..Len(q), Once(q)
  PROVE  /\ RestOf(q, n) \in Seq(S) /\ Once(RestOf(q, n)) /\ FirstOf(q, n) \subseteq S
         /\ \A u \in S : In(RestOf(q, n), u) <=> In(q, u) /\ u \notin FirstOf(q, n)
         /\ IsFiniteSet(FirstOf(q, n)) /\ Cardinality(FirstOf(q, n)) = n
<1> DEFINE r == SubSeq(q, n + 1, Len(q))
           first == {q[k] : k \in 1..n}
<1>1. /\ r \in Seq(S) /\ Len(r) = Len(q) - n
      /\ \A k \in 1..(Len(q) - n) : r[k] = q[k + n]
  OBVIOUS
<1>2. \A u : u \in first <=> \E k \in 1..n : q[k] = u
  OBVIOUS
<1>3. \A k \in 1..Len(q) : q[k] \in S
  OBVIOUS
<1>4. IsFiniteSet(first) /\ Cardinality(first) = n
  <2> DEFINE f == [k \in 1..n |-> q[k]]
  <2>1. \A k \in 1..n : f[k] = q[k] /\ f[k] \in first
    OBVIOUS
  <2>2. f \in Injection(1..n, first)
    <3>1. f \in [1..n -> first] /\ DOMAIN f = 1..n
      OBVIOUS
    <3>2. \A k, m \in 1..n : q[k] = q[m] => k = m
      BY DEF Once
    <3>3. \A k, m \in 1..n : f[k] = f[m] => k = m
      BY <2>1, <3>2
    <3> HIDE DEF f, first
    <3> QED
      BY <3>1, <3>3 DEF Injection, IsInjective
  <2>3. \A u \in first : \E k \in 1..n : f[k] = u
    BY <2>1
  <2>4. f \in Bijection(1..n, first)
    BY <2>2, <2>3 DEF Bijection, Surjection, Injection
  <2> HIDE DEF f, first
  <2>5. ExistsBijection(1..n, first)
    BY <2>4 DEF ExistsBijection
  <2>6. Cardinality(first) = n
    BY <2>5, FS_CountingElements
  <2>7. IsFiniteSet(first)
    BY <2>5, FS_NatBijection
  <2> QED
    BY <2>6, <2>7
<1> HIDE DEF r, first
<1>5. Once(r)
  <2> SUFFICES ASSUME NEW k \in 1..(Len(q) - n), NEW m \in 1..(Len(q) - n), r[k] = r[m]
               PROVE  k = m
    BY <1>1 DEF Once
  <2>1. k + n \in 1..Len(q) /\ m + n \in 1..Len(q) /\ q[k + n] = q[m + n]
    BY <1>1
  <2>2. k + n = m + n
    BY <2>1 DEF Once
  <2> QED
    BY <2>2
<1>6. ASSUME NEW u \in S PROVE In(r, u) <=> In(q, u) /\ u \notin first
  <2>1. ASSUME NEW k \in 1..(Len(q) - n), r[k] = u PROVE In(q, u) /\ u \notin first
    <3>1. k + n \in 1..Len(q) /\ q[k + n] = u
      BY <1>1, <2>1
    <3> QED
      BY <1>2, <3>1 DEF In, Once
  <2>2. ASSUME NEW k \in 1..Len(q), q[k] = u, u \notin first PROVE In(r, u)
    <3>1. ~(k <= n)
      BY <1>2, <2>2
    <3>2. k - n \in 1..(Len(q) - n) /\ r[k - n] = u
      BY <1>1, <2>2, <3>1
    <3> QED
      BY <1>1, <3>2 DEF In
  <2> QED
    BY <1>1, <2>1, <2>2 DEF In
<1>7. first \subseteq S
  BY <1>2, <1>3
<1>8. RestOf(q, n) = r /\ FirstOf(q, n) = first
  BY Zenon DEF RestOf, FirstOf, r, first
<1> QED
  BY <1>1, <1>4, <1>5, <1>6, <1>7, <1>8

LEMMA FirstInQueue ==
  ASSUME NEW q \in Seq(Tasks), NEW P \in SUBSET (1..Len(q))
  PROVE  FirstOr(q, P) \in 1..(Len(q) + 1)
<1>1. CASE P = {}
  BY <1>1 DEF FirstOr
<1>2. CASE P # {}
  <2>1. P \in SUBSET Nat
    OBVIOUS
  <2>2. PICK n \in P : \A m \in P : ~(m < n)
    BY <1>2, <2>1, LeastNatural
  <2>3. \E i \in P : \A k \in P : i <= k
    BY <2>1, <2>2
  <2>4. FirstOr(q, P) \in P
    BY <1>2, <2>3 DEF FirstOr
  <2>5. P \subseteq 1..Len(q) /\ 1..Len(q) \subseteq 1..(Len(q) + 1)
    OBVIOUS
  <2> QED
    BY <2>4, <2>5, Zenon
<1> QED
  BY <1>1, <1>2

LEMMA PositionInQueue ==
  ASSUME NEW q \in Seq(Tasks), NEW t \in Tasks, NEW w \in BOOLEAN
  PROVE  Position(q, t, w) \in 1..(Len(q) + 1)
<1> DEFINE P1 == {i \in DOMAIN q : Outranks(t, q[i])}
           P2 == {i \in DOMAIN q : q[i] \notin Writers}
           P3 == {i \in DOMAIN q : q[i] \in Writers}
<1>1. /\ P1 \in SUBSET (1..Len(q)) /\ P2 \in SUBSET (1..Len(q)) /\ P3 \in SUBSET (1..Len(q))
  OBVIOUS
<1>2. Position(q, t, w) \in
      {FirstOr(q, P1), FirstOr(q, P2), FirstOr(q, P3), Len(q) + 1}
  BY DEF Position
<1> HIDE DEF P1, P2, P3
<1>3. Len(q) + 1 \in 1..(Len(q) + 1)
  OBVIOUS
<1> QED
  BY <1>1, <1>2, <1>3, FirstInQueue, Zenon

\* What drain starts: the readers at the head, while no write runs, or one
\* call, while nothing runs.
LEMMA StartsAPrefix ==
  ASSUME NEW q \in Seq(Tasks), NEW running
  PROVE  \E n \in 0..Len(q) :
           /\ Startable(q, running) = {q[k] : k \in 1..n}
           /\ \/ n = 0
              \/ (n = 1 /\ running = {})
              \/ (running \cap Writers = {} /\ \A k \in 1..n : q[k] \notin Writers)
<1> DEFINE blocked == {k \in 1..Len(q) : q[k] \in Writers}
           head == {k \in DOMAIN q : \A m \in 1..k : q[m] \notin Writers}
<1>1. PICK n \in 0..Len(q) : head = 1..n /\ \A k \in 1..n : q[k] \notin Writers
  <2>1. CASE blocked = {}
    <3>1. head = 1..Len(q)
      BY <2>1
    <3> QED
      BY <2>1, <3>1
  <2>2. CASE blocked # {}
    <3>1. blocked \in SUBSET Nat
      OBVIOUS
    <3>2. PICK b \in blocked : \A m \in blocked : ~(m < b)
      BY <2>2, <3>1, LeastNatural
    <3>3. b - 1 \in 0..Len(q) /\ \A k \in 1..(b - 1) : q[k] \notin Writers
      BY <3>2
    <3>4. ASSUME NEW k PROVE k \in head <=> k \in 1..(b - 1)
      BY <3>2, <3>3
    <3>5. head = 1..(b - 1)
      BY <3>4
    <3> QED
      BY <3>3, <3>5
  <2> QED
    BY <2>1, <2>2
<1>2. HeadReaders(q) = {q[k] : k \in 1..n}
  BY <1>1 DEF HeadReaders
<1>3. Startable(q, running) \in {{}, HeadReaders(q), {q[1]}}
  BY DEF Startable
<1>4. CASE Startable(q, running) = {}
  <2>1. {q[k] : k \in 1..0} = {}
    OBVIOUS
  <2> QED
    BY <1>4, <2>1
<1>5. CASE Startable(q, running) # {} /\ q[1] \notin Writers
  <2>1. Startable(q, running) = HeadReaders(q) /\ running \cap Writers = {}
    BY <1>5 DEF Startable
  <2> QED
    BY <1>1, <1>2, <2>1
<1>6. CASE Startable(q, running) # {} /\ q[1] \in Writers
  <2>1. Startable(q, running) = {q[1]} /\ running = {} /\ q # <<>>
    BY <1>6 DEF Startable
  <2>2. 1 \in 0..Len(q) /\ {q[k] : k \in 1..1} = {q[1]}
    BY <2>1
  <2> QED
    BY <2>1, <2>2
<1> QED
  BY <1>4, <1>5, <1>6

-----------------------------------------------------------------------------
(* The inductive invariant.  Exclusion is kept by the counters of one      *)
(* state object only; it is exclusion between calls because all of them     *)
(* are on the object in the map, and cleanup sees every queued call in the  *)
(* queue of its object.                                                    *)

GateTypes ==
  /\ cur \in Objs \cup {NoObj}
  /\ queue \in [Objs -> Seq(Tasks)]
  /\ st \in [Tasks -> States]
  /\ at \in [Tasks -> Objs \cup {NoObj}]

\* A queued or running call is on the object of the map.
Attached == \A t \in Tasks : st[t] \in {"queued", "running"} => at[t] = cur /\ cur # NoObj

\* The queue of an object holds the calls queued on it, each once.
QueuesHold ==
  \A o \in Objs :
    /\ Once(queue[o])
    /\ \A t \in Tasks : In(queue[o], t) <=> st[t] = "queued" /\ at[t] = o

IInv == GateTypes /\ Attached /\ QueuesHold /\ WritersExclusive

\* What a drain needs and what it leaves: calls s are in progress on object o,
\* whose queue is q.
ReadyToDrain(o, q, s) ==
  /\ queue \in [Objs -> Seq(Tasks)]
  /\ at' \in [Tasks -> Objs \cup {NoObj}] /\ NoObj \notin Objs
  /\ cur' = o
  /\ q \in Seq(Tasks) /\ Once(q)
  /\ s \in [Tasks -> States]
  /\ \A t \in Tasks : s[t] \in {"queued", "running"} => at'[t] = o
  /\ \A t \in Tasks : In(q, t) <=> s[t] = "queued"
  /\ \A p \in Objs \ {o} : Once(queue[p]) /\ \A t \in Tasks : ~In(queue[p], t)
  /\ \A t, u \in Tasks : s[t] = "running" /\ s[u] = "running" /\ t \in Writers => t = u

LEMMA Drained ==
  ASSUME NEW o \in Objs, NEW q, NEW s, ReadyToDrain(o, q, s), Drain(o, q, s)
  PROVE  IInv'
<1> DEFINE running == {t \in Tasks : s[t] = "running" /\ at'[t] = o}
           started == Startable(q, running)
           rest == SubSeq(q, Cardinality(started) + 1, Len(q))
<1>0. q \in Seq(Tasks) /\ Once(q)
  BY Zenon DEF ReadyToDrain
<1>1. PICK n \in 0..Len(q) :
           /\ started = {q[k] : k \in 1..n}
           /\ \/ n = 0
              \/ (n = 1 /\ running = {})
              \/ (running \cap Writers = {} /\ \A k \in 1..n : q[k] \notin Writers)
  <2> HIDE DEF running
  <2> QED
    BY <1>0, StartsAPrefix, Zenon
<1>2. /\ st' = [t \in Tasks |-> IF t \in started THEN "running" ELSE s[t]]
      /\ queue' = [queue EXCEPT ![o] = rest]
  BY Zenon DEF Drain
<1> HIDE DEF running, started
<1>4. /\ Cardinality(started) = n
      /\ SubSeq(q, n + 1, Len(q)) \in Seq(Tasks) /\ Once(SubSeq(q, n + 1, Len(q)))
      /\ started \subseteq Tasks
      /\ \A u \in Tasks : In(SubSeq(q, n + 1, Len(q)), u) <=> In(q, u) /\ u \notin started
  <2>1. started = FirstOf(q, n) /\ SubSeq(q, n + 1, Len(q)) = RestOf(q, n)
    BY <1>1, Zenon DEF FirstOf, RestOf
  <2>2. /\ RestOf(q, n) \in Seq(Tasks) /\ Once(RestOf(q, n)) /\ FirstOf(q, n) \subseteq Tasks
        /\ \A u \in Tasks : In(RestOf(q, n), u) <=> In(q, u) /\ u \notin FirstOf(q, n)
        /\ Cardinality(FirstOf(q, n)) = n
    BY <1>0, Behind, Zenon
  <2> QED
    BY <2>1, <2>2, Zenon
<1> SUFFICES
      ASSUME queue \in [Objs -> Seq(Tasks)],
             at' \in [Tasks -> Objs \cup {NoObj}],
             NoObj \notin Objs,
             cur' = o,
             q \in Seq(Tasks), Once(q),
             s \in [Tasks -> States],
             \A t \in Tasks : s[t] \in {"queued", "running"} => at'[t] = o,
             \A t \in Tasks : In(q, t) <=> s[t] = "queued",
             \A p \in Objs \ {o} : Once(queue[p]) /\ \A t \in Tasks : ~In(queue[p], t),
             \A t, u \in Tasks : s[t] = "running" /\ s[u] = "running" /\ t \in Writers => t = u
      PROVE  IInv'
  BY Zenon DEF ReadyToDrain
<1>3. \A t \in Tasks : t \in running <=> s[t] = "running"
  BY DEF running
<1>5. /\ rest \in Seq(Tasks) /\ Once(rest)
      /\ \A u \in Tasks : In(rest, u) <=> In(q, u) /\ u \notin started
  BY <1>4
<1> HIDE DEF rest
<1>6. \A t \in started : In(q, t)
  BY <1>1 DEF In
<1>7. /\ st' \in [Tasks -> States]
      /\ \A t \in started : st'[t] = "running"
      /\ \A t \in Tasks \ started : st'[t] = s[t]
  BY <1>2, <1>4 DEF States
<1>8. /\ queue' \in [Objs -> Seq(Tasks)] /\ queue'[o] = rest
      /\ \A p \in Objs \ {o} : queue'[p] = queue[p]
  BY <1>2, <1>5
<1>9. GateTypes'
  BY <1>7, <1>8 DEF GateTypes
<1>10. \A t \in started : t \in Tasks /\ s[t] = "queued" /\ at'[t] = o
  BY <1>4, <1>6
<1>11. Attached'
  BY <1>7, <1>10 DEF Attached
<1>12. QueuesHold'
  <2> SUFFICES ASSUME NEW p \in Objs
               PROVE  /\ Once(queue'[p])
                      /\ \A t \in Tasks : In(queue'[p], t) <=> st'[t] = "queued" /\ at'[t] = p
    BY DEF QueuesHold, Once, In
  <2>1. CASE p = o
    <3>1. Once(queue'[p]) /\ \A t \in Tasks : In(queue'[p], t) <=> In(q, t) /\ t \notin started
      BY <1>5, <1>8, <2>1
    <3>2. ASSUME NEW t \in Tasks PROVE In(q, t) /\ t \notin started <=> st'[t] = "queued" /\ at'[t] = p
      BY <1>7, <1>10, <2>1
    <3> QED
      BY <3>1, <3>2
  <2>2. CASE p # o
    <3>1. Once(queue'[p]) /\ \A t \in Tasks : ~In(queue'[p], t)
      BY <1>8, <2>2
    <3>2. ASSUME NEW t \in Tasks, st'[t] = "queued" PROVE at'[t] = o
      BY <1>7, <3>2
    <3> QED
      BY <2>2, <3>1, <3>2
  <2> QED
    BY <2>1, <2>2
<1>13. WritersExclusive'
  <2> SUFFICES ASSUME NEW t \in Tasks, NEW u \in Tasks,
                      st'[t] = "running", st'[u] = "running", t \in Writers
               PROVE  t = u
    BY DEF WritersExclusive
  <2>1. /\ t \in started \/ s[t] = "running"
        /\ u \in started \/ s[u] = "running"
    BY <1>7
  <2>2. CASE n = 0
    <3>1. started = {}
      BY <1>1, <2>2
    <3> QED
      BY <2>1, <3>1
  <2>3. CASE n = 1 /\ running = {}
    <3>1. started = {q[1]}
      BY <1>1, <2>3
    <3>2. t \in started /\ u \in started
      BY <1>3, <2>1, <2>3
    <3> QED
      BY <3>1, <3>2
  <2>4. CASE running \cap Writers = {} /\ \A k \in 1..n : q[k] \notin Writers
    <3>1. t \notin started
      BY <1>1, <2>4
    <3>2. t \in running
      BY <1>3, <2>1, <3>1
    <3> QED
      BY <2>4, <3>2
  <2> QED
    BY <1>1, <2>2, <2>3, <2>4
<1> QED
  BY <1>9, <1>11, <1>12, <1>13 DEF IInv

LEMMA InitIInv == ASSUME AssetInit PROVE IInv
<1>1. GateTypes
  BY DEF AssetInit, GateTypes, States
<1>2. Attached
  BY DEF AssetInit, Attached
<1>3. QueuesHold
  BY DEF AssetInit, QueuesHold, Once, In
<1>4. WritersExclusive
  BY DEF AssetInit, WritersExclusive
<1> QED
  BY <1>1, <1>2, <1>3, <1>4 DEF IInv

\* The object a call is put on: nobody is queued or running on another one.
LEMMA StateForOne ==
  ASSUME IInv, NEW o \in Objs, StateFor(o)
  PROVE  /\ \A t \in Tasks : st[t] \in {"queued", "running"} => at[t] = o
         /\ Once(queue[o]) /\ queue[o] \in Seq(Tasks)
         /\ \A t \in Tasks : In(queue[o], t) <=> st[t] = "queued"
         /\ \A p \in Objs \ {o} : Once(queue[p]) /\ \A t \in Tasks : ~In(queue[p], t)
<1>1. \A t \in Tasks : st[t] \in {"queued", "running"} => at[t] = o
  BY DEF IInv, Attached, StateFor
<1>2. /\ Once(queue[o]) /\ queue[o] \in Seq(Tasks)
      /\ \A t \in Tasks : In(queue[o], t) <=> st[t] = "queued" /\ at[t] = o
  BY DEF IInv, QueuesHold, GateTypes
<1>3. ASSUME NEW p \in Objs \ {o} PROVE Once(queue[p]) /\ \A t \in Tasks : ~In(queue[p], t)
  <2>1. Once(queue[p]) /\ \A t \in Tasks : In(queue[p], t) <=> st[t] = "queued" /\ at[t] = p
    BY DEF IInv, QueuesHold
  <2> QED
    BY <1>1, <2>1
<1> QED
  BY <1>1, <1>2, <1>3

\* A drain of the object as it is, the calls unchanged.
LEMMA DrainedAsIs ==
  ASSUME IInv, NEW o \in Objs, StateFor(o), cur' = o, at' = at,
         Drain(o, queue[o], st)
  PROVE  IInv'
<1>1. /\ \A t \in Tasks : st[t] \in {"queued", "running"} => at'[t] = o
      /\ Once(queue[o]) /\ queue[o] \in Seq(Tasks)
      /\ \A t \in Tasks : In(queue[o], t) <=> st[t] = "queued"
      /\ \A p \in Objs \ {o} : Once(queue[p]) /\ \A t \in Tasks : ~In(queue[p], t)
  BY StateForOne
<1>2. /\ queue \in [Objs -> Seq(Tasks)] /\ st \in [Tasks -> States]
      /\ at' \in [Tasks -> Objs \cup {NoObj}] /\ NoObj \notin Objs
  BY AssetConstants DEF IInv, GateTypes, AssetConstantsOK
<1>3. \A t, u \in Tasks : st[t] = "running" /\ st[u] = "running" /\ t \in Writers => t = u
  BY DEF IInv, WritersExclusive
<1>4. /\ Once(queue[o]) /\ queue[o] \in Seq(Tasks)
      /\ \A t \in Tasks : st[t] \in {"queued", "running"} => at'[t] = o
  BY <1>1
<1>5. /\ \A t \in Tasks : In(queue[o], t) <=> st[t] = "queued"
      /\ \A p \in Objs \ {o} : Once(queue[p]) /\ \A t \in Tasks : ~In(queue[p], t)
  BY <1>1
<1> QED
  <2>1. ReadyToDrain(o, queue[o], st)
    BY <1>2, <1>3, <1>4, <1>5, Zenon DEF ReadyToDrain
  <2> QED
    BY <2>1, Drained

LEMMA EnqueueIInv ==
  ASSUME IInv, NEW t \in Tasks, NEW o \in Objs, enqueue(t, o)
  PROVE  IInv'
<1> DEFINE w == Running(o) \cap Writers # {}
           q == InsertAt(queue[o], Position(queue[o], t, w), t)
           s == [st EXCEPT ![t] = "queued"]
<1>1. st[t] = "idle" /\ StateFor(o) /\ cur' = o
  BY DEF enqueue
<1>2. CASE t \in NoWait /\ t \notin Startable(q, Running(o))
  <2>1. at' = at /\ Drain(o, queue[o], st)
    BY <1>2 DEF enqueue
  <2> QED
    BY <1>1, <2>1, DrainedAsIs
<1>3. CASE ~(t \in NoWait /\ t \notin Startable(q, Running(o)))
  <2>1. at' = [at EXCEPT ![t] = o] /\ Drain(o, q, s)
    BY <1>3 DEF enqueue
  <2>2. /\ \A u \in Tasks : st[u] \in {"queued", "running"} => at[u] = o
        /\ Once(queue[o]) /\ queue[o] \in Seq(Tasks)
        /\ \A u \in Tasks : In(queue[o], u) <=> st[u] = "queued"
        /\ \A p \in Objs \ {o} : Once(queue[p]) /\ \A u \in Tasks : ~In(queue[p], u)
    BY <1>1, StateForOne
  <2>3. /\ queue \in [Objs -> Seq(Tasks)] /\ st \in [Tasks -> States]
        /\ at \in [Tasks -> Objs \cup {NoObj}] /\ NoObj \notin Objs
    BY AssetConstants DEF IInv, GateTypes, AssetConstantsOK
  <2>4. w \in BOOLEAN
    OBVIOUS
  <2> DEFINE i == Position(queue[o], t, w)
  <2> HIDE DEF w
  <2>5. i \in 1..(Len(queue[o]) + 1)
    BY <2>2, <2>4, PositionInQueue
  <2>6. ~In(queue[o], t)
    BY <1>1, <2>2
  <2>7. q = InsertAt(queue[o], i, t)
    OBVIOUS
  <2> HIDE DEF i, q
  <2>8. /\ q \in Seq(Tasks) /\ Once(q)
        /\ \A u \in Tasks : In(q, u) <=> In(queue[o], u) \/ u = t
    BY <2>2, <2>5, <2>6, <2>7, Inserted
  <2>9. /\ s \in [Tasks -> States] /\ s[t] = "queued"
        /\ \A u \in Tasks \ {t} : s[u] = st[u]
    BY <2>3 DEF States
  <2>10. /\ at' \in [Tasks -> Objs \cup {NoObj}] /\ at'[t] = o
         /\ \A u \in Tasks \ {t} : at'[u] = at[u]
    BY <2>1, <2>3
  <2> HIDE DEF s
  <2>11. \A u \in Tasks : s[u] \in {"queued", "running"} => at'[u] = o
    BY <2>2, <2>9, <2>10
  <2>12. \A u \in Tasks : In(q, u) <=> s[u] = "queued"
    BY <2>2, <2>8, <2>9
  <2>13. \A u, v \in Tasks : s[u] = "running" /\ s[v] = "running" /\ u \in Writers => u = v
    BY <2>9 DEF IInv, WritersExclusive
  <2>14. /\ queue \in [Objs -> Seq(Tasks)] /\ at' \in [Tasks -> Objs \cup {NoObj}]
         /\ NoObj \notin Objs /\ cur' = o
         /\ q \in Seq(Tasks) /\ Once(q) /\ s \in [Tasks -> States] /\ Drain(o, q, s)
    BY <1>1, <2>1, <2>3, <2>8, <2>9, <2>10
  <2>15. \A p \in Objs \ {o} : Once(queue[p]) /\ \A u \in Tasks : ~In(queue[p], u)
    BY <2>2
  <2>16. ReadyToDrain(o, q, s)
    BY <2>11, <2>12, <2>13, <2>14, <2>15, Zenon DEF ReadyToDrain
  <2> QED
    BY <2>14, <2>16, Drained
<1> QED
  BY <1>2, <1>3

\* A call leaves the object of the map, from its queue or from those running.
LEMMA LeftIInv ==
  ASSUME IInv, NEW t \in Tasks, st[t] \in {"queued", "running"},
         NEW q \in Seq(Tasks), Once(q),
         \A u \in Tasks : In(q, u) <=> In(queue[at[t]], u) /\ u # t,
         at' = [at EXCEPT ![t] = NoObj], cur' = cur,
         Drain(at[t], q, [st EXCEPT ![t] = "idle"])
  PROVE  IInv'
<1> DEFINE s == [st EXCEPT ![t] = "idle"]
<1>1. PICK o \in Objs : o = cur /\ o = at[t]
  BY DEF IInv, Attached, GateTypes
<1>2. StateFor(o)
  BY <1>1 DEF IInv, Attached, StateFor
<1>3. /\ \A u \in Tasks : st[u] \in {"queued", "running"} => at[u] = o
      /\ \A u \in Tasks : In(queue[o], u) <=> st[u] = "queued"
      /\ \A p \in Objs \ {o} : Once(queue[p]) /\ \A u \in Tasks : ~In(queue[p], u)
  BY <1>2, StateForOne
<1>4. /\ queue \in [Objs -> Seq(Tasks)] /\ st \in [Tasks -> States]
      /\ at \in [Tasks -> Objs \cup {NoObj}] /\ NoObj \notin Objs
  BY AssetConstants DEF IInv, GateTypes, AssetConstantsOK
<1>5. /\ s \in [Tasks -> States] /\ s[t] = "idle"
      /\ \A u \in Tasks \ {t} : s[u] = st[u]
  BY <1>4 DEF States
<1>6. /\ at' \in [Tasks -> Objs \cup {NoObj}]
      /\ \A u \in Tasks \ {t} : at'[u] = at[u]
  BY <1>4
<1>7. Drain(o, q, s) /\ cur' = o
  BY <1>1
<1> HIDE DEF s
<1>8. \A u \in Tasks : s[u] \in {"queued", "running"} => at'[u] = o
  BY <1>3, <1>5, <1>6
<1>9. \A u \in Tasks : In(q, u) <=> s[u] = "queued"
  BY <1>1, <1>3, <1>5
<1>10. \A u, v \in Tasks : s[u] = "running" /\ s[v] = "running" /\ u \in Writers => u = v
  BY <1>5 DEF IInv, WritersExclusive
<1>11. /\ queue \in [Objs -> Seq(Tasks)] /\ at' \in [Tasks -> Objs \cup {NoObj}]
       /\ NoObj \notin Objs /\ s \in [Tasks -> States]
  BY <1>4, <1>5, <1>6
<1>12. \A p \in Objs \ {o} : Once(queue[p]) /\ \A u \in Tasks : ~In(queue[p], u)
  BY <1>3
<1>13. ReadyToDrain(o, q, s)
  BY <1>7, <1>8, <1>9, <1>10, <1>11, <1>12, Zenon DEF ReadyToDrain
<1> QED
  BY <1>7, <1>13, Drained

LEMMA FinishIInv ==
  ASSUME IInv, NEW t \in Tasks, finish(t)
  PROVE  IInv'
<1> DEFINE q == queue[at[t]]
<1>1. /\ st[t] = "running" /\ at' = [at EXCEPT ![t] = NoObj] /\ cur' = cur
      /\ Drain(at[t], q, [st EXCEPT ![t] = "idle"])
  BY DEF finish
<1>2. at[t] \in Objs
  BY <1>1 DEF IInv, Attached, GateTypes
<1>3. /\ q \in Seq(Tasks) /\ Once(q)
      /\ \A u \in Tasks : In(q, u) => st[u] = "queued"
  BY <1>2 DEF IInv, GateTypes, QueuesHold
<1>4. \A u \in Tasks : In(q, u) <=> In(queue[at[t]], u) /\ u # t
  BY <1>1, <1>3
<1> QED
  BY <1>1, <1>3, <1>4, LeftIInv

LEMMA CancelIInv ==
  ASSUME IInv, NEW t \in Tasks, cancelWaiter(t)
  PROVE  IInv'
<1> DEFINE q == Without(queue[at[t]], t)
<1>1. /\ st[t] = "queued" /\ at' = [at EXCEPT ![t] = NoObj] /\ cur' = cur
      /\ Drain(at[t], q, [st EXCEPT ![t] = "idle"])
  BY DEF cancelWaiter
<1>2. at[t] \in Objs
  BY <1>1 DEF IInv, Attached, GateTypes
<1>3. queue[at[t]] \in Seq(Tasks) /\ Once(queue[at[t]]) /\ In(queue[at[t]], t)
  BY <1>1, <1>2 DEF IInv, GateTypes, QueuesHold
<1>4. /\ q \in Seq(Tasks) /\ Once(q)
      /\ \A u \in Tasks : In(q, u) <=> In(queue[at[t]], u) /\ u # t
  BY <1>3, TakenOut
<1> HIDE DEF q
<1> QED
  BY <1>1, <1>4, LeftIInv

LEMMA CloseIInv ==
  ASSUME IInv, close
  PROVE  IInv'
<1> DEFINE canceled == {t \in Tasks : st[t] = "queued" /\ at[t] = cur}
<1>1. /\ st' = [t \in Tasks |-> IF t \in canceled THEN "idle" ELSE st[t]]
      /\ at' = [t \in Tasks |-> IF t \in canceled THEN NoObj ELSE at[t]]
      /\ queue' = [o \in Objs |-> IF o = cur THEN <<>> ELSE queue[o]]
      /\ cur' = cur
  BY DEF close, closeWith
<1>2. \A t \in Tasks : t \in canceled <=> st[t] = "queued"
  BY DEF IInv, Attached
<1> HIDE DEF canceled
<1>3. GateTypes'
  BY <1>1 DEF IInv, GateTypes, States
<1>4. \A t \in Tasks : /\ st'[t] # "queued"
                       /\ st'[t] = "running" => st[t] = "running" /\ at'[t] = at[t]
  BY <1>1, <1>2
<1>5. Attached'
  BY <1>1, <1>4 DEF IInv, Attached
<1>6. QueuesHold'
  <2> SUFFICES ASSUME NEW o \in Objs
               PROVE  Once(queue'[o]) /\ \A t \in Tasks : ~In(queue'[o], t)
    BY <1>4 DEF QueuesHold, Once, In
  <2>1. CASE o = cur
    <3>1. queue'[o] = <<>>
      BY <1>1, <2>1
    <3> QED
      BY <3>1 DEF Once, In
  <2>2. CASE o # cur
    <3>1. queue'[o] = queue[o]
      BY <1>1, <2>2
    <3>2. Once(queue[o]) /\ \A t \in Tasks : ~In(queue[o], t)
      BY <2>2 DEF IInv, QueuesHold, Attached
    <3> QED
      BY <3>1, <3>2
  <2> QED
    BY <2>1, <2>2
<1>7. WritersExclusive'
  BY <1>4 DEF IInv, WritersExclusive
<1> QED
  BY <1>3, <1>5, <1>6, <1>7 DEF IInv

LEMMA CleanupIInv ==
  ASSUME IInv, NEW o \in Objs, cleanup(o)
  PROVE  IInv'
<1>1. /\ cur' = IF cur = o /\ queue[o] = <<>> /\ Running(o) = {} THEN NoObj ELSE cur
      /\ queue' = queue /\ st' = st /\ at' = at
  BY DEF cleanup
<1>2. GateTypes'
  BY <1>1 DEF IInv, GateTypes
<1>3. QueuesHold'
  BY <1>1 DEF IInv, QueuesHold
<1>4. WritersExclusive'
  BY <1>1 DEF IInv, WritersExclusive
<1>5. Attached'
  <2>1. CASE cur' = cur
    BY <1>1, <2>1 DEF IInv, Attached
  <2>2. CASE cur = o /\ queue[o] = <<>> /\ Running(o) = {}
    <3>1. \A t \in Tasks : ~In(queue[o], t)
      BY <2>2 DEF In
    <3>2. \A t \in Tasks : ~(st[t] = "queued" /\ at[t] = o)
      BY <3>1 DEF IInv, QueuesHold
    <3>3. \A t \in Tasks : ~(st[t] = "running" /\ at[t] = o)
      BY <2>2 DEF Running
    <3> QED
      BY <1>1, <2>2, <3>2, <3>3 DEF IInv, Attached
  <2> QED
    BY <1>1, <2>1, <2>2
<1> QED
  BY <1>2, <1>3, <1>4, <1>5 DEF IInv

\* Steps that leave the queues and the objects alone.
LEMMA AsideIInv ==
  ASSUME IInv, UNCHANGED <<cur, queue, at>>, st' \in [Tasks -> States],
         \A t \in Tasks : st'[t] = st[t] \/ {st[t], st'[t]} \subseteq {"idle", "refused"}
  PROVE  IInv'
<1>1. \A t \in Tasks : /\ st'[t] = "queued" <=> st[t] = "queued"
                       /\ st'[t] = "running" <=> st[t] = "running"
  OBVIOUS
<1>2. GateTypes'
  BY DEF IInv, GateTypes
<1>3. Attached'
  BY <1>1 DEF IInv, Attached
<1>4. QueuesHold'
  BY <1>1 DEF IInv, QueuesHold
<1>5. WritersExclusive'
  BY <1>1 DEF IInv, WritersExclusive
<1> QED
  BY <1>2, <1>3, <1>4, <1>5 DEF IInv

LEMMA NextIInv ==
  ASSUME IInv, [AssetNext]_assetVars
  PROVE  IInv'
<1>0. st \in [Tasks -> States]
  BY DEF IInv, GateTypes
<1>1. ASSUME NEW t \in Tasks, NEW o \in Objs, enqueue(t, o) PROVE IInv'
  BY <1>1, EnqueueIInv
<1>2. ASSUME NEW t \in Tasks, NEW o \in Objs, enqueueAborted(t, o) PROVE IInv'
  <2>1. StateFor(o) /\ cur' = o /\ at' = at /\ Drain(o, queue[o], st)
    BY <1>2 DEF enqueueAborted
  <2> QED
    BY <2>1, DrainedAsIs
<1>3. ASSUME NEW t \in Tasks, enqueueClosed(t) PROVE IInv'
  <2>1. UNCHANGED <<cur, queue, at>> /\ st[t] = "idle" /\ st' = [st EXCEPT ![t] = "refused"]
    BY <1>3 DEF enqueueClosed
  <2>2. /\ st' \in [Tasks -> States]
        /\ \A u \in Tasks : st'[u] = st[u] \/ {st[u], st'[u]} \subseteq {"idle", "refused"}
    BY <1>0, <2>1 DEF States
  <2> QED
    BY <2>1, <2>2, AsideIInv
<1>4. ASSUME NEW t \in Tasks, settle(t) PROVE IInv'
  <2>1. UNCHANGED <<cur, queue, at>> /\ st[t] = "refused" /\ st' = [st EXCEPT ![t] = "idle"]
    BY <1>4 DEF settle
  <2>2. /\ st' \in [Tasks -> States]
        /\ \A u \in Tasks : st'[u] = st[u] \/ {st[u], st'[u]} \subseteq {"idle", "refused"}
    BY <1>0, <2>1 DEF States
  <2> QED
    BY <2>1, <2>2, AsideIInv
<1>5. ASSUME NEW t \in Tasks, finish(t) PROVE IInv'
  BY <1>5, FinishIInv
<1>6. ASSUME NEW t \in Tasks, cancelWaiter(t) PROVE IInv'
  BY <1>6, CancelIInv
<1>7. ASSUME NEW o \in Objs, cleanup(o) PROVE IInv'
  BY <1>7, CleanupIInv
<1>8. CASE UNCHANGED <<cur, queue, st, at>>
  BY <1>0, <1>8, AsideIInv
<1>9. ASSUME NEW w \in Waiters, waitForRelease(w) PROVE IInv'
  BY <1>8, <1>9 DEF waitForRelease, gate
<1>10. CASE close
  BY <1>10, CloseIInv
<1>11. CASE growOlder
  BY <1>8, <1>11 DEF growOlder
<1>12. CASE UNCHANGED assetVars
  BY <1>8, <1>12 DEF assetVars
<1> QED
  BY <1>1, <1>2, <1>3, <1>4, <1>5, <1>6, <1>7, <1>9, <1>10, <1>11, <1>12 DEF AssetNext

\* While a write runs nothing else runs on its key, for any number of calls,
\* priorities and state objects, under every policy, although a microtask drops
\* and the next call creates the state object of the key.
THEOREM WritesRunAlone ==
  AssetSpec => []WritersExclusive
<1>1. AssetInit => IInv
  BY InitIInv
<1>2. IInv /\ [AssetNext]_assetVars => IInv'
  BY NextIInv
<1>3. IInv => WritersExclusive
  BY DEF IInv
<1> QED
  BY <1>1, <1>2, <1>3, PTL DEF AssetSpec

-----------------------------------------------------------------------------
(***************************************************************************)
(* KeyedGate, the work queue of a key, implements FifoSemaphore.  The      *)
(* invariant says that the counter of the queue in the map is the number   *)
(* of running calls and that nobody waits next to a free slot; the second   *)
(* is what makes the drain of a refused call a stuttering step.            *)
(***************************************************************************)
CONSTANTS Queues, NoQueue, MaxConcurrency
VARIABLES pending, inFlight

Keyed == INSTANCE KeyedGate

RunningIn(s) == {t \in Tasks : s[t] = "running"}
CallStates == {"idle", "pending", "running"}

KeyedTypes ==
  /\ closed \in BOOLEAN
  /\ cur \in Queues \cup {NoQueue}
  /\ pending \in [Queues -> Seq(Tasks)]
  /\ inFlight \in [Queues -> Nat]
  /\ st \in [Tasks -> CallStates]
  /\ at \in [Tasks -> Queues \cup {NoQueue}]

\* A pending or running call is on the queue in the map.
CallsOnCurrent == \A t \in Tasks : st[t] \in {"pending", "running"} => at[t] = cur /\ cur # NoQueue

\* A queue holds the calls pending on it, each once.
PendingHold ==
  \A q \in Queues :
    /\ Once(pending[q])
    /\ \A t \in Tasks : In(pending[q], t) <=> st[t] = "pending" /\ at[t] = q

\* The counters are right: the queue in the map counts what runs.
Counted ==
  /\ IsFiniteSet(RunningIn(st))
  /\ \A q \in Queues : inFlight[q] = IF q = cur THEN Cardinality(RunningIn(st)) ELSE 0

\* Nobody waits next to a free slot.
NoRoomLeft ==
  ~closed => \A q \in Queues : pending[q] = <<>> \/ inFlight[q] >= MaxConcurrency

KeyedInv == KeyedTypes /\ CallsOnCurrent /\ PendingHold /\ Counted /\ NoRoomLeft

LEMMA NobodyIn ==
  ASSUME NEW p \in Seq(Tasks), \A t \in Tasks : ~In(p, t)
  PROVE  p = <<>>
<1>1. ASSUME Len(p) # 0 PROVE FALSE
  <2>1. 1 \in 1..Len(p) /\ p[1] \in Tasks
    BY <1>1
  <2> QED
    BY <2>1 DEF In
<1> QED
  BY <1>1

\* What holds when queue q, with pending calls p and counter n, is drained while
\* the calls are in the states s.
BeforeDrain(q, p, n, s) ==
  /\ closed \in BOOLEAN /\ closed' = closed
  /\ pending \in [Queues -> Seq(Tasks)] /\ inFlight \in [Queues -> Nat]
  /\ at' \in [Tasks -> Queues \cup {NoQueue}]
  /\ q \in Queues /\ cur' = q
  /\ p \in Seq(Tasks) /\ Once(p)
  /\ s \in [Tasks -> CallStates]
  /\ IsFiniteSet(RunningIn(s)) /\ n = Cardinality(RunningIn(s))
  /\ \A t \in Tasks : s[t] \in {"pending", "running"} => at'[t] = q
  /\ \A t \in Tasks : In(p, t) <=> s[t] = "pending"
  /\ \A o \in Queues \ {q} : pending[o] = <<>> /\ inFlight[o] = 0

\* How many FifoSemaphore admits from a queue of the given length next to n calls.
Entering(n, len) ==
  LET room == IF ~closed /\ n < MaxConcurrency THEN MaxConcurrency - n ELSE 0
  IN  IF room < len THEN room ELSE len

LEMMA SameCardinality == \A S : Keyed!Semaphore!Cardinality(S) = Cardinality(S)
BY Zenon DEF Keyed!Semaphore!Cardinality, Cardinality

\* Drain counts as FifoSemaphore admits.
LEMMA DrainAdmits ==
  ASSUME MaxConcurrency \in Nat, NoQueue \notin Queues, NEW q, NEW p, NEW n, NEW s,
         BeforeDrain(q, p, n, s), Keyed!Drain(q, p, n, s)
  PROVE  /\ KeyedInv'
         /\ RunningIn(st') = RunningIn(s) \cup {p[i] : i \in 1..Entering(n, Len(p))}
         /\ pending'[q] = SubSeq(p, Entering(n, Len(p)) + 1, Len(p))
         /\ (p = <<>> \/ closed \/ n >= MaxConcurrency) =>
              RunningIn(st') = RunningIn(s) /\ pending'[q] = p
<1> USE DEF BeforeDrain
<1> DEFINE k == Keyed!Count(p, n)
           started == {p[i] : i \in 1..k}
           rest == SubSeq(p, k + 1, Len(p))
           R == RunningIn(s)
<1>1. n \in Nat /\ IsFiniteSet(R) /\ Cardinality(R) = n
  BY FS_CardinalityType
<1>2. Len(p) \in Nat
  OBVIOUS
<1>3. /\ k \in 0..Len(p)
      /\ k = 0 \/ (~closed /\ n + k <= MaxConcurrency)
      /\ ~closed => k = Len(p) \/ n + k >= MaxConcurrency
      /\ (p = <<>> \/ closed \/ n >= MaxConcurrency) => k = 0
  BY <1>1, <1>2 DEF Keyed!Count, Keyed!Room, Keyed!Least
<1>4. /\ pending' = [pending EXCEPT ![q] = rest]
      /\ inFlight' = [inFlight EXCEPT ![q] = n + k]
      /\ st' = [t \in Tasks |-> IF \E i \in 1..k : p[i] = t THEN "running" ELSE s[t]]
  BY Zenon DEF Keyed!Drain
<1>0. k = IF closed THEN 0
          ELSE LET room == IF n < MaxConcurrency THEN MaxConcurrency - n ELSE 0
               IN  IF room < Len(p) THEN room ELSE Len(p)
  BY DEF Keyed!Count, Keyed!Room, Keyed!Least
<1> HIDE DEF k
<1>5. /\ rest \in Seq(Tasks) /\ Once(rest) /\ started \subseteq Tasks
      /\ \A u \in Tasks : In(rest, u) <=> In(p, u) /\ u \notin started
      /\ IsFiniteSet(started) /\ Cardinality(started) = k
  <2>1. k \in 0..Len(p) /\ p \in Seq(Tasks) /\ Once(p)
    BY <1>3
  <2>2. started = FirstOf(p, k) /\ rest = RestOf(p, k)
    BY Zenon DEF FirstOf, RestOf
  <2> HIDE DEF started, rest
  <2> QED
    BY <2>1, <2>2, Behind
<1>6. \A t : t \in started <=> \E i \in 1..k : p[i] = t
  OBVIOUS
<1>7. Len(rest) = Len(p) - k
  BY <1>3
<1>8. k = 0 => rest = p /\ started = {}
  <2> SUFFICES ASSUME k = 0 PROVE rest = p /\ started = {}
    OBVIOUS
  <2>1. started = {}
    OBVIOUS
  <2>2. rest = SubSeq(p, 1, Len(p))
    OBVIOUS
  <2> QED
    BY <2>1, <2>2
<1> HIDE DEF started, rest
<1>9. \A t \in started : In(p, t)
  BY <1>3, <1>6 DEF In
<1>10. \A t \in started : t \in Tasks /\ s[t] = "pending" /\ at'[t] = q
  BY <1>5, <1>9
<1>11. /\ st' \in [Tasks -> CallStates]
       /\ \A t \in started : st'[t] = "running"
       /\ \A t \in Tasks \ started : st'[t] = s[t]
  BY <1>4, <1>5, <1>6 DEF CallStates
<1>12. RunningIn(st') = R \cup started
  BY <1>5, <1>11 DEF RunningIn
<1>13. /\ pending' \in [Queues -> Seq(Tasks)] /\ pending'[q] = rest
       /\ inFlight' \in [Queues -> Nat] /\ inFlight'[q] = n + k
       /\ \A o \in Queues \ {q} : pending'[o] = <<>> /\ inFlight'[o] = 0
  BY <1>1, <1>3, <1>4, <1>5
<1>14. IsFiniteSet(R \cup started) /\ Cardinality(R \cup started) = n + k
  <2>1. R \cap started = {}
    BY <1>10 DEF RunningIn
  <2> HIDE DEF R
  <2>2. /\ IsFiniteSet(R \cup started)
        /\ Cardinality(R \cup started) =
             Cardinality(R) + Cardinality(started) - Cardinality(R \cap started)
    BY <1>1, <1>5, FS_Union
  <2>3. Cardinality(R \cap started) = 0
    BY <2>1, FS_EmptySet
  <2> QED
    BY <1>1, <1>3, <1>5, <2>2, <2>3
<1>15. KeyedTypes'
  BY <1>11, <1>13 DEF KeyedTypes
<1>16. CallsOnCurrent'
  BY <1>10, <1>11 DEF CallsOnCurrent
<1>17. PendingHold'
  <2> SUFFICES ASSUME NEW o \in Queues
               PROVE  /\ Once(pending'[o])
                      /\ \A t \in Tasks : In(pending'[o], t) <=> st'[t] = "pending" /\ at'[t] = o
    BY DEF PendingHold, Once, In
  <2>1. CASE o = q
    <3>1. Once(pending'[o]) /\ \A t \in Tasks : In(pending'[o], t) <=> In(p, t) /\ t \notin started
      BY <1>5, <1>13, <2>1
    <3>2. ASSUME NEW t \in Tasks PROVE In(p, t) /\ t \notin started <=> st'[t] = "pending" /\ at'[t] = o
      BY <1>10, <1>11, <2>1
    <3> QED
      BY <3>1, <3>2
  <2>2. CASE o # q
    <3>1. Once(pending'[o]) /\ \A t \in Tasks : ~In(pending'[o], t)
      BY <1>13, <2>2 DEF Once, In
    <3>2. ASSUME NEW t \in Tasks, st'[t] = "pending" PROVE at'[t] = q
      BY <1>10, <1>11, <3>2
    <3> QED
      BY <2>2, <3>1, <3>2
  <2> QED
    BY <2>1, <2>2
<1>18. Counted'
  BY <1>12, <1>13, <1>14 DEF Counted, RunningIn
<1>19. NoRoomLeft'
  <2> SUFFICES ASSUME ~closed, NEW o \in Queues
               PROVE  pending'[o] = <<>> \/ inFlight'[o] >= MaxConcurrency
    BY DEF NoRoomLeft
  <2>1. CASE o = q /\ k = Len(p)
    BY <1>5, <1>7, <1>13, <2>1
  <2>2. CASE o = q /\ k # Len(p)
    BY <1>3, <1>13, <2>2
  <2>3. CASE o # q
    BY <1>13, <2>3
  <2> QED
    BY <2>1, <2>2, <2>3
<1>20. k = Entering(n, Len(p))
  BY <1>0, <1>1, <1>2 DEF Entering
<1>22. RunningIn(st') = R \cup {p[i] : i \in 1..k} /\ pending'[q] = SubSeq(p, k + 1, Len(p))
  BY <1>12, <1>13 DEF started, rest
<1>21. (p = <<>> \/ closed \/ n >= MaxConcurrency) => RunningIn(st') = R /\ pending'[q] = p
  BY <1>3, <1>8, <1>12, <1>13
<1> QED
  BY <1>15, <1>16, <1>17, <1>18, <1>19, <1>20, <1>21, <1>22 DEF KeyedInv

\* What the callers of FifoSemaphore see.
SemaphoreView ==
  <<{t \in Tasks : st[t] = "running"}, IF cur = NoQueue THEN <<>> ELSE pending[cur], ~closed>>

LEMMA KeyedInit ==
  ASSUME NoQueue \notin Queues, Keyed!Init
  PROVE  KeyedInv /\ Keyed!Semaphore!Init
<1>1. RunningIn(st) = {}
  <2>1. \A t \in Tasks : st[t] = "idle"
    BY DEF Keyed!Init
  <2> QED
    BY <2>1 DEF RunningIn
<1>8. closed \in BOOLEAN
  BY Zenon DEF Keyed!Init
<1>2. KeyedTypes
  BY <1>8 DEF Keyed!Init, KeyedTypes, CallStates
<1>3. CallsOnCurrent
  BY DEF Keyed!Init, CallsOnCurrent
<1>4. PendingHold
  BY DEF Keyed!Init, PendingHold, Once, In
<1>5. Counted
  BY <1>1, FS_EmptySet DEF Keyed!Init, Counted
<1>6. NoRoomLeft
  BY DEF Keyed!Init, NoRoomLeft
<1>7. Keyed!Semaphore!Init
  BY DEF Keyed!Init, Keyed!Semaphore!Init
<1> QED
  BY <1>2, <1>3, <1>4, <1>5, <1>6, <1>7 DEF KeyedInv

\* The queue a call is made on: it counts what runs, and its pending calls are
\* those the semaphore has waiting.
LEMMA QueueForOne ==
  ASSUME KeyedInv, NoQueue \notin Queues, NEW q \in Queues, Keyed!QueueFor(q)
  PROVE  /\ \A t \in Tasks : st[t] \in {"pending", "running"} => at[t] = q
         /\ pending[q] \in Seq(Tasks) /\ Once(pending[q])
         /\ \A t \in Tasks : In(pending[q], t) <=> st[t] = "pending"
         /\ IsFiniteSet(RunningIn(st)) /\ inFlight[q] = Cardinality(RunningIn(st))
         /\ \A o \in Queues \ {q} : pending[o] = <<>> /\ inFlight[o] = 0
         /\ pending[q] = IF cur = NoQueue THEN <<>> ELSE pending[cur]
<1>1. \A t \in Tasks : st[t] \in {"pending", "running"} => at[t] = q
  BY DEF KeyedInv, CallsOnCurrent, Keyed!QueueFor
<1>2. /\ \A o \in Queues : pending[o] \in Seq(Tasks) /\ Once(pending[o])
      /\ \A o \in Queues : \A t \in Tasks : In(pending[o], t) <=> st[t] = "pending" /\ at[t] = o
  BY DEF KeyedInv, PendingHold, KeyedTypes
<1>3. /\ \A t \in Tasks : In(pending[q], t) <=> st[t] = "pending"
      /\ pending[q] \in Seq(Tasks) /\ Once(pending[q])
  BY <1>1, <1>2
<1>4. ASSUME NEW o \in Queues \ {q} PROVE pending[o] = <<>>
  <2>1. pending[o] \in Seq(Tasks) /\ \A t \in Tasks : ~In(pending[o], t)
    BY <1>1, <1>2
  <2> QED
    BY <2>1, NobodyIn
<1>5. cur = NoQueue \/ cur = q
  BY DEF Keyed!QueueFor
<1>6. /\ IsFiniteSet(RunningIn(st))
      /\ \A o \in Queues : inFlight[o] = IF o = cur THEN Cardinality(RunningIn(st)) ELSE 0
  BY DEF KeyedInv, Counted
<1>7. \A o \in Queues \ {q} : inFlight[o] = 0
  BY <1>5, <1>6
<1>8. CASE cur = NoQueue
  <2>1. \A t \in Tasks : st[t] \notin {"pending", "running"}
    BY <1>8 DEF KeyedInv, CallsOnCurrent
  <2>2. RunningIn(st) = {}
    BY <2>1 DEF RunningIn
  <2>3. pending[q] = <<>>
    <3>1. \A t \in Tasks : ~In(pending[q], t)
      BY <1>3, <2>1
    <3> QED
      BY <1>3, <3>1, NobodyIn
  <2>4. inFlight[q] = Cardinality(RunningIn(st))
    BY <1>6, <2>2, FS_EmptySet
  <2> QED
    BY <1>1, <1>3, <1>4, <1>6, <1>7, <1>8, <2>3, <2>4
<1>9. CASE cur # NoQueue
  <2>1. cur = q /\ inFlight[q] = Cardinality(RunningIn(st))
    BY <1>5, <1>6, <1>9
  <2> QED
    BY <1>1, <1>3, <1>4, <1>6, <1>7, <1>9, <2>1
<1> QED
  BY <1>8, <1>9

\* A drain of the queue as it is starts nobody.
LEMMA KeyedDrainAsIs ==
  ASSUME KeyedInv, MaxConcurrency \in Nat, NoQueue \notin Queues,
         NEW q \in Queues, Keyed!QueueFor(q), cur' = q, at' = at, closed' = closed,
         Keyed!Drain(q, pending[q], inFlight[q], st)
  PROVE  KeyedInv' /\ SemaphoreView' = SemaphoreView
<1> DEFINE p == pending[q]
           n == inFlight[q]
<1>1. /\ \A t \in Tasks : st[t] \in {"pending", "running"} => at'[t] = q
      /\ p \in Seq(Tasks) /\ Once(p)
      /\ \A t \in Tasks : In(p, t) <=> st[t] = "pending"
      /\ IsFiniteSet(RunningIn(st)) /\ n = Cardinality(RunningIn(st))
  BY QueueForOne
<1>2. /\ \A o \in Queues \ {q} : pending[o] = <<>> /\ inFlight[o] = 0
      /\ p = IF cur = NoQueue THEN <<>> ELSE pending[cur]
  BY QueueForOne
<1>3. /\ closed \in BOOLEAN /\ pending \in [Queues -> Seq(Tasks)]
      /\ inFlight \in [Queues -> Nat] /\ st \in [Tasks -> CallStates]
      /\ at' \in [Tasks -> Queues \cup {NoQueue}]
  BY DEF KeyedInv, KeyedTypes
<1>4. p = <<>> \/ closed \/ n >= MaxConcurrency
  BY DEF KeyedInv, NoRoomLeft
<1>5. Keyed!Drain(q, p, n, st)
  OBVIOUS
<1> HIDE DEF p, n
<1>8. BeforeDrain(q, p, n, st)
  BY <1>1, <1>2, <1>3 DEF BeforeDrain
<1>6. KeyedInv' /\ RunningIn(st') = RunningIn(st) /\ pending'[q] = p
  BY <1>4, <1>5, <1>8, DrainAdmits, Zenon
<1>7. SemaphoreView' = SemaphoreView
  BY <1>2, <1>6 DEF SemaphoreView, RunningIn
<1> QED
  BY <1>6, <1>7

LEMMA KeyedRun ==
  ASSUME KeyedInv, MaxConcurrency \in Nat, NoQueue \notin Queues,
         NEW t \in Tasks, NEW q \in Queues, Keyed!run(t, q)
  PROVE  KeyedInv' /\ (Keyed!Semaphore!Arrive(t) \/ SemaphoreView' = SemaphoreView)
<1> DEFINE refused ==
             /\ t \in NoWait
             /\ Keyed!Count(Keyed!Enqueued(pending[q], t), inFlight[q]) <= Len(pending[q])
           n == inFlight[q]
           p == Append(pending[q], t)
           s == [st EXCEPT ![t] = "pending"]
<1>1. st[t] = "idle" /\ ~closed /\ Keyed!QueueFor(q) /\ cur' = q /\ closed' = closed
  BY DEF Keyed!run
<1>2. CASE refused
  <2>1. Keyed!Drain(q, pending[q], inFlight[q], st) /\ at' = at
    BY <1>2 DEF Keyed!run
  <2> QED
    BY <1>1, <2>1, KeyedDrainAsIs
<1>3. CASE ~refused
  <2>1. at' = [at EXCEPT ![t] = q] /\ Keyed!Drain(q, p, n, s)
    BY <1>3 DEF Keyed!run, Keyed!Enqueued
  <2>2. /\ \A u \in Tasks : st[u] \in {"pending", "running"} => at[u] = q
        /\ pending[q] \in Seq(Tasks) /\ Once(pending[q])
        /\ \A u \in Tasks : In(pending[q], u) <=> st[u] = "pending"
    BY <1>1, QueueForOne
  <2>3. /\ IsFiniteSet(RunningIn(st)) /\ n = Cardinality(RunningIn(st))
        /\ \A o \in Queues \ {q} : pending[o] = <<>> /\ inFlight[o] = 0
        /\ pending[q] = IF cur = NoQueue THEN <<>> ELSE pending[cur]
    BY <1>1, QueueForOne
  <2>4. /\ closed \in BOOLEAN /\ pending \in [Queues -> Seq(Tasks)]
        /\ inFlight \in [Queues -> Nat] /\ st \in [Tasks -> CallStates]
        /\ at \in [Tasks -> Queues \cup {NoQueue}]
    BY DEF KeyedInv, KeyedTypes
  <2>5. /\ p \in Seq(Tasks) /\ Len(p) = Len(pending[q]) + 1 /\ p[Len(p)] = t
        /\ \A i \in 1..Len(pending[q]) : p[i] = pending[q][i]
    BY <2>2
  <2>6. ~In(pending[q], t)
    BY <1>1, <2>2
  <2> HIDE DEF p, n
  <2>7. Once(p)
    BY <2>2, <2>5, <2>6 DEF Once, In
  <2>8. ASSUME NEW u \in Tasks PROVE In(p, u) <=> In(pending[q], u) \/ u = t
    <3>1. ASSUME NEW i \in 1..Len(p), p[i] = u PROVE In(pending[q], u) \/ u = t
      BY <2>2, <2>5, <3>1 DEF In
    <3>2. ASSUME NEW i \in 1..Len(pending[q]), pending[q][i] = u PROVE In(p, u)
      <4>1. i \in 1..Len(p) /\ p[i] = u
        BY <2>2, <2>5, <3>2
      <4> QED
        BY <4>1 DEF In
    <3>3. In(p, t)
      <4>1. Len(p) \in 1..Len(p)
        BY <2>2, <2>5
      <4> QED
        BY <2>5, <4>1 DEF In
    <3> QED
      BY <3>1, <3>2, <3>3 DEF In
  <2>9. /\ s \in [Tasks -> CallStates] /\ s[t] = "pending"
        /\ \A u \in Tasks \ {t} : s[u] = st[u]
    BY <2>4 DEF CallStates
  <2>10. /\ at' \in [Tasks -> Queues \cup {NoQueue}] /\ at'[t] = q
         /\ \A u \in Tasks \ {t} : at'[u] = at[u]
    BY <2>1, <2>4
  <2> HIDE DEF s
  <2>11. RunningIn(s) = RunningIn(st)
    BY <1>1, <2>9 DEF RunningIn
  <2>12. \A u \in Tasks : s[u] \in {"pending", "running"} => at'[u] = q
    BY <2>2, <2>9, <2>10
  <2>13. \A u \in Tasks : In(p, u) <=> s[u] = "pending"
    BY <2>2, <2>8, <2>9
  <2>14. /\ closed \in BOOLEAN /\ closed' = closed /\ pending \in [Queues -> Seq(Tasks)]
         /\ inFlight \in [Queues -> Nat] /\ at' \in [Tasks -> Queues \cup {NoQueue}] /\ cur' = q
    BY <1>1, <2>4, <2>10
  <2>15. /\ p \in Seq(Tasks) /\ Once(p) /\ s \in [Tasks -> CallStates]
         /\ IsFiniteSet(RunningIn(s)) /\ n = Cardinality(RunningIn(s))
         /\ Keyed!Drain(q, p, n, s)
    BY <2>1, <2>3, <2>5, <2>7, <2>9, <2>11
  <2>16. \A o \in Queues \ {q} : pending[o] = <<>> /\ inFlight[o] = 0
    BY <2>3
  <2>17. BeforeDrain(q, p, n, s)
    BY <2>12, <2>13, <2>14, <2>15, <2>16 DEF BeforeDrain
  <2> DEFINE W == IF cur = NoQueue THEN <<>> ELSE pending[cur]
             k == Entering(n, Len(p))
  <2>18. KeyedInv'
         /\ RunningIn(st') = RunningIn(s) \cup {p[i] : i \in 1..k}
         /\ pending'[q] = SubSeq(p, k + 1, Len(p))
    BY <2>15, <2>17, DrainAdmits, Zenon
  <2>19. /\ {u \in Tasks : st'[u] = "running"} =
              {u \in Tasks : st[u] = "running"} \cup {Append(W, t)[i] : i \in 1..k}
         /\ (IF cur' = NoQueue THEN <<>> ELSE pending'[cur']) =
              SubSeq(Append(W, t), k + 1, Len(Append(W, t)))
         /\ k = Entering(Keyed!Semaphore!Cardinality({u \in Tasks : st[u] = "running"}),
                         Len(Append(W, t)))
    <3>1. W = pending[q] /\ Append(W, t) = p
      BY <2>3 DEF p
    <3>2. {u \in Tasks : st[u] = "running"} = RunningIn(s)
      BY <2>11 DEF RunningIn
    <3>3. {u \in Tasks : st'[u] = "running"} = RunningIn(st')
      BY DEF RunningIn
    <3>4. (IF cur' = NoQueue THEN <<>> ELSE pending'[cur']) = pending'[q]
      BY <1>1
    <3>5. Keyed!Semaphore!Cardinality(RunningIn(s)) = n
      BY <2>15, SameCardinality
    <3>6. k = Entering(n, Len(p))
      OBVIOUS
    <3> HIDE DEF W, k
    <3>7. {Append(W, t)[i] : i \in 1..k} = {p[i] : i \in 1..k}
      BY <3>1
    <3>8. k = Entering(Keyed!Semaphore!Cardinality({u \in Tasks : st[u] = "running"}),
                       Len(Append(W, t)))
      BY <3>1, <3>2, <3>5, <3>6, Zenon
    <3>9. SubSeq(Append(W, t), k + 1, Len(Append(W, t))) = SubSeq(p, k + 1, Len(p))
      BY <3>1
    <3> QED
      BY <2>18, <3>2, <3>3, <3>4, <3>7, <3>8, <3>9, Zenon
  <2>20. t \notin {u \in Tasks : st[u] = "running"} /\ t \notin {W[i] : i \in DOMAIN W}
    <3>1. W = pending[q]
      BY <2>3
    <3> HIDE DEF W
    <3> QED
      BY <1>1, <2>2, <2>6, <3>1 DEF In
  <2>22. Keyed!Semaphore!Arrive(t)
    <3> HIDE DEF k
    <3> QED
      BY <1>1, <2>4, <2>19, <2>20
      DEF Keyed!Semaphore!Arrive, Keyed!Semaphore!Waiting, Keyed!Semaphore!Admit, Entering
  <2> QED
    BY <2>18, <2>22
<1> QED
  BY <1>2, <1>3

\* DrainAdmits, in the terms of FifoSemaphore.
LEMMA DrainSeen ==
  ASSUME MaxConcurrency \in Nat, NoQueue \notin Queues, NEW q, NEW p, NEW n, NEW s,
         BeforeDrain(q, p, n, s), Keyed!Drain(q, p, n, s)
  PROVE  LET k == Entering(Keyed!Semaphore!Cardinality(RunningIn(s)), Len(p))
         IN  /\ KeyedInv'
             /\ {u \in Tasks : st'[u] = "running"} = RunningIn(s) \cup {p[i] : i \in 1..k}
             /\ (IF cur' = NoQueue THEN <<>> ELSE pending'[cur']) = SubSeq(p, k + 1, Len(p))
<1> DEFINE k == Entering(Keyed!Semaphore!Cardinality(RunningIn(s)), Len(p))
<1>1. k = Entering(n, Len(p))
  BY SameCardinality, Zenon DEF BeforeDrain
<1>2. (IF cur' = NoQueue THEN <<>> ELSE pending'[cur']) = pending'[q]
  BY DEF BeforeDrain
<1>3. {u \in Tasks : st'[u] = "running"} = RunningIn(st')
  BY DEF RunningIn
<1>4. /\ KeyedInv'
      /\ RunningIn(st') = RunningIn(s) \cup {p[i] : i \in 1..Entering(n, Len(p))}
      /\ pending'[q] = SubSeq(p, Entering(n, Len(p)) + 1, Len(p))
  BY DrainAdmits, Zenon
<1> HIDE DEF k
<1>5. /\ KeyedInv'
      /\ {u \in Tasks : st'[u] = "running"} = RunningIn(s) \cup {p[i] : i \in 1..k}
      /\ (IF cur' = NoQueue THEN <<>> ELSE pending'[cur']) = SubSeq(p, k + 1, Len(p))
  BY <1>1, <1>2, <1>3, <1>4, Zenon
<1> QED
  BY <1>5, Zenon DEF k

\* A pending or running call is on the queue in the map, a queue.
LEMMA OnCurrent ==
  ASSUME KeyedInv, NEW t \in Tasks, st[t] \in {"pending", "running"}
  PROVE  at[t] \in Queues /\ at[t] = cur /\ cur # NoQueue /\ Keyed!QueueFor(at[t])
<1>1. at[t] = cur /\ cur # NoQueue /\ cur \in Queues
  BY DEF KeyedInv, CallsOnCurrent, KeyedTypes
<1> QED
  BY <1>1 DEF Keyed!QueueFor

LEMMA KeyedFinish ==
  ASSUME KeyedInv, MaxConcurrency \in Nat, NoQueue \notin Queues,
         NEW t \in Tasks, Keyed!finish(t)
  PROVE  KeyedInv' /\ Keyed!Semaphore!Leave(t)
<1> DEFINE q == at[t]
           p == pending[q]
           n == inFlight[q] - 1
           s == [st EXCEPT ![t] = "idle"]
           R == {u \in Tasks : st[u] = "running"} \ {t}
           W == IF cur = NoQueue THEN <<>> ELSE pending[cur]
<1>1. /\ st[t] = "running" /\ at' = [at EXCEPT ![t] = NoQueue]
      /\ Keyed!Drain(q, p, n, s) /\ closed' = closed /\ cur' = cur
  BY DEF Keyed!finish
<1>2. q \in Queues /\ q = cur /\ cur # NoQueue /\ Keyed!QueueFor(q)
  BY <1>1, OnCurrent
<1> HIDE DEF q
<1>3. /\ \A u \in Tasks : st[u] \in {"pending", "running"} => at[u] = q
      /\ p \in Seq(Tasks) /\ Once(p)
      /\ \A u \in Tasks : In(p, u) <=> st[u] = "pending"
      /\ IsFiniteSet(RunningIn(st)) /\ inFlight[q] = Cardinality(RunningIn(st))
      /\ \A o \in Queues \ {q} : pending[o] = <<>> /\ inFlight[o] = 0
  BY <1>2, QueueForOne
<1>4. /\ closed \in BOOLEAN /\ pending \in [Queues -> Seq(Tasks)]
      /\ inFlight \in [Queues -> Nat] /\ st \in [Tasks -> CallStates]
      /\ at \in [Tasks -> Queues \cup {NoQueue}]
  BY DEF KeyedInv, KeyedTypes
<1>5. /\ s \in [Tasks -> CallStates] /\ s[t] = "idle"
      /\ \A u \in Tasks \ {t} : s[u] = st[u]
  BY <1>4 DEF CallStates
<1>6. /\ at' \in [Tasks -> Queues \cup {NoQueue}]
      /\ \A u \in Tasks \ {t} : at'[u] = at[u]
  BY <1>1, <1>4
<1>7. W = p
  BY <1>2
<1> HIDE DEF s, p, W
<1>8. RunningIn(s) = RunningIn(st) \ {t} /\ t \in RunningIn(st) /\ RunningIn(s) = R
  BY <1>1, <1>5 DEF RunningIn
<1>9. IsFiniteSet(RunningIn(s)) /\ n = Cardinality(RunningIn(s))
  <2>1. /\ IsFiniteSet(RunningIn(st) \ {t})
        /\ Cardinality(RunningIn(st) \ {t}) = Cardinality(RunningIn(st)) - 1
    BY <1>3, <1>8, FS_RemoveElement
  <2> QED
    BY <1>3, <1>8, <2>1
<1> HIDE DEF n, R
<1>10. /\ \A u \in Tasks : s[u] \in {"pending", "running"} => at'[u] = q
       /\ \A u \in Tasks : In(p, u) <=> s[u] = "pending"
  BY <1>1, <1>3, <1>5, <1>6
<1>11. BeforeDrain(q, p, n, s)
  BY <1>1, <1>2, <1>3, <1>4, <1>5, <1>6, <1>9, <1>10 DEF BeforeDrain
<1> DEFINE k == Entering(Keyed!Semaphore!Cardinality(R), Len(W))
<1>12. /\ KeyedInv'
       /\ {u \in Tasks : st'[u] = "running"} = R \cup {W[i] : i \in 1..k}
       /\ (IF cur' = NoQueue THEN <<>> ELSE pending'[cur']) = SubSeq(W, k + 1, Len(W))
  <2>1. Keyed!Drain(q, p, n, s)
    BY <1>1
  <2> DEFINE j == Entering(Keyed!Semaphore!Cardinality(RunningIn(s)), Len(p))
  <2>2. /\ KeyedInv'
        /\ {u \in Tasks : st'[u] = "running"} = RunningIn(s) \cup {p[i] : i \in 1..j}
        /\ (IF cur' = NoQueue THEN <<>> ELSE pending'[cur']) = SubSeq(p, j + 1, Len(p))
    BY <1>11, <2>1, DrainSeen, Zenon
  <2>3. j = k
    BY <1>7, <1>8, Zenon
  <2> HIDE DEF j, k
  <2> QED
    BY <1>7, <1>8, <2>2, <2>3
<1>13. t \in {u \in Tasks : st[u] = "running"}
  BY <1>1
<1>14. k = Entering(Keyed!Semaphore!Cardinality(R), Len(W))
  OBVIOUS
<1> HIDE DEF k
<1>15. Keyed!Semaphore!Leave(t)
  BY <1>1, <1>4, <1>12, <1>13, <1>14
  DEF Keyed!Semaphore!Leave, Keyed!Semaphore!Admit, Entering, R, W
<1> QED
  BY <1>12, <1>15

LEMMA KeyedCancel ==
  ASSUME KeyedInv, MaxConcurrency \in Nat, NoQueue \notin Queues,
         NEW t \in Tasks, Keyed!cancelTask(t)
  PROVE  KeyedInv' /\ Keyed!Semaphore!GiveUp(t)
<1> DEFINE q == at[t]
           p == Keyed!Without(pending[q], t)
           n == inFlight[q]
           s == [st EXCEPT ![t] = "idle"]
           R == {u \in Tasks : st[u] = "running"}
           W == IF cur = NoQueue THEN <<>> ELSE pending[cur]
           c == CHOOSE i \in DOMAIN pending[q] : pending[q][i] = t
           Z == SubSeq(W, 1, c - 1) \o SubSeq(W, c + 1, Len(W))
<1>1. /\ st[t] = "pending" /\ at' = [at EXCEPT ![t] = NoQueue]
      /\ Keyed!Drain(q, p, n, s) /\ closed' = closed /\ cur' = cur
  BY DEF Keyed!cancelTask
<1>2. q \in Queues /\ q = cur /\ cur # NoQueue /\ Keyed!QueueFor(q)
  BY <1>1, OnCurrent
<1> HIDE DEF q
<1>3. /\ \A u \in Tasks : st[u] \in {"pending", "running"} => at[u] = q
      /\ pending[q] \in Seq(Tasks) /\ Once(pending[q])
      /\ \A u \in Tasks : In(pending[q], u) <=> st[u] = "pending"
      /\ IsFiniteSet(RunningIn(st)) /\ n = Cardinality(RunningIn(st))
      /\ \A o \in Queues \ {q} : pending[o] = <<>> /\ inFlight[o] = 0
  BY <1>2, QueueForOne
<1>4. /\ closed \in BOOLEAN /\ pending \in [Queues -> Seq(Tasks)]
      /\ inFlight \in [Queues -> Nat] /\ st \in [Tasks -> CallStates]
      /\ at \in [Tasks -> Queues \cup {NoQueue}]
  BY DEF KeyedInv, KeyedTypes
<1>5. /\ s \in [Tasks -> CallStates] /\ s[t] = "idle"
      /\ \A u \in Tasks \ {t} : s[u] = st[u]
  BY <1>4 DEF CallStates
<1>6. /\ at' \in [Tasks -> Queues \cup {NoQueue}]
      /\ \A u \in Tasks \ {t} : at'[u] = at[u]
  BY <1>1, <1>4
<1>7. c \in 1..Len(pending[q]) /\ pending[q][c] = t
  BY <1>1, <1>3 DEF In
<1>8. p = SubSeq(pending[q], 1, c - 1) \o SubSeq(pending[q], c + 1, Len(pending[q]))
  BY DEF Keyed!Without
<1>9. W = pending[q]
  BY <1>2
<1> HIDE DEF c, s, p, n
<1>10. p = Z
  BY <1>8, <1>9
<1>11. /\ p \in Seq(Tasks) /\ Once(p)
       /\ \A u \in Tasks : In(p, u) <=> In(pending[q], u) /\ u # t
  <2> DEFINE r == SubSeq(pending[q], 1, c - 1) \o SubSeq(pending[q], c + 1, Len(pending[q]))
  <2>1. /\ r \in Seq(Tasks) /\ Once(r)
        /\ \A u \in Tasks : In(r, u) <=> In(pending[q], u) /\ u # t
    <3>1. pending[q] \in Seq(Tasks) /\ Once(pending[q])
      BY <1>3
    <3> QED
      BY <1>7, <3>1, CutOut, Zenon
  <2>2. p = r
    BY <1>8
  <2> HIDE DEF r
  <2> QED
    BY <2>1, <2>2
<1> HIDE DEF W, Z
<1>12. RunningIn(s) = RunningIn(st) /\ RunningIn(s) = R
  BY <1>1, <1>5 DEF RunningIn
<1> HIDE DEF R
<1>13. /\ \A u \in Tasks : s[u] \in {"pending", "running"} => at'[u] = q
       /\ \A u \in Tasks : In(p, u) <=> s[u] = "pending"
  BY <1>1, <1>3, <1>5, <1>6, <1>11
<1>14. BeforeDrain(q, p, n, s)
  BY <1>1, <1>2, <1>3, <1>4, <1>5, <1>6, <1>11, <1>12, <1>13 DEF BeforeDrain
<1> DEFINE k == Entering(Keyed!Semaphore!Cardinality(R), Len(Z))
<1>15. /\ KeyedInv'
       /\ {u \in Tasks : st'[u] = "running"} = R \cup {Z[i] : i \in 1..k}
       /\ (IF cur' = NoQueue THEN <<>> ELSE pending'[cur']) = SubSeq(Z, k + 1, Len(Z))
  <2>1. Keyed!Drain(q, p, n, s)
    BY <1>1
  <2> DEFINE j == Entering(Keyed!Semaphore!Cardinality(RunningIn(s)), Len(p))
  <2>2. /\ KeyedInv'
        /\ {u \in Tasks : st'[u] = "running"} = RunningIn(s) \cup {p[i] : i \in 1..j}
        /\ (IF cur' = NoQueue THEN <<>> ELSE pending'[cur']) = SubSeq(p, j + 1, Len(p))
    BY <1>14, <2>1, DrainSeen, Zenon
  <2>3. j = k
    BY <1>10, <1>12, Zenon
  <2> HIDE DEF j, k
  <2> QED
    BY <1>10, <1>12, <2>2, <2>3
<1>16. c \in DOMAIN W /\ W[c] = t
  BY <1>3, <1>7, <1>9
<1>17. k = Entering(Keyed!Semaphore!Cardinality(R), Len(Z))
  OBVIOUS
<1> HIDE DEF k
<1>18. Keyed!Semaphore!GiveUp(t)
  BY <1>1, <1>4, <1>15, <1>16, <1>17
  DEF Keyed!Semaphore!GiveUp, Keyed!Semaphore!Admit, Entering, R, Z, W
<1> QED
  BY <1>15, <1>18

LEMMA KeyedClose ==
  ASSUME KeyedInv, NoQueue \notin Queues, Keyed!close
  PROVE  KeyedInv' /\ Keyed!Semaphore!Close
<1> DEFINE canceled == {t \in Tasks : st[t] = "pending" /\ at[t] = cur}
<1>1. /\ ~closed /\ closed' = TRUE /\ cur' = cur /\ inFlight' = inFlight
      /\ st' = [t \in Tasks |-> IF t \in canceled THEN "idle" ELSE st[t]]
      /\ at' = [t \in Tasks |-> IF t \in canceled THEN NoQueue ELSE at[t]]
      /\ pending' = [q \in Queues |-> IF q = cur THEN <<>> ELSE pending[q]]
  BY DEF Keyed!close
<1>2. \A t \in Tasks : t \in canceled <=> st[t] = "pending"
  BY DEF KeyedInv, CallsOnCurrent
<1> HIDE DEF canceled
<1>3. \A t \in Tasks : /\ st'[t] # "pending"
                       /\ st'[t] = "running" <=> st[t] = "running"
                       /\ st[t] = "running" => at'[t] = at[t]
  BY <1>1, <1>2
<1>4. KeyedTypes'
  <2>1. closed' \in BOOLEAN
    BY <1>1, Zenon
  <2>2. /\ cur' \in Queues \cup {NoQueue} /\ pending' \in [Queues -> Seq(Tasks)]
        /\ inFlight' \in [Queues -> Nat] /\ st' \in [Tasks -> CallStates]
        /\ at' \in [Tasks -> Queues \cup {NoQueue}]
    BY <1>1 DEF KeyedInv, KeyedTypes, CallStates
  <2> QED
    BY <2>1, <2>2 DEF KeyedTypes
<1>5. CallsOnCurrent'
  BY <1>1, <1>3 DEF KeyedInv, CallsOnCurrent
<1>6. ASSUME NEW q \in Queues PROVE pending'[q] = <<>>
  <2>1. CASE q = cur
    BY <1>1, <2>1
  <2>2. CASE q # cur
    <3>1. pending[q] \in Seq(Tasks) /\ \A t \in Tasks : ~In(pending[q], t)
      BY <2>2 DEF KeyedInv, KeyedTypes, PendingHold, CallsOnCurrent
    <3> QED
      BY <1>1, <2>2, <3>1, NobodyIn
  <2> QED
    BY <2>1, <2>2
<1>7. PendingHold'
  <2> SUFFICES ASSUME NEW q \in Queues
               PROVE  Once(pending'[q]) /\ \A t \in Tasks : ~In(pending'[q], t)
    BY <1>3 DEF PendingHold, Once, In
  <2> QED
    BY <1>6 DEF Once, In
<1>8. RunningIn(st') = RunningIn(st)
  BY <1>3 DEF RunningIn
<1>9. Counted'
  BY <1>1, <1>8 DEF KeyedInv, Counted, RunningIn
<1>10. NoRoomLeft'
  BY <1>1 DEF NoRoomLeft
<1>11. (IF cur' = NoQueue THEN <<>> ELSE pending'[cur']) = <<>>
  BY <1>1, <1>6 DEF KeyedInv, KeyedTypes
<1>12. Keyed!Semaphore!Close
  BY <1>1, <1>8, <1>11 DEF Keyed!Semaphore!Close, RunningIn
<1> QED
  BY <1>4, <1>5, <1>7, <1>9, <1>10, <1>12 DEF KeyedInv

LEMMA KeyedCleanup ==
  ASSUME KeyedInv, NoQueue \notin Queues, NEW q \in Queues, Keyed!cleanup(q)
  PROVE  KeyedInv' /\ SemaphoreView' = SemaphoreView
<1>1. /\ cur' = IF cur = q /\ inFlight[q] = 0 /\ pending[q] = <<>> THEN NoQueue ELSE cur
      /\ closed' = closed /\ pending' = pending /\ inFlight' = inFlight /\ st' = st /\ at' = at
  BY DEF Keyed!cleanup
<1>2. KeyedTypes' /\ PendingHold' /\ NoRoomLeft'
  BY <1>1 DEF KeyedInv, KeyedTypes, PendingHold, NoRoomLeft
<1>3. CASE cur' = cur
  <2>1. CallsOnCurrent' /\ Counted'
    BY <1>1, <1>3 DEF KeyedInv, CallsOnCurrent, Counted
  <2>2. SemaphoreView' = SemaphoreView
    BY <1>1, <1>3 DEF SemaphoreView
  <2> QED
    BY <1>2, <2>1, <2>2 DEF KeyedInv
<1>4. CASE cur = q /\ inFlight[q] = 0 /\ pending[q] = <<>> /\ cur' = NoQueue
  <2>1. IsFiniteSet(RunningIn(st)) /\ Cardinality(RunningIn(st)) = 0
    BY <1>4 DEF KeyedInv, Counted
  <2>2. RunningIn(st) = {}
    BY <2>1, FS_EmptySet
  <2>3. \A t \in Tasks : st[t] # "running"
    BY <2>2 DEF RunningIn
  <2>4. \A t \in Tasks : ~In(pending[q], t)
    BY <1>4 DEF In
  <2>5. \A t \in Tasks : st[t] # "pending"
    BY <1>4, <2>4 DEF KeyedInv, PendingHold, CallsOnCurrent
  <2>6. CallsOnCurrent'
    BY <1>1, <2>3, <2>5 DEF CallsOnCurrent
  <2>7. \A o \in Queues : inFlight[o] = 0
    BY <1>4 DEF KeyedInv, Counted
  <2>8. Counted'
    BY <1>1, <1>4, <2>1, <2>7 DEF Counted
  <2>9. SemaphoreView' = SemaphoreView
    BY <1>1, <1>4 DEF SemaphoreView
  <2> QED
    BY <1>2, <2>6, <2>8, <2>9 DEF KeyedInv
<1> QED
  BY <1>1, <1>3, <1>4

LEMMA KeyedStep ==
  ASSUME KeyedInv, MaxConcurrency \in Nat, NoQueue \notin Queues, [Keyed!Next]_Keyed!vars
  PROVE  KeyedInv' /\ (Keyed!Semaphore!Next \/ SemaphoreView' = SemaphoreView)
<1>1. ASSUME NEW t \in Tasks, NEW q \in Queues, Keyed!run(t, q)
      PROVE  KeyedInv' /\ (Keyed!Semaphore!Next \/ SemaphoreView' = SemaphoreView)
  BY <1>1, KeyedRun DEF Keyed!Semaphore!Next
<1>2. ASSUME NEW t \in Tasks, NEW q \in Queues, Keyed!runAborted(t, q)
      PROVE  KeyedInv' /\ SemaphoreView' = SemaphoreView
  <2>1. /\ Keyed!QueueFor(q) /\ cur' = q /\ at' = at /\ closed' = closed
        /\ Keyed!Drain(q, pending[q], inFlight[q], st)
    BY <1>2 DEF Keyed!runAborted
  <2> QED
    BY <2>1, KeyedDrainAsIs
<1>3. ASSUME NEW t \in Tasks, Keyed!finish(t) PROVE KeyedInv' /\ Keyed!Semaphore!Next
  BY <1>3, KeyedFinish DEF Keyed!Semaphore!Next
<1>4. ASSUME NEW t \in Tasks, Keyed!cancelTask(t) PROVE KeyedInv' /\ Keyed!Semaphore!Next
  BY <1>4, KeyedCancel DEF Keyed!Semaphore!Next
<1>5. ASSUME NEW q \in Queues, Keyed!cleanup(q) PROVE KeyedInv' /\ SemaphoreView' = SemaphoreView
  BY <1>5, KeyedCleanup
<1>6. CASE Keyed!close
  BY <1>6, KeyedClose DEF Keyed!Semaphore!Next
<1>7. CASE UNCHANGED Keyed!vars
  <2>1. UNCHANGED <<closed, cur, pending, inFlight, st, at>>
    BY <1>7 DEF Keyed!vars
  <2>2. SemaphoreView' = SemaphoreView
    BY <2>1 DEF SemaphoreView
  <2>3. KeyedTypes' /\ CallsOnCurrent' /\ PendingHold' /\ Counted' /\ NoRoomLeft'
    BY <2>1 DEF KeyedInv, KeyedTypes, CallsOnCurrent, PendingHold, Counted, NoRoomLeft
  <2> QED
    BY <2>2, <2>3 DEF KeyedInv
<1> QED
  BY <1>1, <1>2, <1>3, <1>4, <1>5, <1>6, <1>7 DEF Keyed!Next

\* However often the work queue of a key is dropped and created again, it is one
\* FIFO semaphore for its callers: the concurrency is bounded, calls start in
\* arrival order, and nobody waits next to a free slot.
THEOREM QueueIsOneSemaphore ==
  ASSUME MaxConcurrency \in Nat, NoQueue \notin Queues
  PROVE  Keyed!Spec => Keyed!QueueImplementsSemaphore
<1>1. Keyed!Init => KeyedInv /\ Keyed!Semaphore!Init
  BY KeyedInit
<1>2. KeyedInv /\ [Keyed!Next]_Keyed!vars => KeyedInv' /\ [Keyed!Semaphore!Next]_SemaphoreView
  BY KeyedStep
<1> QED
  BY <1>1, <1>2, PTL DEF Keyed!Spec, Keyed!QueueImplementsSemaphore, Keyed!Semaphore!Spec, SemaphoreView
=============================================================================
