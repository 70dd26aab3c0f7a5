------------------------ MODULE ControlServersProofs ------------------------
(***************************************************************************)
(* Proofs about ControlServers, for every finite set of sessions, every    *)
(* set of frames and every number of servers and of callers that resume.   *)
(***************************************************************************)
EXTENDS ControlServers, FiniteSetTheorems, TLAPS

\* The records of sess and srv.
Labels == {"idle", "lock", "lookup", "wait", "register", "return", "using",
           "release", "unlock", "close", "relock", "remove"}

SessType == [frame : Frames, ms : 0..MaxServers, deferred : Nat,
             then : {"idle", "using", "close"}, pc : Labels]

SrvType(C) == [refCount : C, stopping : BOOLEAN, stopped : BOOLEAN,
               open : BOOLEAN, frame : Frames]

\* What the map, the servers and the sessions say about each other.
Books == RefCountExact /\ HoldersServed /\ ClosersOwn /\ EntriesKnown /\ OpenTracked

\* Assigning a field of a session's record keeps its type.
LEMMA SessUpdate ==
    ASSUME NEW r \in SessType
    PROVE  /\ \A p \in Labels : [r EXCEPT !.pc = p] \in SessType
           /\ \A i \in 0..MaxServers : [r EXCEPT !.ms = i] \in SessType
           /\ \A n \in Nat : [r EXCEPT !.deferred = n] \in SessType
           /\ \A t \in {"idle", "using", "close"} : [r EXCEPT !.then = t] \in SessType
           /\ \A f \in Frames : [r EXCEPT !.frame = f] \in SessType
<1> USE DEF SessType
<1>1. \A p \in Labels : [r EXCEPT !.pc = p] \in SessType
  OBVIOUS
<1>2. \A i \in 0..MaxServers : [r EXCEPT !.ms = i] \in SessType
  OBVIOUS
<1>3. \A n \in Nat : [r EXCEPT !.deferred = n] \in SessType
  OBVIOUS
<1>4. \A t \in {"idle", "using", "close"} : [r EXCEPT !.then = t] \in SessType
  OBVIOUS
<1>5. \A f \in Frames : [r EXCEPT !.frame = f] \in SessType
  OBVIOUS
<1> QED BY <1>1, <1>2, <1>3, <1>4, <1>5

\* Assigning a field of a server's record keeps its type.
LEMMA SrvUpdate ==
    ASSUME NEW C, NEW r \in SrvType(C)
    PROVE  /\ \A n \in C : [r EXCEPT !.refCount = n] \in SrvType(C)
           /\ \A b \in BOOLEAN : [r EXCEPT !.stopping = b] \in SrvType(C)
           /\ \A b \in BOOLEAN : [r EXCEPT !.stopped = b] \in SrvType(C)
           /\ \A b \in BOOLEAN : [r EXCEPT !.open = b] \in SrvType(C)
<1> USE DEF SrvType
<1>1. \A n \in C : [r EXCEPT !.refCount = n] \in SrvType(C)
  OBVIOUS
<1>2. \A b \in BOOLEAN : [r EXCEPT !.stopping = b] \in SrvType(C)
  OBVIOUS
<1>3. \A b \in BOOLEAN : [r EXCEPT !.stopped = b] \in SrvType(C)
  OBVIOUS
<1>4. \A b \in BOOLEAN : [r EXCEPT !.open = b] \in SrvType(C)
  OBVIOUS
<1> QED BY <1>1, <1>2, <1>3, <1>4

\* The type invariant in terms of these sets.
LEMMA TypeOKDef ==
    TypeOK <=> /\ mu \in BOOLEAN /\ fatal \in BOOLEAN /\ overrun \in BOOLEAN
               /\ servers \in [Frames -> 0..MaxServers]
               /\ srv \in [Servers -> SrvType(IF overrun THEN Int ELSE Nat)]
               /\ started \in 0..MaxServers /\ reentries \in 0..MaxReentries
               /\ sess \in [Sessions -> SessType]
BY DEF TypeOK, SrvType, SessType, Labels

\* The daemon starts with no servers and no session inside the manager.
LEMMA InitInv == Init => ControlInv
<1> SUFFICES ASSUME Init PROVE ControlInv
  OBVIOUS
<1> USE BoundsAssumption, ValuesAssumption
<1>1. (CHOOSE f \in Frames : TRUE) \in Frames
  OBVIOUS
<1>2. IdleSession \in SessType /\ FreshServer \in SrvType(Nat)
  BY <1>1 DEF IdleSession, FreshServer, SessType, SrvType, Labels
<1>3. TypeOK
  <2>1. /\ mu \in BOOLEAN /\ fatal \in BOOLEAN /\ overrun \in BOOLEAN
    BY Zenon DEF Init
  <2>4. /\ servers \in [Frames -> 0..MaxServers]
        /\ started \in 0..MaxServers /\ reentries \in 0..MaxReentries
    BY DEF Init
  <2>3. sess \in [Sessions -> SessType]
    BY <1>2 DEF Init
  <2>2. srv \in [Servers -> SrvType(Nat)] /\ Nat = IF overrun THEN Int ELSE Nat
    BY <1>2 DEF Init
  <2> QED BY <2>1, <2>2, <2>3, <2>4, TypeOKDef
<1>4. \A s \in Sessions : sess[s].pc = "idle" /\ sess[s].then = "idle"
  BY DEF Init, IdleSession
<1>5. \A i \in Servers : ~srv[i].open
  BY DEF Init, FreshServer
<1>6. \A f \in Frames : servers[f] = 0
  BY DEF Init
<1>7. \A s \in Sessions : ~Holding(s) /\ ~Closing(s) /\ ~Inside(s)
  BY <1>4 DEF Holding, Closing, Inside
<1>8. HeldServerOpen /\ UnlocksPending /\ MutexExcludes
  BY <1>4, <1>7 DEF Init, HeldServerOpen, UnlocksPending, MutexExcludes
<1>9. Books
  BY <1>5, <1>6, <1>7 DEF Books, RefCountExact, HoldersServed, ClosersOwn, EntriesKnown, OpenTracked
<1> QED BY <1>3, <1>8, <1>9 DEF ControlInv, Books

-----------------------------------------------------------------------------
(* Steps that change only one session's record.                            *)

\* A step that neither takes nor gives back a reference, nor advances a
\* teardown past the close of the listener, leaves the books in order.
LEMMA QuietStep ==
    ASSUME ControlInv, NEW s \in Sessions, NEW w \in SessType,
           sess' = [sess EXCEPT ![s] = w],
           UNCHANGED <<servers, srv, started>>,
           ~overrun' => ~overrun,
           Holding(s)' <=> Holding(s), Closing(s)' <=> Closing(s),
           Holding(s) \/ Closing(s) => w.ms = sess[s].ms /\ w.frame = sess[s].frame,
           w.pc = "register" <=> sess[s].pc = "register",
           w.pc \in {"relock", "remove"} => sess[s].pc \in {"relock", "remove"}
    PROVE  Books'
<1> USE DEF ControlInv
<1>0. sess \in [Sessions -> SessType]
  BY TypeOKDef
<1>1. /\ \A t \in Sessions : t # s => sess'[t] = sess[t]
      /\ sess'[s] = w
  BY <1>0
<1>2. \A t \in Sessions : /\ Holding(t)' <=> Holding(t)
                          /\ Closing(t)' <=> Closing(t)
  BY <1>1 DEF Holding, Closing
<1>3. \A t \in Sessions : Holding(t) \/ Closing(t) =>
                            sess'[t].ms = sess[t].ms /\ sess'[t].frame = sess[t].frame
  BY <1>1
<1>4. \A t \in Sessions : /\ sess'[t].pc = "register" <=> sess[t].pc = "register"
                          /\ sess'[t].pc \in {"relock", "remove"} => sess[t].pc \in {"relock", "remove"}
  BY <1>1
<1>5. RefCountExact'
  <2>1. \A i \in Servers : Holders(i)' = Holders(i)
    BY <1>2, <1>3 DEF Holders
  <2> QED BY <2>1 DEF RefCountExact
<1>6. HoldersServed'
  BY <1>2, <1>3, <1>4 DEF HoldersServed
<1>7. ClosersOwn'
  BY <1>2, <1>3, <1>4 DEF ClosersOwn
<1>8. EntriesKnown'
  BY DEF EntriesKnown
<1>9. OpenTracked'
  <2>1. \A t \in Sessions : sess[t].pc = "register" => sess'[t].ms = sess[t].ms
    BY <1>3 DEF Holding
  <2> QED BY <1>4, <2>1 DEF OpenTracked
<1> QED BY <1>5, <1>6, <1>7, <1>8, <1>9 DEF Books

\* Lock, in either function: the mutex was free, so nobody was inside.
LEMMA EnterMutex ==
    ASSUME ControlInv, NEW s \in Sessions, NEW w \in SessType,
           sess' = [sess EXCEPT ![s] = w], ~mu, mu', ~fatal, ~fatal', overrun' = overrun,
           Inside(s)'
    PROVE  MutexExcludes'
<1>0. sess \in [Sessions -> SessType]
  BY TypeOKDef DEF ControlInv
<1>1. \A t \in Sessions : t # s => sess'[t] = sess[t]
  BY <1>0
<1>2. ~overrun => \A t \in Sessions : ~Inside(t)
  BY DEF ControlInv, MutexExcludes
<1>3. ~overrun => \A t \in Sessions : Inside(t)' => t = s
  BY <1>1, <1>2 DEF Inside
<1> QED BY <1>3 DEF MutexExcludes

\* A step of a session that neither locks nor unlocks, on the mutex's side.
LEMMA StayMutex ==
    ASSUME ControlInv, NEW s \in Sessions, NEW w \in SessType,
           sess' = [sess EXCEPT ![s] = w], UNCHANGED <<mu, fatal, overrun>>,
           Inside(s)' <=> Inside(s)
    PROVE  MutexExcludes'
<1>0. sess \in [Sessions -> SessType]
  BY TypeOKDef DEF ControlInv
<1>1. \A t \in Sessions : t # s => sess'[t] = sess[t]
  BY <1>0
<1>2. \A t \in Sessions : Inside(t)' <=> Inside(t)
  BY <1>1 DEF Inside
<1> QED BY <1>2 DEF ControlInv, MutexExcludes

\* Unlock by the session that is inside: it is the only one, and the mutex was
\* locked, so the runtime does not abort.
LEMMA LeaveMutex ==
    ASSUME ControlInv, NEW s \in Sessions, NEW w \in SessType,
           sess' = [sess EXCEPT ![s] = w], Inside(s), ~mu', fatal' = ~mu,
           ~overrun' => ~overrun /\ ~Inside(s)'
    PROVE  MutexExcludes'
<1>0. sess \in [Sessions -> SessType]
  BY TypeOKDef DEF ControlInv
<1>1. \A t \in Sessions : t # s => sess'[t] = sess[t]
  BY <1>0
<1>2. ~overrun => mu /\ \A t \in Sessions : Inside(t) => t = s
  BY DEF ControlInv, MutexExcludes
<1>3. ~overrun' => \A t \in Sessions : ~Inside(t)'
  BY <1>1, <1>2 DEF Inside
<1> QED BY <1>2, <1>3 DEF MutexExcludes

\* Only the session that moves can change what it has pending.
LEMMA KeepPending ==
    ASSUME ControlInv, NEW s \in Sessions, NEW w \in SessType,
           sess' = [sess EXCEPT ![s] = w],
           w.pc \in {"lookup", "register", "return"} => w.deferred > 0,
           w.pc = "return" => w.then \in {"idle", "using"},
           w.pc = "unlock" => w.then \in {"idle", "close"}
    PROVE  UnlocksPending'
<1>0. sess \in [Sessions -> SessType]
  BY TypeOKDef DEF ControlInv
<1> QED BY <1>0 DEF ControlInv, UnlocksPending

\* A step that changes one session's record keeps every type.
LEMMA QuietType ==
    ASSUME ControlInv, NEW s \in Sessions, NEW w \in SessType,
           sess' = [sess EXCEPT ![s] = w],
           UNCHANGED <<servers, srv, started>>, reentries' \in 0..MaxReentries,
           mu' \in BOOLEAN, fatal' \in BOOLEAN, overrun' \in BOOLEAN, ~overrun' => ~overrun
    PROVE  TypeOK'
<1>1. /\ sess \in [Sessions -> SessType] /\ servers \in [Frames -> 0..MaxServers]
      /\ srv \in [Servers -> SrvType(IF overrun THEN Int ELSE Nat)] /\ started \in 0..MaxServers
  BY TypeOKDef DEF ControlInv
<1>2. sess' \in [Sessions -> SessType]
  BY <1>1
<1>3. srv' \in [Servers -> SrvType(IF overrun' THEN Int ELSE Nat)]
  <2>1. CASE overrun' = overrun
    BY <1>1, <2>1
  <2>2. CASE overrun' /\ ~overrun
    <3>1. SrvType(Nat) \subseteq SrvType(Int)
      BY DEF SrvType
    <3> QED BY <1>1, <2>2, <3>1
  <2> QED BY <2>1, <2>2, TypeOKDef DEF ControlInv
<1> QED BY <1>1, <1>2, <1>3 DEF TypeOK, SrvType, SessType, Labels

-----------------------------------------------------------------------------
(* The steps that only lock, unlock, wait or choose where to go next.      *)

\* A session calls getOrCreateControlServer.
LEMMA AcquireInv ==
    ASSUME ControlInv, NEW s \in Sessions, NEW f \in Frames, Acquire(s, f)
    PROVE  ControlInv'
<1> USE ValuesAssumption, BoundsAssumption
<1> DEFINE w == [pc |-> "lock", frame |-> f, ms |-> 0, deferred |-> 0, then |-> "idle"]
<1>1. w.pc = "lock" /\ w.then = "idle"
  OBVIOUS
<1>2. sess' = [sess EXCEPT ![s] = w] /\ sess[s].pc = "idle"
  BY DEF Acquire, At
<1>3. w \in SessType
  BY DEF SessType, Labels
<1>4. UNCHANGED <<mu, servers, srv, started, reentries, fatal, overrun>>
  BY DEF Acquire
<1> HIDE DEF w
<1>5. sess'[s] = w
  BY <1>2, TypeOKDef DEF ControlInv
<1>6. TypeOK'
  BY <1>2, <1>3, <1>4, QuietType, TypeOKDef DEF ControlInv
<1>7. MutexExcludes'
  BY <1>1, <1>2, <1>3, <1>4, <1>5, StayMutex DEF Inside
<1>8. UnlocksPending'
  BY <1>1, <1>2, <1>3, KeepPending
<1>9. Books'
  BY <1>1, <1>2, <1>3, <1>4, <1>5, QuietStep DEF Holding, Closing
<1> QED BY <1>6, <1>7, <1>8, <1>9 DEF ControlInv, Books, HeldServerOpen, HoldersServed, Holding

\* m.mu.Lock() in getOrCreateControlServer.
LEMMA LockInv ==
    ASSUME ControlInv, NEW s \in Sessions, Lock(s)
    PROVE  ControlInv'
<1> DEFINE w == [sess[s] EXCEPT !.pc = "lookup", !.deferred = sess[s].deferred + 1]
<1>1. sess[s] \in SessType /\ sess[s].pc = "lock" /\ sess[s].deferred \in Nat
  BY TypeOKDef DEF ControlInv, Lock, At, SessType
<1>2. sess' = [sess EXCEPT ![s] = w]
  BY <1>1, TypeOKDef DEF Lock, ControlInv
<1>3. w \in SessType
  BY <1>1, SessUpdate, sess[s].deferred + 1 \in Nat, "lookup" \in Labels, Zenon DEF Labels
<1>4. /\ UNCHANGED <<servers, srv, started, reentries, fatal, overrun>>
      /\ ~mu /\ mu' = TRUE /\ ~fatal
  BY DEF Lock, At
<1>5. w.pc = "lookup" /\ w.deferred > 0
  BY <1>1 DEF SessType
<1> HIDE DEF w
<1>6. sess'[s] = w
  BY <1>2, TypeOKDef DEF ControlInv
<1>7. TypeOK'
  BY <1>2, <1>3, <1>4, QuietType, TypeOKDef DEF ControlInv
<1>8. MutexExcludes'
  BY <1>2, <1>3, <1>4, <1>5, <1>6, EnterMutex DEF Inside
<1>9. UnlocksPending'
  BY <1>2, <1>3, <1>5, KeepPending
<1>10. Books'
  BY <1>1, <1>2, <1>3, <1>4, <1>5, <1>6, QuietStep DEF Holding, Closing
<1> QED BY <1>7, <1>8, <1>9, <1>10 DEF ControlInv, Books, HeldServerOpen, HoldersServed, Holding

\* The entry is stopping: m.mu.Unlock() before the wait.
LEMMA UnlockToWaitInv ==
    ASSUME ControlInv, NEW s \in Sessions, UnlockToWait(s)
    PROVE  ControlInv'
<1> DEFINE w == [sess[s] EXCEPT !.pc = "wait", !.ms = Entry(s)]
<1>1. sess[s] \in SessType /\ sess[s].pc = "lookup" /\ Entry(s) \in 0..MaxServers
  BY TypeOKDef DEF ControlInv, UnlockToWait, At, SessType, Entry
<1>2. sess' = [sess EXCEPT ![s] = w]
  BY <1>1, TypeOKDef DEF UnlockToWait, ControlInv
<1>3. w \in SessType
  BY <1>1, SessUpdate, Zenon DEF Labels
<1>4. /\ UNCHANGED <<servers, srv, started, reentries, overrun>>
      /\ fatal' = ~mu /\ mu' = FALSE
  BY DEF UnlockToWait
<1>5. w.pc = "wait"
  BY <1>1 DEF SessType
<1> HIDE DEF w
<1>6. sess'[s] = w
  BY <1>2, TypeOKDef DEF ControlInv
<1>7. TypeOK'
  BY <1>2, <1>3, <1>4, QuietType, TypeOKDef DEF ControlInv
<1>8. MutexExcludes'
  BY <1>1, <1>2, <1>3, <1>4, <1>5, <1>6, LeaveMutex DEF Inside
<1>9. UnlocksPending'
  BY <1>2, <1>3, <1>5, KeepPending
<1>10. Books'
  BY <1>1, <1>2, <1>3, <1>4, <1>5, <1>6, QuietStep DEF Holding, Closing
<1> QED BY <1>7, <1>8, <1>9, <1>10 DEF ControlInv, Books, HeldServerOpen, HoldersServed, Holding

\* stopped is closed: the function calls itself.
LEMMA StoppedInv ==
    ASSUME ControlInv, NEW s \in Sessions, Stopped(s)
    PROVE  ControlInv'
<1> DEFINE w == [sess[s] EXCEPT !.pc = "lock"]
<1>1. sess[s] \in SessType /\ sess[s].pc = "wait"
  BY TypeOKDef DEF ControlInv, Stopped, At, SessType
<1>2. sess' = [sess EXCEPT ![s] = w]
  BY DEF Stopped
<1>3. w \in SessType
  BY <1>1, SessUpdate DEF Labels
<1>4. /\ UNCHANGED <<mu, servers, srv, started, fatal, overrun>>
      /\ reentries' \in 0..MaxReentries
  BY BoundsAssumption, TypeOKDef DEF Stopped, ControlInv
<1>5. w.pc = "lock"
  BY <1>1 DEF SessType
<1> HIDE DEF w
<1>6. sess'[s] = w
  BY <1>2, TypeOKDef DEF ControlInv
<1>7. TypeOK'
  BY <1>2, <1>3, <1>4, QuietType, TypeOKDef DEF ControlInv
<1>8. MutexExcludes'
  BY <1>1, <1>2, <1>3, <1>4, <1>5, <1>6, StayMutex DEF Inside
<1>9. UnlocksPending'
  BY <1>2, <1>3, <1>5, KeepPending
<1>10. Books'
  BY <1>1, <1>2, <1>3, <1>4, <1>5, <1>6, QuietStep DEF Holding, Closing
<1> QED BY <1>7, <1>8, <1>9, <1>10 DEF ControlInv, Books, HeldServerOpen, HoldersServed, Holding

\* startControlServer fails: the function returns the error.
LEMMA StartFailsInv ==
    ASSUME ControlInv, NEW s \in Sessions, StartFails(s)
    PROVE  ControlInv'
<1> DEFINE w == [sess[s] EXCEPT !.pc = "return", !.then = "idle"]
<1>1. sess[s] \in SessType /\ sess[s].pc = "lookup" /\ sess[s].deferred > 0
  BY TypeOKDef DEF ControlInv, StartFails, At, SessType, UnlocksPending
<1>2. sess' = [sess EXCEPT ![s] = w]
  BY <1>1, TypeOKDef DEF StartFails, ControlInv
<1>3. w \in SessType
  BY <1>1, SessUpdate, Zenon DEF Labels
<1>4. UNCHANGED <<mu, servers, srv, started, reentries, fatal, overrun>>
  BY DEF StartFails
<1>5. w.pc = "return" /\ w.then = "idle" /\ w.deferred > 0
  BY <1>1 DEF SessType
<1> HIDE DEF w
<1>6. sess'[s] = w
  BY <1>2, TypeOKDef DEF ControlInv
<1>7. TypeOK'
  BY <1>2, <1>3, <1>4, QuietType, TypeOKDef DEF ControlInv
<1>8. MutexExcludes'
  BY <1>1, <1>2, <1>3, <1>4, <1>5, <1>6, StayMutex DEF Inside
<1>9. UnlocksPending'
  BY <1>2, <1>3, <1>5, KeepPending
<1>10. Books'
  BY <1>1, <1>2, <1>3, <1>4, <1>5, <1>6, QuietStep DEF Holding, Closing
<1> QED BY <1>7, <1>8, <1>9, <1>10 DEF ControlInv, Books, HeldServerOpen, HoldersServed, Holding

\* A deferred Unlock. The last of a call frees the mutex its own Lock took;
\* with another one still to come the call has overrun.
LEMMA DeferredUnlockInv ==
    ASSUME ControlInv, NEW s \in Sessions, DeferredUnlock(s)
    PROVE  ControlInv'
<1> DEFINE p == IF sess[s].deferred = 1 THEN sess[s].then ELSE "return"
           w == [sess[s] EXCEPT !.deferred = sess[s].deferred - 1, !.pc = p]
<1>1. /\ sess[s] \in SessType /\ sess[s].pc = "return" /\ sess[s].deferred \in Nat
      /\ sess[s].deferred > 0 /\ sess[s].then \in {"idle", "using"}
  BY TypeOKDef DEF ControlInv, DeferredUnlock, At, SessType, UnlocksPending
<1>2. sess' = [sess EXCEPT ![s] = w]
  BY <1>1, TypeOKDef DEF DeferredUnlock, ControlInv
<1>3. w \in SessType
  <2>1. p \in Labels /\ sess[s].deferred - 1 \in Nat
    BY <1>1 DEF Labels
  <2> HIDE DEF p
  <2> QED BY <1>1, <2>1, SessUpdate, Zenon
<1>4. /\ UNCHANGED <<servers, srv, started, reentries>>
      /\ fatal' = ~mu /\ mu' = FALSE
      /\ overrun' = (overrun \/ sess[s].deferred > 1)
  BY DEF DeferredUnlock
<1>5. /\ w.pc = p /\ w.deferred = sess[s].deferred - 1
      /\ w.then = sess[s].then /\ w.ms = sess[s].ms /\ w.frame = sess[s].frame
  BY <1>1 DEF SessType
<1>11. /\ p \in {"idle", "using", "return"}
       /\ p = "return" => w.deferred > 0
       /\ ~overrun' => ~overrun /\ p \in {"idle", "using"}
  <2>1. p \in {"idle", "using", "return"}
    BY <1>1
  <2>2. p = "return" => sess[s].deferred - 1 > 0
    BY <1>1
  <2>3. ~overrun' => ~overrun /\ ~(sess[s].deferred > 1)
    BY <1>4, Zenon
  <2>4. ~(sess[s].deferred > 1) => p \in {"idle", "using"}
    BY <1>1
  <2> QED BY <1>5, <2>1, <2>2, <2>3, <2>4
<1> HIDE DEF w, p
<1>6. sess'[s] = w
  BY <1>2, TypeOKDef DEF ControlInv
<1>7. TypeOK'
  BY <1>2, <1>3, <1>4, QuietType, TypeOKDef DEF ControlInv
<1>8. MutexExcludes'
  BY <1>1, <1>2, <1>3, <1>4, <1>5, <1>6, <1>11, LeaveMutex DEF Inside
<1>9. UnlocksPending'
  BY <1>1, <1>2, <1>3, <1>5, <1>11, KeepPending
<1>10. Books'
  BY <1>1, <1>2, <1>3, <1>4, <1>5, <1>6, <1>11, QuietStep DEF Holding, Closing, p
<1> QED BY <1>7, <1>8, <1>9, <1>10 DEF ControlInv, Books, HeldServerOpen, HoldersServed, Holding

\* m.mu.Lock() in releaseControlServer.
LEMMA ReleaseInv ==
    ASSUME ControlInv, NEW s \in Sessions, Release(s)
    PROVE  ControlInv'
<1> DEFINE w == [sess[s] EXCEPT !.pc = "release"]
<1>1. sess[s] \in SessType /\ sess[s].pc = "using"
  BY TypeOKDef DEF ControlInv, Release, At, SessType
<1>2. sess' = [sess EXCEPT ![s] = w]
  BY DEF Release
<1>3. w \in SessType
  BY <1>1, SessUpdate DEF Labels
<1>4. /\ UNCHANGED <<servers, srv, started, reentries, fatal, overrun>>
      /\ ~mu /\ mu' = TRUE /\ ~fatal
  BY DEF Release, At
<1>5. w.pc = "release" /\ w.ms = sess[s].ms /\ w.frame = sess[s].frame
  BY <1>1 DEF SessType
<1> HIDE DEF w
<1>6. sess'[s] = w
  BY <1>2, TypeOKDef DEF ControlInv
<1>7. TypeOK'
  BY <1>2, <1>3, <1>4, QuietType, TypeOKDef DEF ControlInv
<1>8. MutexExcludes'
  BY <1>2, <1>3, <1>4, <1>5, <1>6, EnterMutex DEF Inside
<1>9. UnlocksPending'
  BY <1>2, <1>3, <1>5, KeepPending
<1>10. Books'
  BY <1>1, <1>2, <1>3, <1>4, <1>5, <1>6, QuietStep DEF Holding, Closing
<1> QED BY <1>7, <1>8, <1>9, <1>10 DEF ControlInv, Books, HeldServerOpen, HoldersServed, Holding

\* The second m.mu.Lock() of releaseControlServer, after the close.
LEMMA RelockInv ==
    ASSUME ControlInv, NEW s \in Sessions, Relock(s)
    PROVE  ControlInv'
<1> DEFINE w == [sess[s] EXCEPT !.pc = "remove"]
<1>1. sess[s] \in SessType /\ sess[s].pc = "relock"
  BY TypeOKDef DEF ControlInv, Relock, At, SessType
<1>2. sess' = [sess EXCEPT ![s] = w]
  BY DEF Relock
<1>3. w \in SessType
  BY <1>1, SessUpdate DEF Labels
<1>4. /\ UNCHANGED <<servers, srv, started, reentries, fatal, overrun>>
      /\ ~mu /\ mu' = TRUE /\ ~fatal
  BY DEF Relock, At
<1>5. w.pc = "remove" /\ w.ms = sess[s].ms /\ w.frame = sess[s].frame
  BY <1>1 DEF SessType
<1> HIDE DEF w
<1>6. sess'[s] = w
  BY <1>2, TypeOKDef DEF ControlInv
<1>7. TypeOK'
  BY <1>2, <1>3, <1>4, QuietType, TypeOKDef DEF ControlInv
<1>8. MutexExcludes'
  BY <1>2, <1>3, <1>4, <1>5, <1>6, EnterMutex DEF Inside
<1>9. UnlocksPending'
  BY <1>2, <1>3, <1>5, KeepPending
<1>10. Books'
  BY <1>1, <1>2, <1>3, <1>4, <1>5, <1>6, QuietStep DEF Holding, Closing
<1> QED BY <1>7, <1>8, <1>9, <1>10 DEF ControlInv, Books, HeldServerOpen, HoldersServed, Holding

\* m.mu.Unlock() in releaseControlServer.
LEMMA UnlockInv ==
    ASSUME ControlInv, NEW s \in Sessions, Unlock(s)
    PROVE  ControlInv'
<1> DEFINE w == [sess[s] EXCEPT !.pc = sess[s].then]
<1>1. /\ sess[s] \in SessType /\ sess[s].pc = "unlock" /\ sess[s].then \in {"idle", "close"}
  BY TypeOKDef DEF ControlInv, Unlock, At, SessType, UnlocksPending
<1>2. sess' = [sess EXCEPT ![s] = w]
  BY DEF Unlock
<1>3. w \in SessType
  BY <1>1, SessUpdate DEF Labels
<1>4. /\ UNCHANGED <<servers, srv, started, reentries, overrun>>
      /\ fatal' = ~mu /\ mu' = FALSE
  BY DEF Unlock
<1>5. w.pc = sess[s].then /\ w.ms = sess[s].ms /\ w.frame = sess[s].frame
  BY <1>1 DEF SessType
<1> HIDE DEF w
<1>6. sess'[s] = w
  BY <1>2, TypeOKDef DEF ControlInv
<1>7. TypeOK'
  BY <1>2, <1>3, <1>4, QuietType, TypeOKDef DEF ControlInv
<1>8. MutexExcludes'
  BY <1>1, <1>2, <1>3, <1>4, <1>5, <1>6, LeaveMutex DEF Inside
<1>9. UnlocksPending'
  BY <1>1, <1>2, <1>3, <1>5, KeepPending
<1>10. Books'
  BY <1>1, <1>2, <1>3, <1>4, <1>5, <1>6, QuietStep DEF Holding, Closing
<1> QED BY <1>7, <1>8, <1>9, <1>10 DEF ControlInv, Books, HeldServerOpen, HoldersServed, Holding

-----------------------------------------------------------------------------
(* The steps that move references, entries and listeners.                  *)

\* Type correctness of a step that changes one session's record and the table
\* of servers, without an Unlock.
LEMMA BusyType ==
    ASSUME ControlInv, NEW s \in Sessions, NEW w \in SessType,
           sess' = [sess EXCEPT ![s] = w],
           srv' \in [Servers -> SrvType(IF overrun THEN Int ELSE Nat)],
           servers' \in [Frames -> 0..MaxServers], started' \in 0..MaxServers,
           UNCHANGED <<mu, reentries, fatal, overrun>>
    PROVE  TypeOK'
<1>1. /\ sess \in [Sessions -> SessType] /\ reentries \in 0..MaxReentries
      /\ mu \in BOOLEAN /\ fatal \in BOOLEAN /\ overrun \in BOOLEAN
  BY TypeOKDef DEF ControlInv
<1>2. sess' \in [Sessions -> SessType]
  BY <1>1
<1>3. srv' \in [Servers -> SrvType(IF overrun' THEN Int ELSE Nat)]
  OBVIOUS
<1> QED BY <1>1, <1>2, <1>3 DEF TypeOK, SrvType, SessType, Labels

\* There are finitely many holders.
LEMMA HoldersFinite ==
    \A i \in Servers : IsFiniteSet(Holders(i)) /\ Cardinality(Holders(i)) \in Nat
<1> TAKE i \in Servers
<1>1. Holders(i) \subseteq Sessions
  BY DEF Holders
<1>2. IsFiniteSet(Holders(i))
  BY <1>1, FS_Subset, ValuesAssumption
<1> QED BY <1>2, FS_CardinalityType

\* A caller finds the frame's server and takes a reference.
LEMMA ReuseInv ==
    ASSUME ControlInv, NEW s \in Sessions, Reuse(s)
    PROVE  ControlInv'
<1> USE BoundsAssumption
<1>0. PICK i : i = Entry(s)
  OBVIOUS
<1> DEFINE w == [sess[s] EXCEPT !.pc = "return", !.ms = i, !.then = "using"]
           v == [srv[i] EXCEPT !.refCount = srv[i].refCount + 1]
           C == IF overrun THEN Int ELSE Nat
<1>1. /\ sess[s] \in SessType /\ sess[s].pc = "lookup" /\ sess[s].deferred > 0
      /\ sess[s].frame \in Frames
  BY TypeOKDef DEF ControlInv, Reuse, At, SessType, UnlocksPending
<1>2. i \in Servers /\ i \in 0..MaxServers /\ i # 0 /\ ~srv[i].stopping /\ i = servers[sess[s].frame]
  BY <1>0, <1>1, TypeOKDef DEF ControlInv, Reuse, Entry, Servers
<1>3. sess' = [sess EXCEPT ![s] = w] /\ srv' = [srv EXCEPT ![i] = v]
  BY <1>0, <1>1, <1>2, TypeOKDef DEF Reuse, ControlInv
<1>4. UNCHANGED <<mu, servers, started, reentries, fatal, overrun>>
  BY DEF Reuse
<1>5. w \in SessType
  BY <1>1, <1>2, SessUpdate, Zenon DEF Labels
<1>6. /\ w.pc = "return" /\ w.then = "using" /\ w.ms = i
      /\ w.frame = sess[s].frame /\ w.deferred = sess[s].deferred
  BY <1>1 DEF SessType
<1>7. v \in SrvType(C)
  <2>1. srv[i] \in SrvType(C)
    BY <1>2, TypeOKDef DEF ControlInv
  <2>2. srv[i].refCount + 1 \in C
    BY <2>1 DEF SrvType
  <2> QED BY <2>1, <2>2, SrvUpdate
<1>8. /\ v.refCount = srv[i].refCount + 1 /\ v.open = srv[i].open
      /\ v.stopping = srv[i].stopping /\ v.frame = srv[i].frame
  BY <1>2, TypeOKDef DEF ControlInv, SrvType
<1> HIDE DEF w, v
<1>9. /\ sess'[s] = w /\ \A t \in Sessions : t # s => sess'[t] = sess[t]
      /\ srv'[i] = v /\ \A j \in Servers : j # i => srv'[j] = srv[j]
  BY <1>2, <1>3, TypeOKDef DEF ControlInv
<1>10. TypeOK'
  <2>1. srv' \in [Servers -> SrvType(C)]
    BY <1>2, <1>3, <1>7, TypeOKDef DEF ControlInv
  <2> QED BY <1>3, <1>4, <1>5, <2>1, BusyType, TypeOKDef DEF ControlInv
<1>11. MutexExcludes'
  BY <1>1, <1>3, <1>4, <1>5, <1>6, <1>9, StayMutex DEF Inside
<1>12. UnlocksPending'
  BY <1>1, <1>3, <1>5, <1>6, KeepPending
<1>13. Books'
  <2> SUFFICES ASSUME ~overrun PROVE Books'
    BY <1>4 DEF Books, RefCountExact, HoldersServed, ClosersOwn, EntriesKnown, OpenTracked
  <2> USE DEF ControlInv
  <2>1. srv[i].open /\ srv[i].frame = sess[s].frame
    BY <1>1, <1>2 DEF EntriesKnown
  <2>2. ~Holding(s) /\ ~Closing(s) /\ Holding(s)' /\ ~Closing(s)'
    BY <1>1, <1>6, <1>9 DEF Holding, Closing
  <2>3. \A t \in Sessions : t # s => /\ Holding(t)' <=> Holding(t)
                                     /\ Closing(t)' <=> Closing(t)
    BY <1>9 DEF Holding, Closing
  <2>4. \A j \in Servers : /\ srv'[j].open = srv[j].open /\ srv'[j].stopping = srv[j].stopping
                            /\ srv'[j].frame = srv[j].frame
    BY <1>8, <1>9
  <2>5. RefCountExact'
    <3>1. Holders(i)' = Holders(i) \cup {s} /\ s \notin Holders(i)
      <4>1. \A t \in Sessions : (sess'[t].ms = i /\ Holding(t)') <=> ((sess[t].ms = i /\ Holding(t)) \/ t = s)
        BY <1>6, <1>9, <2>2, <2>3
      <4> QED BY <1>4, <2>2, <4>1 DEF Holders
    <3>2. Cardinality(Holders(i)') = Cardinality(Holders(i)) + 1
      BY <1>2, <3>1, HoldersFinite, FS_AddElement
    <3>3. \A j \in Servers : j # i => Holders(j)' = Holders(j)
      BY <1>6, <1>9, <2>2, <2>3 DEF Holders
    <3> SUFFICES ASSUME NEW j \in Servers, srv'[j].open, ~srv'[j].stopping
                 PROVE  srv'[j].refCount = Cardinality(Holders(j)')
      BY DEF RefCountExact
    <3>4. srv[j].refCount = Cardinality(Holders(j))
      BY <2>4 DEF RefCountExact
    <3>5. CASE j = i
      BY <1>8, <1>9, <3>2, <3>4, <3>5
    <3>6. CASE j # i
      BY <1>9, <3>3, <3>4, <3>6
    <3> QED BY <3>5, <3>6
  <2>6. HoldersServed'
    <3> SUFFICES ASSUME NEW t \in Sessions, Holding(t)'
                 PROVE  /\ sess'[t].ms # 0 /\ srv'[sess'[t].ms].open /\ ~srv'[sess'[t].ms].stopping
                        /\ srv'[sess'[t].ms].frame = sess'[t].frame
                        /\ servers'[sess'[t].frame] = IF sess'[t].pc = "register" THEN 0 ELSE sess'[t].ms
      BY DEF HoldersServed
    <3>1. CASE t = s
      BY <1>2, <1>4, <1>6, <1>9, <2>1, <2>4, <3>1
    <3>2. CASE t # s
      <4>1. sess[t].ms \in Servers
        BY <2>3, <3>2, TypeOKDef DEF HoldersServed, SessType, Servers
      <4> QED BY <1>4, <1>9, <2>3, <2>4, <3>2, <4>1 DEF HoldersServed
    <3> QED BY <3>1, <3>2
  <2>7. ClosersOwn'
    <3>1. \A t \in Sessions : Closing(t)' => t # s /\ Closing(t) /\ sess'[t] = sess[t] /\ sess[t].ms \in Servers
      BY <1>9, <2>2, <2>3, TypeOKDef DEF ClosersOwn, SessType, Servers
    <3> QED BY <1>4, <2>4, <3>1 DEF ClosersOwn
  <2>8. EntriesKnown'
    <3>1. \A f \in Frames : servers[f] # 0 => servers[f] \in Servers
      BY TypeOKDef DEF Servers
    <3> QED BY <1>4, <2>4, <3>1 DEF EntriesKnown
  <2>9. OpenTracked'
    BY <1>1, <1>4, <1>9, <2>4 DEF OpenTracked
  <2> QED BY <2>5, <2>6, <2>7, <2>8, <2>9 DEF Books
<1> QED BY <1>10, <1>11, <1>12, <1>13 DEF ControlInv, Books, HeldServerOpen, HoldersServed, Holding

\* A caller finds no entry and starts the frame's server.
LEMMA StartInv ==
    ASSUME ControlInv, NEW s \in Sessions, Start(s)
    PROVE  ControlInv'
<1> USE BoundsAssumption
<1>0. PICK i : i = started + 1
  OBVIOUS
<1> DEFINE w == [sess[s] EXCEPT !.pc = "register", !.ms = i]
           v == StartedServer(sess[s].frame)
           C == IF overrun THEN Int ELSE Nat
<1>1. /\ sess[s] \in SessType /\ sess[s].pc = "lookup" /\ sess[s].deferred > 0
      /\ sess[s].frame \in Frames
  BY TypeOKDef DEF ControlInv, Start, At, SessType, UnlocksPending
<1>2. /\ i \in Servers /\ i \in 0..MaxServers /\ i # 0 /\ started \in Nat
      /\ servers[sess[s].frame] = 0
  BY <1>0, <1>1, TypeOKDef DEF ControlInv, Start, Entry, Servers
<1>3. sess' = [sess EXCEPT ![s] = w] /\ srv' = [srv EXCEPT ![i] = v]
  BY <1>0, <1>1, <1>2, TypeOKDef DEF Start, ControlInv
<1>4. UNCHANGED <<mu, servers, reentries, fatal, overrun>> /\ started' = i
  BY <1>0 DEF Start
<1>5. w \in SessType
  BY <1>1, <1>2, SessUpdate, Zenon DEF Labels
<1>6. /\ w.pc = "register" /\ w.ms = i
      /\ w.frame = sess[s].frame /\ w.deferred = sess[s].deferred
  BY <1>1 DEF SessType
<1>7. v \in SrvType(C)
  BY <1>1 DEF StartedServer, SrvType
<1>8. v.refCount = 1 /\ v.open /\ ~v.stopping /\ v.frame = sess[s].frame
  BY DEF StartedServer
<1> HIDE DEF w, v
<1>9. /\ sess'[s] = w /\ \A t \in Sessions : t # s => sess'[t] = sess[t]
      /\ srv'[i] = v /\ \A j \in Servers : j # i => srv'[j] = srv[j]
  BY <1>2, <1>3, TypeOKDef DEF ControlInv
<1>10. TypeOK'
  <2>1. srv' \in [Servers -> SrvType(C)]
    BY <1>2, <1>3, <1>7, TypeOKDef DEF ControlInv
  <2> QED BY <1>2, <1>3, <1>4, <1>5, <2>1, BusyType, TypeOKDef DEF ControlInv
<1>11. MutexExcludes'
  BY <1>1, <1>3, <1>4, <1>5, <1>6, <1>9, StayMutex DEF Inside
<1>12. UnlocksPending'
  BY <1>1, <1>3, <1>5, <1>6, KeepPending
<1>13. Books'
  <2> SUFFICES ASSUME ~overrun PROVE Books'
    BY <1>4 DEF Books, RefCountExact, HoldersServed, ClosersOwn, EntriesKnown, OpenTracked
  <2> USE DEF ControlInv
  <2>1. ~srv[i].open
    BY <1>0, <1>2 DEF OpenTracked
  <2>2. ~Holding(s) /\ ~Closing(s) /\ Holding(s)' /\ ~Closing(s)'
    BY <1>1, <1>6, <1>9 DEF Holding, Closing
  <2>3. \A t \in Sessions : t # s => /\ Holding(t)' <=> Holding(t)
                                     /\ Closing(t)' <=> Closing(t)
    BY <1>9 DEF Holding, Closing
  <2>4. \A t \in Sessions : Holding(t) => sess[t].ms \in Servers \ {i}
    BY <2>1, TypeOKDef DEF HoldersServed, SessType, Servers
  <2>5. \A f \in Frames : servers[f] # i /\ (servers[f] # 0 => servers[f] \in Servers)
    BY <1>0, <1>2, TypeOKDef DEF EntriesKnown, Servers
  <2>6. \A t \in Sessions : Closing(t) => sess[t].ms \in Servers \ {i}
    BY <2>5, TypeOKDef DEF ClosersOwn, SessType, Servers
  <2>7. RefCountExact'
    <3>1. Holders(i)' = {s}
      <4>1. \A t \in Sessions : (sess'[t].ms = i /\ Holding(t)') <=> t = s
        BY <1>6, <1>9, <2>2, <2>3, <2>4
      <4> QED BY <4>1 DEF Holders
    <3>2. Cardinality(Holders(i)') = 1
      BY <3>1, FS_Singleton
    <3>3. \A j \in Servers : j # i => Holders(j)' = Holders(j)
      BY <1>6, <1>9, <2>2, <2>3 DEF Holders
    <3> SUFFICES ASSUME NEW j \in Servers, srv'[j].open, ~srv'[j].stopping
                 PROVE  srv'[j].refCount = Cardinality(Holders(j)')
      BY DEF RefCountExact
    <3>4. CASE j = i
      BY <1>8, <1>9, <3>2, <3>4
    <3>5. CASE j # i
      BY <1>9, <3>3, <3>5 DEF RefCountExact
    <3> QED BY <3>4, <3>5
  <2>8. HoldersServed'
    <3> SUFFICES ASSUME NEW t \in Sessions, Holding(t)'
                 PROVE  /\ sess'[t].ms # 0 /\ srv'[sess'[t].ms].open /\ ~srv'[sess'[t].ms].stopping
                        /\ srv'[sess'[t].ms].frame = sess'[t].frame
                        /\ servers'[sess'[t].frame] = IF sess'[t].pc = "register" THEN 0 ELSE sess'[t].ms
      BY DEF HoldersServed
    <3>1. CASE t = s
      BY <1>2, <1>4, <1>6, <1>8, <1>9, <3>1
    <3>2. CASE t # s
      BY <1>4, <1>9, <2>3, <2>4, <3>2 DEF HoldersServed
    <3> QED BY <3>1, <3>2
  <2>9. ClosersOwn'
    <3>1. \A t \in Sessions : Closing(t)' => t # s /\ Closing(t) /\ sess'[t] = sess[t]
      BY <1>9, <2>2, <2>3
    <3> QED BY <1>4, <1>9, <2>6, <3>1 DEF ClosersOwn
  <2>10. EntriesKnown'
    BY <1>0, <1>2, <1>4, <1>9, <2>5, TypeOKDef DEF EntriesKnown, Servers
  <2>11. OpenTracked'
    BY <1>0, <1>1, <1>2, <1>4, <1>6, <1>9 DEF OpenTracked, Servers
  <2> QED BY <2>7, <2>8, <2>9, <2>10, <2>11 DEF Books
<1> QED BY <1>10, <1>11, <1>12, <1>13 DEF ControlInv, Books, HeldServerOpen, HoldersServed, Holding

\* The server that was started becomes the frame's entry.
LEMMA RegisterInv ==
    ASSUME ControlInv, NEW s \in Sessions, Register(s)
    PROVE  ControlInv'
<1> USE BoundsAssumption
<1>0. PICK i, f : i = sess[s].ms /\ f = sess[s].frame
  OBVIOUS
<1> DEFINE w == [sess[s] EXCEPT !.pc = "return", !.then = "using"]
<1>1. /\ sess[s] \in SessType /\ sess[s].pc = "register" /\ sess[s].deferred > 0
      /\ i \in 0..MaxServers /\ f \in Frames
  BY <1>0, TypeOKDef DEF ControlInv, Register, At, SessType, UnlocksPending
<1>2. sess' = [sess EXCEPT ![s] = w] /\ servers' = [servers EXCEPT ![f] = i]
  BY <1>0, <1>1, TypeOKDef DEF Register, ControlInv
<1>3. UNCHANGED <<mu, srv, started, reentries, fatal, overrun>>
  BY DEF Register
<1>4. w \in SessType
  BY <1>1, SessUpdate, Zenon DEF Labels
<1>5. /\ w.pc = "return" /\ w.then = "using" /\ w.ms = i
      /\ w.frame = f /\ w.deferred = sess[s].deferred
  BY <1>0, <1>1 DEF SessType
<1> HIDE DEF w
<1>6. /\ sess'[s] = w /\ \A t \in Sessions : t # s => sess'[t] = sess[t]
      /\ servers'[f] = i /\ \A g \in Frames : g # f => servers'[g] = servers[g]
  BY <1>1, <1>2, TypeOKDef DEF ControlInv
<1>7. TypeOK'
  <2>1. servers' \in [Frames -> 0..MaxServers]
    BY <1>1, <1>2, TypeOKDef DEF ControlInv
  <2> QED BY <1>2, <1>3, <1>4, <2>1, BusyType, TypeOKDef DEF ControlInv
<1>8. MutexExcludes'
  BY <1>1, <1>2, <1>3, <1>4, <1>5, <1>6, StayMutex DEF Inside
<1>9. UnlocksPending'
  BY <1>1, <1>2, <1>4, <1>5, KeepPending
<1>10. Books'
  <2> SUFFICES ASSUME ~overrun PROVE Books'
    BY <1>3 DEF Books, RefCountExact, HoldersServed, ClosersOwn, EntriesKnown, OpenTracked
  <2> USE DEF ControlInv
  <2>1. Holding(s) /\ ~Closing(s) /\ Holding(s)' /\ ~Closing(s)' /\ Inside(s)
    BY <1>1, <1>5, <1>6 DEF Holding, Closing, Inside
  <2>2. /\ i \in Servers /\ srv[i].open /\ ~srv[i].stopping /\ srv[i].frame = f
        /\ servers[f] = 0 /\ i <= started
    BY <1>0, <1>1, <2>1 DEF HoldersServed, OpenTracked, Servers
  <2>3. \A t \in Sessions : t # s => /\ Holding(t)' <=> Holding(t)
                                     /\ Closing(t)' <=> Closing(t)
    BY <1>6 DEF Holding, Closing
  <2>4. \A t \in Sessions : t # s => sess[t].pc # "register"
    BY <2>1 DEF MutexExcludes, Inside
  <2>5. \A t \in Sessions : t # s /\ (Holding(t) \/ Closing(t)) => sess[t].frame # f /\ sess[t].frame \in Frames
    BY <2>2, <2>4, TypeOKDef DEF HoldersServed, ClosersOwn, SessType
  <2>6. RefCountExact'
    <3>1. \A j \in Servers : Holders(j)' = Holders(j)
      <4>1. \A t \in Sessions : /\ sess'[t].ms = sess[t].ms
                                /\ Holding(t)' <=> Holding(t)
        BY <1>0, <1>5, <1>6, <2>1, <2>3
      <4> QED BY <4>1 DEF Holders
    <3> QED BY <1>3, <3>1 DEF RefCountExact
  <2>7. HoldersServed'
    <3> SUFFICES ASSUME NEW t \in Sessions, Holding(t)'
                 PROVE  /\ sess'[t].ms # 0 /\ srv'[sess'[t].ms].open /\ ~srv'[sess'[t].ms].stopping
                        /\ srv'[sess'[t].ms].frame = sess'[t].frame
                        /\ servers'[sess'[t].frame] = IF sess'[t].pc = "register" THEN 0 ELSE sess'[t].ms
      BY DEF HoldersServed
    <3>1. CASE t = s
      BY <1>3, <1>5, <1>6, <2>2, <3>1 DEF Servers
    <3>2. CASE t # s
      BY <1>3, <1>6, <2>3, <2>5, <3>2 DEF HoldersServed
    <3> QED BY <3>1, <3>2
  <2>8. ClosersOwn'
    <3>1. \A t \in Sessions : Closing(t)' => /\ t # s /\ Closing(t) /\ sess'[t] = sess[t]
                                             /\ servers'[sess[t].frame] = servers[sess[t].frame]
      BY <1>6, <2>1, <2>3, <2>5
    <3> QED BY <1>3, <3>1 DEF ClosersOwn
  <2>9. EntriesKnown'
    BY <1>3, <1>6, <2>2 DEF EntriesKnown
  <2>10. OpenTracked'
    <3> SUFFICES ASSUME NEW j \in Servers, srv[j].open
                 PROVE  \/ servers'[srv[j].frame] = j
                        \/ \E t \in Sessions : sess'[t].pc = "register" /\ sess'[t].ms = j
      BY <1>3 DEF OpenTracked
    <3>1. CASE j = i
      BY <1>6, <2>2, <3>1
    <3>2. CASE j # i
      <4>1. servers[srv[j].frame] = j
        BY <1>0, <2>4, <3>2 DEF OpenTracked
      <4>2. srv[j].frame # f /\ srv[j].frame \in Frames
        BY <2>2, <4>1, TypeOKDef DEF Servers, SrvType
      <4> QED BY <1>6, <4>1, <4>2
    <3> QED BY <3>1, <3>2
  <2> QED BY <2>6, <2>7, <2>8, <2>9, <2>10 DEF Books
<1> QED BY <1>7, <1>8, <1>9, <1>10 DEF ControlInv, Books, HeldServerOpen, HoldersServed, Holding

\* releaseControlServer drops a reference: the one the count says is the last
\* is the last, and nobody else is served by the server it will close.
LEMMA DecrementInv ==
    ASSUME ControlInv, NEW s \in Sessions, Decrement(s)
    PROVE  ControlInv'
<1> USE BoundsAssumption
<1>0. PICK i, last : i = Entry(s) /\ last = (i # 0 /\ srv[i].refCount <= 1)
  OBVIOUS
<1> DEFINE then == IF last THEN "close" ELSE "idle"
           w == [sess[s] EXCEPT !.ms = i, !.pc = "unlock", !.then = then]
           C == IF overrun THEN Int ELSE Nat
           v(n) == [srv[n] EXCEPT !.refCount = srv[n].refCount - 1, !.stopping = srv[n].stopping \/ last]
<1>1. /\ sess[s] \in SessType /\ sess[s].pc = "release" /\ sess[s].frame \in Frames
      /\ i \in 0..MaxServers /\ i = servers[sess[s].frame] /\ last \in BOOLEAN
  BY <1>0, TypeOKDef DEF ControlInv, Decrement, At, SessType, Entry
<1>2. /\ sess' = [sess EXCEPT ![s] = w]
      /\ srv' = [n \in Servers |-> IF n = i THEN v(n) ELSE srv[n]]
  BY <1>0, <1>1, TypeOKDef DEF Decrement, ControlInv
<1>3. UNCHANGED <<mu, servers, started, reentries, fatal, overrun>>
  BY DEF Decrement
<1>4. w \in SessType /\ then \in {"idle", "close"}
  <2>1. then \in {"idle", "using", "close"} /\ then \in {"idle", "close"}
    OBVIOUS
  <2> HIDE DEF then
  <2> QED BY <1>1, <2>1, SessUpdate, Zenon DEF Labels
<1>5. /\ w.pc = "unlock" /\ w.then = then /\ w.ms = i /\ w.frame = sess[s].frame
  BY <1>1 DEF SessType
<1>6. ~overrun => /\ i = sess[s].ms /\ i \in Servers /\ i # 0
                  /\ srv[i].open /\ ~srv[i].stopping /\ srv[i].frame = sess[s].frame
                  /\ s \in Holders(i) /\ srv[i].refCount = Cardinality(Holders(i))
  BY <1>1, TypeOKDef DEF ControlInv, HoldersServed, RefCountExact, Holders, Holding, Servers, SessType
<1>7. ~overrun => srv[i].refCount > 0
  <2> SUFFICES ASSUME ~overrun PROVE srv[i].refCount > 0
    OBVIOUS
  <2>1. Holders(i) # {} /\ IsFiniteSet(Holders(i)) /\ Cardinality(Holders(i)) \in Nat
    BY <1>6, HoldersFinite
  <2>2. Cardinality(Holders(i)) # 0
    BY <2>1, FS_EmptySet
  <2> QED BY <1>6, <2>1, <2>2
<1>8. ASSUME NEW n \in Servers, n = i
      PROVE  /\ v(n) \in SrvType(C)
             /\ v(n).refCount = srv[n].refCount - 1 /\ v(n).stopping = (srv[n].stopping \/ last)
             /\ v(n).open = srv[n].open /\ v(n).frame = srv[n].frame
  <2>1. srv[n] \in SrvType(C)
    BY TypeOKDef DEF ControlInv
  <2>2. srv[n].refCount - 1 \in C
    BY <1>7, <1>8, <2>1 DEF SrvType
  <2>3. (srv[n].stopping \/ last) \in BOOLEAN
    BY <1>1, <2>1 DEF SrvType
  <2>4. v(n) \in SrvType(C)
    BY <2>1, <2>2, <2>3, SrvUpdate, Zenon
  <2> QED BY <2>1, <2>4 DEF SrvType
<1>9. TypeOK'
  <2>1. \A n \in Servers : srv[n] \in SrvType(C)
    BY TypeOKDef DEF ControlInv
  <2> HIDE DEF v, C
  <2>2. srv' \in [Servers -> SrvType(C)]
    BY <1>2, <1>8, <2>1
  <2> HIDE DEF w
  <2> QED BY <1>2, <1>3, <1>4, <2>2, BusyType, TypeOKDef DEF ControlInv, C
<1> HIDE DEF w, v, C
<1>10. sess'[s] = w /\ \A t \in Sessions : t # s => sess'[t] = sess[t]
  BY <1>2, TypeOKDef DEF ControlInv
<1>11. MutexExcludes'
  BY <1>1, <1>2, <1>3, <1>4, <1>5, <1>10, StayMutex DEF Inside
<1>12. UnlocksPending'
  BY <1>1, <1>2, <1>4, <1>5, KeepPending
<1>13. Books'
  <2> SUFFICES ASSUME ~overrun PROVE Books'
    BY <1>3 DEF Books, RefCountExact, HoldersServed, ClosersOwn, EntriesKnown, OpenTracked
  <2> USE DEF ControlInv
  <2>1. /\ srv'[i].refCount = srv[i].refCount - 1 /\ srv'[i].stopping = last
        /\ srv'[i].open = srv[i].open /\ srv'[i].frame = srv[i].frame
        /\ \A j \in Servers : j # i => srv'[j] = srv[j]
    BY <1>1, <1>2, <1>6, <1>8
  <2>2. Holding(s) /\ ~Closing(s) /\ ~Holding(s)' /\ (Closing(s)' <=> last)
    BY <1>1, <1>5, <1>10 DEF Holding, Closing
  <2>3. \A t \in Sessions : t # s => /\ Holding(t)' <=> Holding(t)
                                     /\ Closing(t)' <=> Closing(t)
    BY <1>10 DEF Holding, Closing
  <2>4. last => \A t \in Sessions : Holding(t) /\ sess[t].ms = i => t = s
    <3> SUFFICES ASSUME last PROVE \A t \in Holders(i) : t = s
      BY DEF Holders
    <3>1. Cardinality(Holders(i)) = 1 /\ IsFiniteSet(Holders(i))
      <4>1. IsFiniteSet(Holders(i)) /\ Cardinality(Holders(i)) \in Nat
        BY <1>6, HoldersFinite, FS_CardinalityType
      <4>2. srv[i].refCount <= 1 /\ srv[i].refCount > 0
        BY <1>0, <1>7
      <4> QED BY <1>6, <4>1, <4>2
    <3>2. \E x : Holders(i) = {x}
      BY <3>1, FS_Singleton
    <3> QED BY <1>6, <3>2
  <2>5. \A t \in Sessions : Holding(t) \/ Closing(t) => sess[t].ms \in Servers
    BY TypeOKDef DEF HoldersServed, ClosersOwn, SessType, Servers
  <2>6. \A t \in Sessions : Closing(t) => sess[t].ms # i
    BY <1>6 DEF ClosersOwn
  <2>7. RefCountExact'
    <3>1. Holders(i)' = Holders(i) \ {s}
      <4>1. \A t \in Sessions : (sess'[t].ms = i /\ Holding(t)') <=> (sess[t].ms = i /\ Holding(t) /\ t # s)
        BY <1>10, <2>2, <2>3
      <4> QED BY <4>1 DEF Holders
    <3>2. Cardinality(Holders(i)') = Cardinality(Holders(i)) - 1
      <4>1. IsFiniteSet(Holders(i)) /\ s \in Holders(i)
        BY <1>6, HoldersFinite
      <4>2. Cardinality(Holders(i) \ {s}) = Cardinality(Holders(i)) - 1
        BY <4>1, FS_RemoveElement
      <4> QED BY <3>1, <4>2
    <3>3. \A j \in Servers : j # i => Holders(j)' = Holders(j)
      BY <1>5, <1>6, <1>10, <2>2, <2>3 DEF Holders
    <3> SUFFICES ASSUME NEW j \in Servers, srv'[j].open, ~srv'[j].stopping
                 PROVE  srv'[j].refCount = Cardinality(Holders(j)')
      BY DEF RefCountExact
    <3>4. CASE j = i
      BY <1>6, <2>1, <3>2, <3>4
    <3>5. CASE j # i
      BY <2>1, <3>3, <3>5 DEF RefCountExact
    <3> QED BY <3>4, <3>5
  <2>8. HoldersServed'
    <3> SUFFICES ASSUME NEW t \in Sessions, Holding(t)'
                 PROVE  /\ sess'[t].ms # 0 /\ srv'[sess'[t].ms].open /\ ~srv'[sess'[t].ms].stopping
                        /\ srv'[sess'[t].ms].frame = sess'[t].frame
                        /\ servers'[sess'[t].frame] = IF sess'[t].pc = "register" THEN 0 ELSE sess'[t].ms
      BY DEF HoldersServed
    <3>1. t # s /\ Holding(t) /\ sess'[t] = sess[t] /\ sess[t].ms \in Servers
      BY <1>10, <2>2, <2>3, <2>5
    <3>2. /\ srv'[sess[t].ms].open = srv[sess[t].ms].open
          /\ srv'[sess[t].ms].frame = srv[sess[t].ms].frame
      BY <2>1, <3>1
    <3>3. ~srv'[sess[t].ms].stopping
      BY <2>1, <2>4, <3>1 DEF HoldersServed
    <3> QED BY <1>3, <3>1, <3>2, <3>3 DEF HoldersServed
  <2>9. ClosersOwn'
    <3>1. ASSUME NEW t \in Sessions, Closing(t)'
          PROVE  /\ sess'[t].ms # 0
                 /\ srv'[sess'[t].ms].stopping
                 /\ servers'[sess'[t].frame] = sess'[t].ms
                 /\ sess'[t].pc \in {"relock", "remove"} => ~srv'[sess'[t].ms].open
      <4>1. CASE t = s
        BY <1>1, <1>3, <1>5, <1>6, <1>10, <2>1, <2>2, <3>1, <4>1
      <4>2. CASE t # s
        BY <1>3, <1>10, <2>1, <2>3, <2>5, <2>6, <3>1, <4>2 DEF ClosersOwn
      <4> QED BY <4>1, <4>2
    <3>2. ASSUME NEW t \in Sessions, NEW u \in Sessions, Closing(t)', Closing(u)', sess'[t].ms = sess'[u].ms
          PROVE  t = u
      BY <1>5, <1>10, <2>3, <2>6, <3>2 DEF ClosersOwn
    <3> QED BY <3>1, <3>2 DEF ClosersOwn
  <2>10. EntriesKnown'
    <3>1. \A f \in Frames : servers[f] # 0 => servers[f] \in Servers
      BY TypeOKDef DEF Servers
    <3> QED BY <1>3, <1>6, <2>1, <3>1 DEF EntriesKnown
  <2>11. OpenTracked'
    BY <1>1, <1>3, <1>10, <2>1 DEF OpenTracked
  <2> QED BY <2>7, <2>8, <2>9, <2>10, <2>11 DEF Books
<1> QED BY <1>9, <1>11, <1>12, <1>13 DEF ControlInv, Books, HeldServerOpen, HoldersServed, Holding

\* The last holder closes the listener, outside the mutex.
LEMMA CloseInv ==
    ASSUME ControlInv, NEW s \in Sessions, Close(s)
    PROVE  ControlInv'
<1> USE BoundsAssumption
<1>0. PICK i : i = sess[s].ms
  OBVIOUS
<1> DEFINE w == [sess[s] EXCEPT !.pc = "relock"]
           C == IF overrun THEN Int ELSE Nat
           v(n) == [srv[n] EXCEPT !.open = FALSE]
<1>1. sess[s] \in SessType /\ sess[s].pc = "close" /\ i \in 0..MaxServers
  BY <1>0, TypeOKDef DEF ControlInv, Close, At, SessType
<1>2. /\ sess' = [sess EXCEPT ![s] = w]
      /\ srv' = [n \in Servers |-> IF n = i THEN v(n) ELSE srv[n]]
  BY <1>0, <1>1, TypeOKDef DEF Close, ControlInv
<1>3. UNCHANGED <<mu, servers, started, reentries, fatal, overrun>>
  BY DEF Close
<1>4. w \in SessType
  BY <1>1, SessUpdate DEF Labels
<1>5. w.pc = "relock" /\ w.ms = i /\ w.frame = sess[s].frame
  BY <1>0, <1>1 DEF SessType
<1>6. ASSUME NEW n \in Servers
      PROVE  /\ v(n) \in SrvType(C)
             /\ ~v(n).open /\ v(n).refCount = srv[n].refCount
             /\ v(n).stopping = srv[n].stopping /\ v(n).frame = srv[n].frame
  <2>1. srv[n] \in SrvType(C)
    BY TypeOKDef DEF ControlInv
  <2>2. v(n) \in SrvType(C)
    BY <2>1, SrvUpdate
  <2> QED BY <2>1, <2>2 DEF SrvType
<1>7. TypeOK'
  <2>1. \A n \in Servers : srv[n] \in SrvType(C)
    BY TypeOKDef DEF ControlInv
  <2> HIDE DEF v, C
  <2>2. srv' \in [Servers -> SrvType(C)]
    BY <1>2, <1>6, <2>1
  <2> HIDE DEF w
  <2> QED BY <1>2, <1>3, <1>4, <2>2, BusyType, TypeOKDef DEF ControlInv, C
<1> HIDE DEF w, v, C
<1>8. sess'[s] = w /\ \A t \in Sessions : t # s => sess'[t] = sess[t]
  BY <1>2, TypeOKDef DEF ControlInv
<1>9. MutexExcludes'
  BY <1>1, <1>2, <1>3, <1>4, <1>5, <1>8, StayMutex DEF Inside
<1>10. UnlocksPending'
  BY <1>1, <1>2, <1>4, <1>5, KeepPending
<1>11. Books'
  <2> SUFFICES ASSUME ~overrun PROVE Books'
    BY <1>3 DEF Books, RefCountExact, HoldersServed, ClosersOwn, EntriesKnown, OpenTracked
  <2> USE DEF ControlInv
  <2>1. Closing(s) /\ ~Holding(s) /\ ~Holding(s)' /\ Closing(s)'
    BY <1>1, <1>5, <1>8 DEF Holding, Closing
  <2>2. i \in Servers /\ srv[i].stopping /\ servers[sess[s].frame] = i /\ i # 0
    BY <1>0, <1>1, <2>1 DEF ClosersOwn, Servers
  <2>3. /\ ~srv'[i].open
        /\ \A j \in Servers : j # i => srv'[j] = srv[j]
        /\ \A j \in Servers : /\ srv'[j].stopping = srv[j].stopping /\ srv'[j].frame = srv[j].frame
                               /\ srv'[j].refCount = srv[j].refCount
    BY <1>2, <1>6, <2>2
  <2>4. \A t \in Sessions : /\ Holding(t)' <=> Holding(t)
                            /\ Closing(t)' <=> Closing(t)
                            /\ sess'[t].ms = sess[t].ms /\ sess'[t].frame = sess[t].frame
    BY <1>0, <1>5, <1>8, <2>1 DEF Holding, Closing
  <2>5. \A t \in Sessions : Holding(t) \/ Closing(t) => sess[t].ms \in Servers
    BY TypeOKDef DEF HoldersServed, ClosersOwn, SessType, Servers
  <2>6. RefCountExact'
    <3>1. \A j \in Servers : Holders(j)' = Holders(j)
      BY <2>4 DEF Holders
    <3> QED BY <2>3, <3>1 DEF RefCountExact
  <2>7. HoldersServed'
    <3> SUFFICES ASSUME NEW t \in Sessions, Holding(t)'
                 PROVE  /\ sess'[t].ms # 0 /\ srv'[sess'[t].ms].open /\ ~srv'[sess'[t].ms].stopping
                        /\ srv'[sess'[t].ms].frame = sess'[t].frame
                        /\ servers'[sess'[t].frame] = IF sess'[t].pc = "register" THEN 0 ELSE sess'[t].ms
      BY DEF HoldersServed
    <3>1. t # s /\ Holding(t) /\ sess'[t] = sess[t] /\ sess[t].ms \in Servers
      BY <1>8, <2>1, <2>4, <2>5
    <3>2. sess[t].ms # i
      BY <2>2, <3>1 DEF HoldersServed
    <3> QED BY <1>3, <2>3, <3>1, <3>2 DEF HoldersServed
  <2>8. ClosersOwn'
    <3>1. ASSUME NEW t \in Sessions, Closing(t)'
          PROVE  /\ sess'[t].ms # 0
                 /\ srv'[sess'[t].ms].stopping
                 /\ servers'[sess'[t].frame] = sess'[t].ms
                 /\ sess'[t].pc \in {"relock", "remove"} => ~srv'[sess'[t].ms].open
      <4>1. CASE t = s
        BY <1>3, <1>5, <1>8, <2>2, <2>3, <4>1
      <4>2. CASE t # s
        BY <1>0, <1>3, <1>8, <2>1, <2>3, <2>4, <2>5, <3>1, <4>2 DEF ClosersOwn
      <4> QED BY <4>1, <4>2
    <3>2. ASSUME NEW t \in Sessions, NEW u \in Sessions, Closing(t)', Closing(u)', sess'[t].ms = sess'[u].ms
          PROVE  t = u
      BY <2>4, <3>2 DEF ClosersOwn
    <3> QED BY <3>1, <3>2 DEF ClosersOwn
  <2>9. EntriesKnown'
    <3>1. \A f \in Frames : servers[f] # 0 => servers[f] \in Servers
      BY TypeOKDef DEF Servers
    <3> QED BY <1>3, <2>2, <2>3, <3>1 DEF EntriesKnown
  <2>10. OpenTracked'
    BY <1>1, <1>3, <1>8, <2>3 DEF OpenTracked
  <2> QED BY <2>6, <2>7, <2>8, <2>9, <2>10 DEF Books
<1> QED BY <1>7, <1>9, <1>10, <1>11 DEF ControlInv, Books, HeldServerOpen, HoldersServed, Holding

\* The entry of the closed server is removed and the waiters are woken.
LEMMA RemoveInv ==
    ASSUME ControlInv, NEW s \in Sessions, Remove(s)
    PROVE  ControlInv'
<1> USE BoundsAssumption
<1>0. PICK i, f : i = sess[s].ms /\ f = sess[s].frame
  OBVIOUS
<1> DEFINE w == [sess[s] EXCEPT !.pc = "unlock", !.then = "idle"]
           C == IF overrun THEN Int ELSE Nat
           v(n) == [srv[n] EXCEPT !.stopped = TRUE]
<1>1. /\ sess[s] \in SessType /\ sess[s].pc = "remove" /\ i \in 0..MaxServers /\ f \in Frames
  BY <1>0, TypeOKDef DEF ControlInv, Remove, At, SessType
<1>2. /\ sess' = [sess EXCEPT ![s] = w]
      /\ srv' = [n \in Servers |-> IF n = i THEN v(n) ELSE srv[n]]
      /\ servers' = IF servers[f] = i THEN [servers EXCEPT ![f] = 0] ELSE servers
  BY <1>0, <1>1, TypeOKDef DEF Remove, ControlInv, Entry
<1>3. UNCHANGED <<mu, started, reentries, fatal, overrun>>
  BY DEF Remove
<1>4. w \in SessType
  BY <1>1, SessUpdate, Zenon DEF Labels
<1>5. w.pc = "unlock" /\ w.then = "idle" /\ w.ms = i /\ w.frame = sess[s].frame
  BY <1>0, <1>1 DEF SessType
<1>6. ASSUME NEW n \in Servers
      PROVE  /\ v(n) \in SrvType(C)
             /\ v(n).open = srv[n].open /\ v(n).refCount = srv[n].refCount
             /\ v(n).stopping = srv[n].stopping /\ v(n).frame = srv[n].frame
  <2>1. srv[n] \in SrvType(C)
    BY TypeOKDef DEF ControlInv
  <2>2. v(n) \in SrvType(C)
    BY <2>1, SrvUpdate
  <2> QED BY <2>1, <2>2 DEF SrvType
<1>7. TypeOK'
  <2>1. \A n \in Servers : srv[n] \in SrvType(C)
    BY TypeOKDef DEF ControlInv
  <2> HIDE DEF v, C
  <2>2. srv' \in [Servers -> SrvType(C)]
    BY <1>2, <1>6, <2>1
  <2>3. servers' \in [Frames -> 0..MaxServers]
    <3>1. servers \in [Frames -> 0..MaxServers] /\ 0 \in 0..MaxServers
      BY TypeOKDef DEF ControlInv
    <3> QED BY <1>2, <3>1
  <2> HIDE DEF w
  <2> QED BY <1>2, <1>3, <1>4, <2>2, <2>3, BusyType, TypeOKDef DEF ControlInv, C
<1> HIDE DEF w, v, C
<1>8. sess'[s] = w /\ \A t \in Sessions : t # s => sess'[t] = sess[t]
  BY <1>2, TypeOKDef DEF ControlInv
<1>9. MutexExcludes'
  BY <1>1, <1>2, <1>3, <1>4, <1>5, <1>8, StayMutex DEF Inside
<1>10. UnlocksPending'
  BY <1>1, <1>2, <1>4, <1>5, KeepPending
<1>11. Books'
  <2> SUFFICES ASSUME ~overrun PROVE Books'
    BY <1>3 DEF Books, RefCountExact, HoldersServed, ClosersOwn, EntriesKnown, OpenTracked
  <2> USE DEF ControlInv
  <2>1. Closing(s) /\ ~Holding(s) /\ ~Holding(s)' /\ ~Closing(s)' /\ Inside(s)
    BY <1>1, <1>5, <1>8 DEF Holding, Closing, Inside
  <2>2. i \in Servers /\ srv[i].stopping /\ servers[f] = i /\ i # 0 /\ ~srv[i].open
    BY <1>0, <1>1, <2>1 DEF ClosersOwn, Servers
  <2>3. \A j \in Servers : /\ srv'[j].stopping = srv[j].stopping /\ srv'[j].frame = srv[j].frame
                           /\ srv'[j].refCount = srv[j].refCount /\ srv'[j].open = srv[j].open
    BY <1>2, <1>6, <2>2
  <2>4. servers'[f] = 0 /\ \A g \in Frames : g # f => servers'[g] = servers[g]
    BY <1>1, <1>2, <2>2, TypeOKDef
  <2>5. \A t \in Sessions : t # s => /\ Holding(t)' <=> Holding(t)
                                     /\ Closing(t)' <=> Closing(t)
    BY <1>8 DEF Holding, Closing
  <2>6. \A t \in Sessions : Holding(t) \/ Closing(t) => sess[t].ms \in Servers /\ sess[t].frame \in Frames
    BY TypeOKDef DEF HoldersServed, ClosersOwn, SessType, Servers
  <2>7. \A t \in Sessions : t # s => sess[t].pc # "register"
    BY <2>1 DEF MutexExcludes, Inside
  <2>8. \A t \in Sessions : t # s /\ (Holding(t) \/ Closing(t)) => sess[t].frame # f
    BY <1>0, <2>1, <2>2, <2>7 DEF HoldersServed, ClosersOwn
  <2>9. RefCountExact'
    <3>1. \A j \in Servers : Holders(j)' = Holders(j)
      <4>1. \A j \in Servers, t \in Sessions : (sess'[t].ms = j /\ Holding(t)') <=> (sess[t].ms = j /\ Holding(t))
        BY <1>8, <2>1, <2>5
      <4> QED BY <4>1 DEF Holders
    <3> QED BY <2>3, <3>1 DEF RefCountExact
  <2>10. HoldersServed'
    <3> SUFFICES ASSUME NEW t \in Sessions, Holding(t)'
                 PROVE  /\ sess'[t].ms # 0 /\ srv'[sess'[t].ms].open /\ ~srv'[sess'[t].ms].stopping
                        /\ srv'[sess'[t].ms].frame = sess'[t].frame
                        /\ servers'[sess'[t].frame] = IF sess'[t].pc = "register" THEN 0 ELSE sess'[t].ms
      BY DEF HoldersServed
    <3>1. t # s /\ Holding(t) /\ sess'[t] = sess[t] /\ sess[t].ms \in Servers /\ sess[t].frame \in Frames
      BY <1>8, <2>1, <2>5, <2>6
    <3>2. servers'[sess[t].frame] = servers[sess[t].frame]
      BY <2>4, <2>8, <3>1
    <3> QED BY <2>3, <3>1, <3>2 DEF HoldersServed
  <2>11. ClosersOwn'
    <3>1. \A t \in Sessions : Closing(t)' => /\ t # s /\ Closing(t) /\ sess'[t] = sess[t] /\ sess[t].ms \in Servers
                                             /\ servers'[sess[t].frame] = servers[sess[t].frame]
      BY <1>8, <2>1, <2>4, <2>5, <2>6, <2>8
    <3> QED BY <2>3, <3>1 DEF ClosersOwn
  <2>12. EntriesKnown'
    <3>1. \A g \in Frames : servers[g] # 0 => servers[g] \in Servers
      BY TypeOKDef DEF Servers
    <3> QED BY <1>3, <2>3, <2>4, <3>1 DEF EntriesKnown
  <2>13. OpenTracked'
    <3> SUFFICES ASSUME NEW j \in Servers, srv[j].open
                 PROVE  \/ servers'[srv[j].frame] = j
                        \/ \E t \in Sessions : sess'[t].pc = "register" /\ sess'[t].ms = j
      BY <1>3, <2>3 DEF OpenTracked
    <3>1. \A t \in Sessions : sess[t].pc # "register"
      BY <1>1, <2>7
    <3>2. servers[srv[j].frame] = j
      BY <3>1 DEF OpenTracked
    <3>3. srv[j].frame # f /\ srv[j].frame \in Frames
      BY <2>2, <3>2, TypeOKDef DEF SrvType
    <3> QED BY <2>4, <3>2, <3>3
  <2> QED BY <2>9, <2>10, <2>11, <2>12, <2>13 DEF Books
<1> QED BY <1>7, <1>9, <1>10, <1>11 DEF ControlInv, Books, HeldServerOpen, HoldersServed, Holding

-----------------------------------------------------------------------------
\* Every step of every session preserves the invariant.
LEMMA NextInv == ControlInv /\ [Next]_vars => ControlInv'
<1> SUFFICES ASSUME ControlInv, [Next]_vars PROVE ControlInv'
  OBVIOUS
<1>1. ASSUME NEW s \in Sessions, NEW f \in Frames, Acquire(s, f)
      PROVE  ControlInv'
  BY <1>1, AcquireInv
<1>2. ASSUME NEW s \in Sessions, Step(s)
      PROVE  ControlInv'
  BY <1>2, LockInv, ReuseInv, UnlockToWaitInv, StoppedInv, StartInv, StartFailsInv, RegisterInv,
     DeferredUnlockInv, ReleaseInv, DecrementInv, CloseInv, RelockInv, RemoveInv, UnlockInv DEF Step
<1>3. CASE UNCHANGED vars
  BY <1>3 DEF vars, ControlInv, TypeOK, HeldServerOpen, RefCountExact, UnlocksPending, MutexExcludes,
              HoldersServed, ClosersOwn, EntriesKnown, OpenTracked, Holding, Holders, Closing, Inside
<1> QED BY <1>1, <1>2, <1>3 DEF Next

\* Until some call has overrun its deferred Unlocks, a session that holds a
\* control server finds it registered under its frame and open, and the
\* server's count is the number of sessions holding it, whatever the number of
\* sessions, frames and servers.
THEOREM CountsAreExact == Spec => []ControlInv
BY InitInv, NextInv, PTL DEF Spec

\* Two open listeners of one frame: one of them is registered and the other is
\* about to be, which its starter's lookup and the mutex exclude.
LEMMA OneListenerFromInv == ControlInv => OneListener
<1> SUFFICES ASSUME ControlInv, ~overrun, NEW i \in Servers, NEW j \in Servers,
                    srv[i].open, srv[j].open, srv[i].frame = srv[j].frame
             PROVE  i = j
  BY DEF OneListener
<1> USE DEF ControlInv
<1>1. \A n \in Servers : n # 0
  BY BoundsAssumption DEF Servers
<1>2. \A n \in Servers : srv[n].open =>
        \/ servers[srv[n].frame] = n
        \/ \E s \in Sessions : sess[s].pc = "register" /\ sess[s].ms = n /\ servers[srv[n].frame] = 0
  BY DEF OpenTracked, HoldersServed, Holding
<1>3. \A s, t \in Sessions : sess[s].pc = "register" /\ sess[t].pc = "register" => s = t
  BY DEF MutexExcludes, Inside
<1> QED BY <1>1, <1>2, <1>3

\* A frame never has two open listeners: getOrCreateControlServer waits for a
\* stopping server instead of binding the frame's socket a second time.
THEOREM NeverTwoListeners == Spec => []OneListener
BY CountsAreExact, OneListenerFromInv, PTL

=============================================================================
