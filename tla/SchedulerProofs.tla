--------------------------- MODULE SchedulerProofs ---------------------------
(***************************************************************************)
(* Proofs about Scheduler, for any set of threads, any policies, any slice *)
(* threshold and any set of threads that may be signalled.                 *)
(***************************************************************************)
EXTENDS Scheduler, PlistProofs

-----------------------------------------------------------------------------
(* The lists and the states move together.                                 *)

\* Adding to its list a thread that the new states ask for keeps the match.
LEMMA AddListed ==
    ASSUME NEW rl \in [Policies -> Seq(Thread)], NEW st, NEW q,
           NEW st2, NEW q2, NEW t \in Thread, NEW pr \in [Thread -> Int],
           ListsMatch(rl, st, q),
           t \notin Listed(Policy[t], st, q),
           Listed(Policy[t], st2, q2) = Listed(Policy[t], st, q) \cup {t},
           \A p \in Policies \ {Policy[t]} : Listed(p, st2, q2) = Listed(p, st, q)
    PROVE  LET new == [rl EXCEPT ![Policy[t]] = PlistAdd(@, t, pr)]
           IN  new \in [Policies -> Seq(Thread)] /\ ListsMatch(new, st2, q2)
<1> DEFINE p0 == Policy[t]
           add == PlistAdd(rl[p0], t, pr)
           new == [rl EXCEPT ![p0] = add]
<1>1. p0 \in Policies
  BY PolicyAssumption
<1>2. IsInjective(rl[p0]) /\ t \notin ToSet(rl[p0])
  BY <1>1 DEF ListsMatch
<1>3. /\ add \in Seq(Thread)
      /\ ToSet(add) = ToSet(rl[p0]) \cup {t}
      /\ IsInjective(add)
  BY <1>1, <1>2, PlistAddFacts
<1> HIDE DEF p0, add
<1>4. new \in [Policies -> Seq(Thread)]
  BY <1>1, <1>3
<1>5. ASSUME NEW p \in Policies
      PROVE  IsInjective(new[p]) /\ ToSet(new[p]) = Listed(p, st2, q2)
  <2>1. CASE p = p0
    BY <1>1, <1>3, <2>1, new[p0] = add DEF ListsMatch, p0
  <2>2. CASE p # p0
    BY <2>2, new[p] = rl[p] DEF ListsMatch, p0
  <2> QED
    BY <2>1, <2>2
<1> QED
  BY <1>4, <1>5 DEF ListsMatch, add, p0

\* Removing from its list a thread that the new states no longer ask for.
LEMMA DelListed ==
    ASSUME NEW rl \in [Policies -> Seq(Thread)], NEW st, NEW q,
           NEW st2, NEW t \in Thread,
           ListsMatch(rl, st, q),
           \A p \in Policies : Listed(p, st2, q) =
               IF p = Policy[t] THEN Listed(p, st, q) \ {t}
               ELSE Listed(p, st, q)
    PROVE  LET new == [rl EXCEPT ![Policy[t]] = PlistDel(@, t)]
           IN  new \in [Policies -> Seq(Thread)] /\ ListsMatch(new, st2, q)
<1> DEFINE p0 == Policy[t]
           del == PlistDel(rl[p0], t)
           new == [rl EXCEPT ![p0] = del]
<1>1. p0 \in Policies
  BY PolicyAssumption
<1>2. IsInjective(rl[p0])
  BY <1>1 DEF ListsMatch
<1>3. /\ del \in Seq(Thread)
      /\ ToSet(del) = ToSet(rl[p0]) \ {t}
      /\ IsInjective(del)
  BY <1>1, <1>2, PlistDelFacts
<1> HIDE DEF p0, del
<1>4. new \in [Policies -> Seq(Thread)]
  BY <1>1, <1>3
<1>5. ASSUME NEW p \in Policies
      PROVE  IsInjective(new[p]) /\ ToSet(new[p]) = Listed(p, st2, q)
  <2>1. CASE p = p0
    BY <1>1, <1>3, <2>1, new[p0] = del DEF ListsMatch, p0
  <2>2. CASE p # p0
    BY <2>2, new[p] = rl[p] DEF ListsMatch, p0
  <2> QED
    BY <2>1, <2>2
<1> QED
  BY <1>4, <1>5 DEF ListsMatch, del, p0

\* update_thread keeps the lists and the states matched, whatever the lists
\* rl and the states st it starts from.
LEMMA RelistedFacts ==
    ASSUME NEW rl \in [Policies -> Seq(Thread)], NEW st \in [Thread -> States],
           NEW t \in queued, NEW s \in States, queued \subseteq Thread,
           prio \in [Thread -> Int], ListsMatch(rl, st, queued)
    PROVE  /\ Relisted(rl, st, t, s) \in [Policies -> Seq(Thread)]
           /\ ListsMatch(Relisted(rl, st, t, s), [st EXCEPT ![t] = s], queued)
<1> DEFINE st2 == [st EXCEPT ![t] = s]
<1>0. t \in Thread
  OBVIOUS
<1>1. CASE s = st[t]
  <2>1. st2 = st
    BY <1>0, <1>1
  <2> QED
    BY <1>1, <2>1 DEF Relisted
<1>2. CASE s # st[t] /\ s = "ready"
  <2>1. t \notin Listed(Policy[t], st, queued)
    BY <1>2 DEF Listed
  <2>2. /\ Listed(Policy[t], st2, queued) = Listed(Policy[t], st, queued) \cup {t}
        /\ \A p \in Policies \ {Policy[t]} :
              Listed(p, st2, queued) = Listed(p, st, queued)
    BY <1>0, <1>2 DEF Listed
  <2> HIDE DEF st2
  <2>3. LET new == [rl EXCEPT ![Policy[t]] = PlistAdd(@, t, prio)]
        IN  new \in [Policies -> Seq(Thread)] /\ ListsMatch(new, st2, queued)
    BY <1>0, <2>1, <2>2, AddListed
  <2> QED
    BY <1>2, <2>3 DEF Relisted, st2
<1>3. CASE s # st[t] /\ s # "ready" /\ st[t] = "ready"
  <2>2. \A p \in Policies : Listed(p, st2, queued) =
            IF p = Policy[t] THEN Listed(p, st, queued) \ {t}
            ELSE Listed(p, st, queued)
    BY <1>0, <1>3 DEF Listed
  <2> HIDE DEF st2
  <2>3. LET new == [rl EXCEPT ![Policy[t]] = PlistDel(@, t)]
        IN  new \in [Policies -> Seq(Thread)] /\ ListsMatch(new, st2, queued)
    BY <1>0, <2>2, DelListed
  <2> QED
    BY <1>3, <2>3 DEF Relisted, st2
<1>4. CASE s # st[t] /\ s # "ready" /\ st[t] # "ready"
  <2>1. \A p \in Policies : Listed(p, st2, queued) = Listed(p, st, queued)
    BY <1>0, <1>4 DEF Listed
  <2> QED
    BY <1>4, <2>1 DEF Relisted, ListsMatch
<1> QED
  BY <1>1, <1>2, <1>3, <1>4

\* get_next_thread_to_run returns a READY, queued thread or none.
LEMMA NextThreadFacts ==
    ASSUME TypeOK, ListsMatchState, NextThread # NoThread
    PROVE  /\ NextThread \in Thread
           /\ NextThread \in queued
           /\ state[NextThread] = "ready"
<1>1. ASSUME NEW p \in Policies, ready[p] # <<>>
      PROVE  Head(ready[p]) \in Listed(p, state, queued)
  <2>1. ready[p] \in Seq(Thread)
    BY DEF TypeOK
  <2>2. Len(ready[p]) \in Nat /\ Len(ready[p]) # 0
    BY <1>1, <2>1, EmptySeq
  <2>3. 1 \in DOMAIN ready[p] /\ Head(ready[p]) = ready[p][1]
    BY <2>1, <2>2
  <2>4. Head(ready[p]) \in ToSet(ready[p])
    BY <2>3 DEF ToSet
  <2> QED
    BY <2>4 DEF ListsMatchState, ListsMatch
<1> QED
  BY <1>1 DEF NextThread, Policies, Listed

-----------------------------------------------------------------------------
(* The initial states.                                                     *)

\* When task_init calls schedule the inductive invariant holds.
LEMMA InitIInv == Init => IInv
<1> SUFFICES ASSUME Init PROVE IInv
  OBVIOUS
<1> USE ThreadAssumption, PolicyAssumption
<1>1. <<InitThread>> \in Seq(Thread) /\ <<>> \in Seq(Thread)
  BY SMT
<1>2. TypeOK
  <2>1. ready \in [Policies -> Seq(Thread)]
    BY <1>1 DEF Init
  <2>2. state \in [Thread -> States] /\ pc \in [Thread -> Places]
    BY DEF Init, States, Places
  <2>3. prio \in [Thread -> Int] /\ slice \in [Thread -> Nat] /\ counter \in Nat
    BY DEF Init
  <2>4. /\ ret \in [Thread -> {"none", "user", "kernel", "queue"}]
        /\ child \in [Thread -> Thread \cup {NoThread}]
        /\ pending \in [Thread -> SUBSET Effects]
    BY DEF Init
  <2> QED
    BY <2>1, <2>2, <2>3, <2>4 DEF Init, TypeOK
<1>3. Parked /\ QueuedOnce /\ Preempted /\ Undisturbed
  BY SMT DEF Init, Parked, QueuedOnce, Forking, Preempted, Undisturbed
<1>4. ListsMatchState
  <2>1. ToSet(<<InitThread>>) = {InitThread} /\ IsInjective(<<InitThread>>)
    BY DEF ToSet, IsInjective
  <2>2. ToSet(<<>>) = {} /\ IsInjective(<<>>)
    BY DEF ToSet, IsInjective
  <2>3. /\ ready["kernel"] = <<InitThread>>
        /\ ready["system"] = <<>> /\ ready["app"] = <<>>
    BY DEF Init, Policies
  <2>4. /\ Listed("kernel", state, queued) = {InitThread}
        /\ Listed("system", state, queued) = {}
        /\ Listed("app", state, queued) = {}
    BY DEF Init, Listed
  <2> QED
    BY <2>1, <2>2, <2>3, <2>4, Zenon DEF ListsMatchState, ListsMatch, Policies
<1>5. RunningIsCurrent /\ LockBalance /\ HaltFlag
  BY SMT DEF Init, RunningIsCurrent, LockBalance, HaltFlag
<1> QED
  BY <1>2, <1>3, <1>4, <1>5 DEF IInv

-----------------------------------------------------------------------------
(* The lists: every action keeps them well typed and matched.              *)

ListsOK == ready \in [Policies -> Seq(Thread)] /\ ListsMatchState

\* One call of update_thread.
LEMMA UpdateKeepsLists ==
    ASSUME TypeOK, ListsMatchState, NEW t \in queued, NEW s \in States,
           UpdateThread(t, s), queued' = queued
    PROVE  ListsOK'
<1>1. /\ Relisted(ready, state, t, s) \in [Policies -> Seq(Thread)]
      /\ ListsMatch(Relisted(ready, state, t, s), [state EXCEPT ![t] = s], queued)
  BY RelistedFacts DEF TypeOK, ListsMatchState
<1> QED
  BY <1>1 DEF UpdateThread, ListsOK, ListsMatchState, ListsMatch, Listed

\* pop_next_thread_to_run and switch_thread.
LEMMA PopKeepsLists ==
    ASSUME TypeOK, ListsMatchState, NextThread # NoThread,
           PopAndSwitch(NextThread)
    PROVE  ListsOK'
<1> DEFINE nt == NextThread
           st2 == [state EXCEPT ![nt] = "running"]
           new == [ready EXCEPT ![Policy[nt]] = PlistDel(@, nt)]
<1>1. nt \in Thread /\ nt \in queued /\ state[nt] = "ready"
  BY NextThreadFacts
<1>2. PopAndSwitch(nt)
  OBVIOUS
<1> HIDE DEF nt
<1>3. \A p \in Policies : Listed(p, st2, queued) =
         IF p = Policy[nt] THEN Listed(p, state, queued) \ {nt}
         ELSE Listed(p, state, queued)
  BY <1>1 DEF Listed, TypeOK
<1> HIDE DEF st2
<1>4. new \in [Policies -> Seq(Thread)] /\ ListsMatch(new, st2, queued)
  BY <1>1, <1>3, DelListed DEF TypeOK, ListsMatchState
<1>5. ready' = new /\ state' = st2 /\ queued' = queued
  BY <1>2 DEF PopAndSwitch, SwitchThread, st2
<1> QED
  BY <1>4, <1>5 DEF ListsOK, ListsMatchState, ListsMatch, Listed

\* A blocked thread has been queued, and so has a parent in do_wait.
LEMMA WaitingIsQueued ==
    ASSUME QueuedOnce
    PROVE  /\ \A t \in Thread : state[t] \in {"waiting", "running", "terminated"}
                                 => t \in queued
           /\ \A p \in Parents : p # NoThread => p \in Thread /\ p \in queued
                                                /\ state[p] = "waiting"
BY DEF QueuedOnce, Parents

\* The two calls of update_thread in do_exit.
LEMMA ExitKeepsLists ==
    ASSUME TypeOK, ListsMatchState, QueuedOnce, NEW p \in Parents, DoExit(p)
    PROVE  ListsOK'
<1> DEFINE gone == [state EXCEPT ![current] = "terminated"]
           left == Relisted(ready, state, current, "terminated")
<1>0. current \in queued /\ queued \subseteq Thread /\ prio \in [Thread -> Int]
  BY DEF QueuedOnce, TypeOK
<1>1. left \in [Policies -> Seq(Thread)] /\ ListsMatch(left, gone, queued)
  BY <1>0, RelistedFacts DEF TypeOK, ListsMatchState, States
<1>2. gone \in [Thread -> States] /\ queued' = queued
  BY DEF TypeOK, States, DoExit
<1>3. DoExit(p)
  OBVIOUS
<1>4. CASE p = NoThread
  <2>1. state' = gone /\ ready' = left
    BY <1>3, <1>4 DEF DoExit
  <2> QED
    BY <1>1, <1>2, <2>1 DEF ListsOK, ListsMatchState, ListsMatch, Listed
<1>5. CASE p # NoThread
  <2>1. state' = [gone EXCEPT ![p] = "ready"] /\ ready' = Relisted(left, gone, p, "ready")
    BY <1>3, <1>5 DEF DoExit
  <2>2. p \in queued
    BY <1>5, WaitingIsQueued
  <2> HIDE DEF gone, left
  <2>3. /\ Relisted(left, gone, p, "ready") \in [Policies -> Seq(Thread)]
        /\ ListsMatch(Relisted(left, gone, p, "ready"),
                      [gone EXCEPT ![p] = "ready"], queued)
    BY <1>0, <1>1, <1>2, <2>2, RelistedFacts DEF States
  <2> QED
    BY <1>2, <2>1, <2>3 DEF ListsOK, ListsMatchState, ListsMatch, Listed
<1> QED
  BY <1>4, <1>5

\* The round-robin rescaling yields priorities.
LEMMA RoundRobinPrioType ==
    ASSUME TypeOK, ListsMatchState, NextThread # NoThread
    PROVE  RoundRobinPrio \in [Thread -> Int]
<1>1. CASE Policy[NextThread] # "app"
  BY <1>1 DEF RoundRobinPrio, TypeOK
<1>2. CASE Policy[NextThread] = "app"
  <2> DEFINE apps == ready["app"]
  <2>1. apps \in Seq(Thread)
    BY DEF TypeOK, Policies
  <2>2. apps # <<>>
    <3>1. ASSUME apps = <<>> PROVE FALSE
      <4>1. ToSet(<<>>) = {}
        BY DEF ToSet
      <4>2. Listed("app", state, queued) = {}
        BY <3>1, <4>1 DEF ListsMatchState, ListsMatch, Policies
      <4>3. NextThread \in Listed("app", state, queued)
        BY <1>2, NextThreadFacts DEF Listed
      <4> QED
        BY <4>2, <4>3
    <3> QED
      BY <3>1
  <2>3. Head(apps) \in Thread /\ apps[Len(apps)] \in Thread
    BY <2>1, <2>2
  <2> HIDE DEF apps
  <2>4. prio \in [Thread -> Int]
    BY DEF TypeOK
  <2> QED
    BY <1>2, <2>3, <2>4 DEF RoundRobinPrio, apps
<1> QED
  BY <1>1, <1>2

\* Every step keeps the ready lists in agreement with the states.
LEMMA ListsStep ==
    ASSUME IInv, [Next]_vars
    PROVE  ListsOK'
<1>0. /\ TypeOK /\ ListsMatchState /\ QueuedOnce /\ current \in queued
      /\ ThreadAssumption
  BY ThreadAssumption DEF IInv, QueuedOnce
<1>1. ASSUME UNCHANGED <<ready, state, queued>> PROVE ListsOK'
  BY <1>0, <1>1 DEF TypeOK, ListsOK, ListsMatchState, ListsMatch, Listed
<1>2. CASE Schedule \/ HaltSchedule
  BY <1>0, <1>2, PopKeepsLists DEF Schedule, HaltSchedule
<1>3. CASE ScheduleIdle \/ HaltAgain \/ UNCHANGED vars \/ Start \/ Syscall
           \/ SysReturn \/ TickCount
  BY <1>1, <1>3 DEF ScheduleIdle, HaltAgain, vars, Start, Syscall, SysReturn,
     TickCount
<1>4. CASE Resume \/ ResumeCaughtInUser \/ ResumeCaughtInSyscall \/ ReturnCaught
  BY <1>1, <1>4 DEF Resume, ResumeCaughtInUser, FinishSchedule,
     ResumeCaughtInSyscall, ReturnCaught
<1>5. CASE QueueThread
  <2> DEFINE t == child[current]
  <2>1. /\ t \in Thread /\ t \notin queued /\ state[t] = "ready"
        /\ prio \in [Thread -> Int] /\ state' = state
        /\ queued' = queued \cup {t}
        /\ ready' = [ready EXCEPT ![Policy[t]] = PlistAdd(@, t, prio)]
    BY <1>0, <1>5 DEF QueueThread, QueuedOnce, Forking, TypeOK
  <2>2. t \notin Listed(Policy[t], state, queued)
    BY <2>1 DEF Listed
  <2> HIDE DEF t
  <2>3. /\ Listed(Policy[t], state, queued \cup {t}) =
              Listed(Policy[t], state, queued) \cup {t}
        /\ \A p \in Policies \ {Policy[t]} :
              Listed(p, state, queued \cup {t}) = Listed(p, state, queued)
    BY <2>1 DEF Listed
  <2>4. LET new == [ready EXCEPT ![Policy[t]] = PlistAdd(@, t, prio)]
        IN  /\ new \in [Policies -> Seq(Thread)]
            /\ ListsMatch(new, state, queued \cup {t})
    BY <1>0, <2>1, <2>2, <2>3, AddListed DEF TypeOK, ListsMatchState
  <2> QED
    BY <2>1, <2>4 DEF ListsOK, ListsMatchState, ListsMatch, Listed
<1>6. CASE Sleep
  BY <1>0, <1>6, UpdateKeepsLists DEF Sleep, States
<1>7. ASSUME NEW t \in Thread, Wake(t) \/ IrqWake(t) PROVE ListsOK'
  BY <1>0, <1>7, UpdateKeepsLists, WaitingIsQueued DEF Wake, IrqWake, States
<1>8. ASSUME NEW t \in Thread, Create(t) PROVE ListsOK'
  <2>1. /\ t \notin queued /\ ready' = ready /\ queued' = queued
        /\ state' = [state EXCEPT ![t] = "ready"]
    BY <1>0, <1>8 DEF Create, QueuedOnce
  <2>2. \A p \in Policies :
           Listed(p, state', queued) = Listed(p, state, queued)
    BY <1>0, <2>1 DEF Listed, TypeOK
  <2> QED
    BY <1>0, <2>1, <2>2 DEF TypeOK, ListsOK, ListsMatchState, ListsMatch, Listed
<1>9. ASSUME NEW p \in Parents, Exit(p) \/ ReturnFatal(p) \/ ResumeFatal(p)
      PROVE ListsOK'
  BY <1>0, <1>9, ExitKeepsLists DEF Exit, ReturnFatal, ResumeFatal
<1>10. ASSUME NEW t \in Thread, NEW sig \in {"kill", "fatal", "caught"},
              Kill(t, sig)
       PROVE  ListsOK'
  <2>1. CASE sig = "kill" /\ t # current /\ t \in queued
    BY <1>0, <1>10, <2>1, UpdateKeepsLists DEF Kill, States
  <2>2. CASE sig = "kill" /\ t # current /\ t \notin queued
    <3>1. state[t] = "ready"
      BY <1>0, <1>10, <2>2 DEF Kill, QueuedOnce
    <3>2. UpdateThread(t, "ready") /\ queued' = queued
      BY <1>10, <2>2 DEF Kill
    <3>3. ready' = ready
      BY <3>1, <3>2 DEF UpdateThread, Relisted
    <3>4. state' = state
      BY <1>0, <3>1, <3>2 DEF UpdateThread, TypeOK
    <3> QED
      BY <1>1, <3>2, <3>3, <3>4
  <2>3. CASE ~(sig = "kill" /\ t # current)
    BY <1>1, <1>10, <2>3 DEF Kill
  <2> QED
    BY <2>1, <2>2, <2>3
<1>11. CASE Preempt
  <2>1. /\ RoundRobinPrio \in [Thread -> Int] /\ current \in Thread
        /\ Policy[current] = "app" /\ state[current] = "running"
        /\ queued' = queued
        /\ state' = [state EXCEPT ![current] = "ready"]
        /\ ready' = [ready EXCEPT ![Policy[current]] =
                        PlistAdd(@, current, RoundRobinPrio)]
    BY <1>0, <1>11, RoundRobinPrioType DEF Preempt, Timed, TypeOK
  <2>2. current \notin Listed(Policy[current], state, queued)
    BY <2>1 DEF Listed
  <2> DEFINE c == current
             st2 == [state EXCEPT ![c] = "ready"]
             pr == RoundRobinPrio
             new == [ready EXCEPT ![Policy[c]] = PlistAdd(@, c, pr)]
  <2>3. /\ Listed(Policy[c], st2, queued) = Listed(Policy[c], state, queued) \cup {c}
        /\ \A p \in Policies \ {Policy[c]} :
              Listed(p, st2, queued) = Listed(p, state, queued)
    BY <1>0, <2>1 DEF Listed, TypeOK
  <2>4. /\ state' = st2 /\ ready' = new /\ queued' = queued
        /\ pr \in [Thread -> Int] /\ c \in Thread
        /\ c \notin Listed(Policy[c], state, queued)
    BY <2>1, <2>2
  <2> HIDE DEF st2, pr, c
  <2>5. new \in [Policies -> Seq(Thread)] /\ ListsMatch(new, st2, queued)
    BY <1>0, <2>3, <2>4, AddListed DEF TypeOK, ListsMatchState
  <2> HIDE DEF new
  <2> QED
    BY <2>4, <2>5 DEF ListsOK, ListsMatchState, ListsMatch, Listed
<1> QED
  BY <1>2, <1>3, <1>4, <1>5, <1>6, <1>7, <1>8, <1>9, <1>10, <1>11
  DEF Next, KernelStep, SignalStep




-----------------------------------------------------------------------------
(* The other conjuncts, one lemma each.                                 *)

\* What a switch does to the variables, thread by thread.
LEMMA PopEffects ==
    ASSUME TypeOK, ListsMatchState, NextThread # NoThread, Parked,
           PopAndSwitch(NextThread)
    PROVE  LET nt == NextThread
           IN  /\ nt \in Thread /\ nt \in queued /\ state[nt] = "ready"
               /\ current' = nt
               /\ pc' \in [Thread -> Places]
               /\ pc'[nt] \in {"entry", "resumed"}
               /\ \A t \in Thread \ {nt} :
                     pc'[t] = IF t = current THEN "switched" ELSE pc[t]
               /\ pc[nt] # "entry" => pc'[nt] = "resumed"
               /\ state' = [state EXCEPT ![nt] = "running"]
               /\ state' \in [Thread -> States]
               /\ slice' \in [Thread -> Nat]
               /\ counter' = counter + 1
               /\ UNCHANGED <<prio, ret, child, queued, pending, inService, lost>>
<1> DEFINE nt == NextThread
<1>1. nt \in Thread /\ nt \in queued /\ state[nt] = "ready" /\ PopAndSwitch(nt)
  BY NextThreadFacts
<1> HIDE DEF nt
<1>2. /\ current \in Thread /\ pc \in [Thread -> Places]
      /\ slice \in [Thread -> Nat]
  BY DEF TypeOK
<1>3. /\ current' = nt /\ counter' = counter + 1
      /\ state' = [state EXCEPT ![nt] = "running"]
      /\ slice' = [slice EXCEPT ![nt] = 0]
      /\ UNCHANGED <<prio, ret, child, queued, pending, inService, lost>>
  BY <1>1 DEF PopAndSwitch, SwitchThread
<1>4. slice' \in [Thread -> Nat] /\ state' \in [Thread -> States]
  BY <1>2, <1>3 DEF TypeOK, States
<1>5. CASE nt = current
  <2>1. pc' = [pc EXCEPT ![nt] = "resumed"]
    BY <1>1, <1>5 DEF PopAndSwitch, SwitchThread
  <2> QED
    BY <1>1, <1>2, <1>3, <1>4, <1>5, <2>1 DEF nt, Places
<1>6. CASE nt # current
  <2>1. pc' = [pc EXCEPT ![current] = "switched",
                         ![nt] = IF pc[nt] = "entry" THEN "entry" ELSE "resumed"]
    BY <1>1, <1>6 DEF PopAndSwitch, SwitchThread
  <2> QED
    BY <1>1, <1>2, <1>3, <1>4, <1>6, <2>1 DEF nt, Places
<1> QED
  BY <1>5, <1>6

\* What do_exit does to the variables, thread by thread.
LEMMA ExitEffects ==
    ASSUME TypeOK, NEW p \in Parents, DoExit(p), QueuedOnce
    PROVE  /\ pc' = [pc EXCEPT ![current] = "block"]
           /\ state' \in [Thread -> States]
           /\ p # NoThread => p \in Thread /\ p \in queued /\ state[p] = "waiting"
           /\ \A t \in Thread :
                 state'[t] = IF t = p THEN "ready"
                             ELSE IF t = current THEN "terminated" ELSE state[t]
           /\ UNCHANGED <<current, prio, slice, counter, child, queued, inService>>
<1>1. /\ p # NoThread => p \in Thread /\ p \in queued /\ state[p] = "waiting"
      /\ NoThread \notin Thread
      /\ state \in [Thread -> States] /\ current \in Thread
  BY WaitingIsQueued, ThreadAssumption DEF TypeOK
<1>2. CASE p = NoThread
  <2>1. state' = [state EXCEPT ![current] = "terminated"]
    BY <1>2 DEF DoExit
  <2> QED
    BY <1>1, <1>2, <2>1 DEF DoExit, States
<1>3. CASE p # NoThread
  <2>1. state' = [[state EXCEPT ![current] = "terminated"] EXCEPT ![p] = "ready"]
    BY <1>3 DEF DoExit
  <2> QED
    BY <1>1, <1>3, <2>1 DEF DoExit, States
<1> QED
  BY <1>2, <1>3

\* The processor's flag and IRQ8's are truth values after every step.
LEMMA FlagStep ==
    ASSUME IInv, [Next]_vars
    PROVE  ie' \in BOOLEAN /\ inService' \in BOOLEAN
<1>0. ie \in BOOLEAN /\ inService \in BOOLEAN
  BY DEF IInv, TypeOK
<1>1. CASE Schedule \/ HaltSchedule \/ ScheduleIdle \/ HaltAgain \/ UNCHANGED vars
  BY <1>0, <1>1, Zenon DEF Schedule, HaltSchedule, PopAndSwitch, SwitchThread,
     ScheduleIdle, HaltAgain, vars
<1>2. CASE Resume \/ ResumeCaughtInUser \/ ResumeCaughtInSyscall \/ ReturnCaught
  BY <1>0, <1>2, Zenon DEF Resume, ResumeCaughtInUser, ResumeCaughtInSyscall,
     ReturnCaught, FinishSchedule
<1>3. CASE Start \/ Syscall \/ SysReturn \/ QueueThread \/ TickCount \/ Preempt
  BY <1>0, <1>3, Zenon DEF Start, Syscall, SysReturn, QueueThread, TickCount, Preempt
<1>4. CASE Sleep
  BY <1>0, <1>4, Zenon DEF Sleep, FlagAfterUpdate
<1>5. ASSUME NEW t \in Thread, Wake(t) \/ IrqWake(t) \/ Create(t)
      PROVE  ie' \in BOOLEAN /\ inService' \in BOOLEAN
  BY <1>0, <1>5, Zenon DEF Wake, IrqWake, Create, FlagAfterUpdate
<1>6. ASSUME NEW p \in Parents, Exit(p) \/ ReturnFatal(p) \/ ResumeFatal(p)
      PROVE  ie' \in BOOLEAN /\ inService' \in BOOLEAN
  BY <1>0, <1>6, Zenon DEF Exit, ReturnFatal, ResumeFatal, DoExit
<1>7. ASSUME NEW t \in Thread, NEW sig \in {"kill", "fatal", "caught"}, Kill(t, sig)
      PROVE  ie' \in BOOLEAN /\ inService' \in BOOLEAN
  BY <1>0, <1>7, Zenon DEF Kill, FlagAfterUpdate
<1> QED
  BY <1>1, <1>2, <1>3, <1>4, <1>5, <1>6, <1>7 DEF Next, KernelStep, SignalStep

TypeRest ==
    /\ current \in Thread
    /\ state \in [Thread -> States]
    /\ prio \in [Thread -> Int]
    /\ slice \in [Thread -> Nat]
    /\ counter \in Nat
    /\ pc \in [Thread -> Places]
    /\ ret \in [Thread -> {"none", "user", "kernel", "queue"}]
    /\ child \in [Thread -> Thread \cup {NoThread}]
    /\ queued \in SUBSET Thread
    /\ pending \in [Thread -> SUBSET Effects]
    /\ lost \in Nat

\* Every step keeps every variable in its type.
LEMMA TypeStep ==
    ASSUME IInv, [Next]_vars
    PROVE  TypeRest'
<1>0. LockBalance /\ QueuedOnce
  BY DEF IInv
<1>t. /\ current \in Thread
      /\ state \in [Thread -> States]
      /\ pc \in [Thread -> Places]
      /\ ret \in [Thread -> {"none", "user", "kernel", "queue"}]
      /\ child \in [Thread -> Thread \cup {NoThread}]
      /\ queued \in SUBSET Thread
      /\ pending \in [Thread -> SUBSET Effects]
      /\ counter \in Nat
      /\ lost \in Nat
      /\ prio \in [Thread -> Int]
      /\ slice \in [Thread -> Nat]
  BY DEF IInv, TypeOK
<1>r. NextThread # NoThread => RoundRobinPrio \in [Thread -> Int]
  BY RoundRobinPrioType DEF IInv
<1> USE ThreadAssumption, BoundAssumption DEF LockBalance
<1>1. CASE Schedule \/ HaltSchedule
  <2>1. NextThread # NoThread /\ PopAndSwitch(NextThread)
        /\ TypeOK /\ ListsMatchState /\ Parked /\ state[current] # "running"
        /\ pc[current] \in {"block", "halt"}
    BY <1>1 DEF Schedule, HaltSchedule, IInv, Parked
  <2> QED
    <3>1. /\ current' \in Thread /\ pc' \in [Thread -> Places]
          /\ slice' \in [Thread -> Nat] /\ counter' = counter + 1
          /\ state' \in [Thread -> States]
          /\ UNCHANGED <<prio, ret, child, queued, pending, lost>>
      BY <2>1, PopEffects
    <3>2. counter' \in Nat
      BY <1>t, <3>1
    <3> QED
      BY <1>t, <3>1, <3>2 DEF TypeRest
<1>2. CASE ScheduleIdle
  BY <1>0, <1>t, <1>2
  DEF ScheduleIdle, TypeRest, States, Places, Effects
<1>3. CASE HaltAgain \/ UNCHANGED vars
  BY <1>0, <1>t, <1>3
  DEF HaltAgain, vars, TypeRest, States, Places, Effects
<1>4. CASE Start
  BY <1>0, <1>t, <1>4
  DEF Start, TypeRest, States, Places, Effects
<1>5. CASE Resume \/ ResumeCaughtInUser
  BY <1>0, <1>t, <1>5
  DEF Resume, ResumeCaughtInUser, FinishSchedule, TypeRest, States, Places, Effects
<1>6. CASE QueueThread
  BY <1>0, <1>t, <1>6
  DEF QueueThread, QueuedOnce, Forking, TypeRest, States, Places, Effects
<1>7. CASE Syscall \/ SysReturn \/ ReturnCaught
  BY <1>0, <1>t, <1>7
  DEF Syscall, SysReturn, ReturnCaught, TypeRest, States, Places, Effects
<1>8. CASE Sleep
  BY <1>0, <1>t, <1>8
  DEF Sleep, UpdateThread, TypeRest, States, Places, Effects
<1>9. ASSUME NEW t \in Thread, Wake(t) \/ IrqWake(t) PROVE  TypeRest'
  BY <1>0, <1>t, <1>9
  DEF Wake, IrqWake, UpdateThread, TypeRest, States, Places, Effects
<1>10. ASSUME NEW t \in Thread, Create(t) PROVE  TypeRest'
  BY <1>0, <1>t, <1>10
  DEF Create, TypeRest, States, Places, Effects
<1>11. ASSUME NEW p \in Parents, Exit(p) \/ ReturnFatal(p) \/ ResumeFatal(p)
       PROVE  TypeRest'
  <2>1. DoExit(p) /\ TypeOK /\ QueuedOnce
    BY <1>11 DEF Exit, ReturnFatal, ResumeFatal, IInv
  <2> QED
    BY <1>0, <1>t, <1>11, <2>1, ExitEffects
    DEF Exit, ReturnFatal, ResumeFatal, TypeRest, States, Places, Effects
<1>12. ASSUME NEW t \in Thread, NEW sig \in {"kill", "fatal", "caught"}, Kill(t, sig)
       PROVE  TypeRest'
  BY <1>0, <1>t, <1>12
  DEF Kill, UpdateThread, TypeRest, States, Places, Effects
<1>13. CASE ResumeCaughtInSyscall
  BY <1>0, <1>t, <1>13
  DEF ResumeCaughtInSyscall, TypeRest, States, Places, Effects
<1>14. CASE TickCount
  BY <1>0, <1>t, <1>14
  DEF TickCount, TypeRest, States, Places, Effects
<1>15. CASE Preempt
  BY <1>0, <1>t, <1>15, <1>r
  DEF Preempt, Timed, TypeRest, States, Places, Effects
<1> QED
  BY <1>1, <1>2, <1>3, <1>4, <1>5, <1>6, <1>7, <1>8, <1>9, <1>10, <1>11, <1>12, <1>13, <1>14, <1>15
  DEF Next, KernelStep, SignalStep

\* Every step leaves the other threads parked.
LEMMA ParkedStep ==
    ASSUME IInv, [Next]_vars
    PROVE  Parked'
<1>0. Parked /\ QueuedOnce /\ RunningIsCurrent
  BY DEF IInv
<1>t. /\ current \in Thread
      /\ state \in [Thread -> States]
      /\ pc \in [Thread -> Places]
      /\ ret \in [Thread -> {"none", "user", "kernel", "queue"}]
  BY DEF IInv, TypeOK
<1> USE ThreadAssumption, BoundAssumption DEF QueuedOnce, RunningIsCurrent
<1>1. CASE Schedule \/ HaltSchedule
  <2>1. NextThread # NoThread /\ PopAndSwitch(NextThread)
        /\ TypeOK /\ ListsMatchState /\ Parked /\ state[current] # "running"
        /\ pc[current] \in {"block", "halt"}
    BY <1>1 DEF Schedule, HaltSchedule, IInv, Parked
  <2> QED
    BY <1>0, <1>t, <2>1, PopEffects DEF Parked, Places, States
<1>2. CASE ScheduleIdle
  BY <1>0, <1>t, <1>2
  DEF ScheduleIdle, Parked, Places, States
<1>3. CASE HaltAgain \/ UNCHANGED vars
  BY <1>0, <1>t, <1>3
  DEF HaltAgain, vars, Parked, Places, States
<1>4. CASE Start
  BY <1>0, <1>t, <1>4
  DEF Start, Parked, Places, States
<1>5. CASE Resume \/ ResumeCaughtInUser
  BY <1>0, <1>t, <1>5
  DEF Resume, ResumeCaughtInUser, FinishSchedule, Parked, Places, States
<1>6. CASE QueueThread
  BY <1>0, <1>t, <1>6
  DEF QueueThread, Parked, Places, States
<1>7. CASE Syscall \/ SysReturn \/ ReturnCaught
  BY <1>0, <1>t, <1>7
  DEF Syscall, SysReturn, ReturnCaught, Parked, Places, States
<1>8. CASE Sleep
  BY <1>0, <1>t, <1>8
  DEF Sleep, UpdateThread, Parked, Places, States
<1>9. ASSUME NEW t \in Thread, Wake(t) \/ IrqWake(t) PROVE  Parked'
  BY <1>0, <1>t, <1>9
  DEF Wake, IrqWake, UpdateThread, Parked, Places, States
<1>10. ASSUME NEW t \in Thread, Create(t) PROVE  Parked'
  BY <1>0, <1>t, <1>10
  DEF Create, Parked, Places, States
<1>11. ASSUME NEW p \in Parents, Exit(p) \/ ReturnFatal(p) \/ ResumeFatal(p)
       PROVE  Parked'
  <2>1. DoExit(p) /\ TypeOK /\ QueuedOnce
    BY <1>11 DEF Exit, ReturnFatal, ResumeFatal, IInv
  <2> QED
    BY <1>0, <1>t, <1>11, <2>1, ExitEffects
    DEF Exit, ReturnFatal, ResumeFatal, Parked, Places, States
<1>12. ASSUME NEW t \in Thread, NEW sig \in {"kill", "fatal", "caught"}, Kill(t, sig)
       PROVE  Parked'
  BY <1>0, <1>t, <1>12
  DEF Kill, UpdateThread, Parked, Places, States
<1>13. CASE ResumeCaughtInSyscall
  BY <1>0, <1>t, <1>13
  DEF ResumeCaughtInSyscall, Parked, Places, States
<1>14. CASE TickCount
  BY <1>0, <1>t, <1>14
  DEF TickCount, Parked, Places, States
<1>15. CASE Preempt
  BY <1>0, <1>t, <1>15
  DEF Preempt, Timed, Parked, Places, States
<1> QED
  BY <1>1, <1>2, <1>3, <1>4, <1>5, <1>6, <1>7, <1>8, <1>9, <1>10, <1>11, <1>12, <1>13, <1>14, <1>15
  DEF Next, KernelStep, SignalStep

\* Every step queues a new thread at most once.
LEMMA QueuedStep ==
    ASSUME IInv, [Next]_vars
    PROVE  QueuedOnce'
<1>0. Parked /\ QueuedOnce /\ Preempted
  BY DEF IInv
<1>t. /\ current \in Thread
      /\ state \in [Thread -> States]
      /\ pc \in [Thread -> Places]
      /\ ret \in [Thread -> {"none", "user", "kernel", "queue"}]
      /\ child \in [Thread -> Thread \cup {NoThread}]
      /\ queued \in SUBSET Thread
  BY DEF IInv, TypeOK
<1> USE ThreadAssumption, BoundAssumption DEF Parked, Preempted
<1>1. CASE Schedule \/ HaltSchedule
  <2>1. NextThread # NoThread /\ PopAndSwitch(NextThread)
        /\ TypeOK /\ ListsMatchState /\ Parked /\ state[current] # "running"
        /\ pc[current] \in {"block", "halt"}
    BY <1>1 DEF Schedule, HaltSchedule, IInv, Parked
  <2> QED
    BY <1>0, <1>t, <2>1, PopEffects DEF QueuedOnce, Forking
<1>2. CASE ScheduleIdle
  BY <1>0, <1>t, <1>2
  DEF ScheduleIdle, QueuedOnce, Forking
<1>3. CASE HaltAgain \/ UNCHANGED vars
  BY <1>0, <1>t, <1>3
  DEF HaltAgain, vars, QueuedOnce, Forking
<1>4. CASE Start
  BY <1>0, <1>t, <1>4
  DEF Start, QueuedOnce, Forking
<1>5. CASE Resume \/ ResumeCaughtInUser
  BY <1>0, <1>t, <1>5
  DEF Resume, ResumeCaughtInUser, FinishSchedule, QueuedOnce, Forking
<1>6. CASE QueueThread
  BY <1>0, <1>t, <1>6
  DEF QueueThread, QueuedOnce, Forking
<1>7. CASE Syscall \/ SysReturn \/ ReturnCaught
  BY <1>0, <1>t, <1>7
  DEF Syscall, SysReturn, ReturnCaught, QueuedOnce, Forking
<1>8. CASE Sleep
  BY <1>0, <1>t, <1>8
  DEF Sleep, UpdateThread, QueuedOnce, Forking
<1>9. ASSUME NEW t \in Thread, Wake(t) \/ IrqWake(t) PROVE  QueuedOnce'
  BY <1>0, <1>t, <1>9
  DEF Wake, IrqWake, UpdateThread, QueuedOnce, Forking
<1>10. ASSUME NEW t \in Thread, Create(t) PROVE  QueuedOnce'
  BY <1>0, <1>t, <1>10
  DEF Create, QueuedOnce, Forking
<1>11. ASSUME NEW p \in Parents, Exit(p) \/ ReturnFatal(p) \/ ResumeFatal(p)
       PROVE  QueuedOnce'
  <2>1. DoExit(p) /\ TypeOK /\ QueuedOnce
    BY <1>11 DEF Exit, ReturnFatal, ResumeFatal, IInv
  <2> QED
    BY <1>0, <1>t, <1>11, <2>1, ExitEffects
    DEF Exit, ReturnFatal, ResumeFatal, QueuedOnce, Forking
<1>12. ASSUME NEW t \in Thread, NEW sig \in {"kill", "fatal", "caught"}, Kill(t, sig)
       PROVE  QueuedOnce'
  BY <1>0, <1>t, <1>12
  DEF Kill, UpdateThread, QueuedOnce, Forking
<1>13. CASE ResumeCaughtInSyscall
  BY <1>0, <1>t, <1>13
  DEF ResumeCaughtInSyscall, QueuedOnce, Forking
<1>14. CASE TickCount
  BY <1>0, <1>t, <1>14
  DEF TickCount, QueuedOnce, Forking
<1>15. CASE Preempt
  BY <1>0, <1>t, <1>15
  DEF Preempt, Timed, QueuedOnce, Forking
<1> QED
  BY <1>1, <1>2, <1>3, <1>4, <1>5, <1>6, <1>7, <1>8, <1>9, <1>10, <1>11, <1>12, <1>13, <1>14, <1>15
  DEF Next, KernelStep, SignalStep

\* Only a tick with IRQ8 idle preempts, so at most one thread owes the
\* acknowledgement.
LEMMA PreemptedStep ==
    ASSUME IInv, [Next]_vars
    PROVE  Preempted'
<1>0. Parked /\ Preempted /\ QueuedOnce
  BY DEF IInv
<1>t. /\ current \in Thread
      /\ pc \in [Thread -> Places]
      /\ ret \in [Thread -> {"none", "user", "kernel", "queue"}]
      /\ state \in [Thread -> States]
      /\ queued \in SUBSET Thread
  BY DEF IInv, TypeOK
<1> USE ThreadAssumption, BoundAssumption DEF Parked
<1>1. CASE Schedule \/ HaltSchedule
  <2>1. NextThread # NoThread /\ PopAndSwitch(NextThread)
        /\ TypeOK /\ ListsMatchState /\ Parked /\ state[current] # "running"
        /\ pc[current] \in {"block", "halt"}
    BY <1>1 DEF Schedule, HaltSchedule, IInv, Parked
  <2> QED
    BY <1>0, <1>t, <2>1, PopEffects DEF Preempted
<1>2. CASE ScheduleIdle
  BY <1>0, <1>t, <1>2
  DEF ScheduleIdle, Preempted
<1>3. CASE HaltAgain \/ UNCHANGED vars
  BY <1>0, <1>t, <1>3
  DEF HaltAgain, vars, Preempted
<1>4. CASE Start
  BY <1>0, <1>t, <1>4
  DEF Start, Preempted
<1>5. CASE Resume \/ ResumeCaughtInUser
  <2>1. /\ pc[current] = "resumed" /\ current' = current
        /\ pc' = [pc EXCEPT ![current] = IF ret[current] = "none" THEN "kernel"
                                          ELSE ret[current]]
        /\ ret' = [ret EXCEPT ![current] = "none"]
    BY <1>5 DEF Resume, ResumeCaughtInUser, FinishSchedule
  <2>2. ret[current] = "none" /\ inService => inService'
    BY <1>5, Zenon DEF Resume, ResumeCaughtInUser, FinishSchedule
  <2>3. ASSUME NEW t \in Thread, ret'[t] # "none"
        PROVE  t # current /\ ret[t] # "none" /\ pc'[t] = pc[t]
    BY <1>t, <2>1, <2>3
  <2>4. ASSUME NEW t \in Thread, ret'[t] # "none"
        PROVE  inService'
    <3>1. t # current /\ ret[t] # "none"
      BY <2>3, <2>4
    <3>2. inService /\ ret[current] = "none"
      BY <1>0, <1>t, <3>1, Zenon DEF Preempted
    <3> QED
      BY <2>2, <3>2, Zenon
  <2> QED
    BY <1>0, <2>3, <2>4 DEF Preempted
<1>6. CASE QueueThread
  BY <1>0, <1>t, <1>6
  DEF QueueThread, Preempted
<1>7. CASE Syscall \/ SysReturn \/ ReturnCaught
  BY <1>0, <1>t, <1>7
  DEF Syscall, SysReturn, ReturnCaught, Preempted
<1>8. CASE Sleep
  BY <1>0, <1>t, <1>8
  DEF Sleep, UpdateThread, Preempted
<1>9. ASSUME NEW t \in Thread, Wake(t) \/ IrqWake(t) PROVE  Preempted'
  BY <1>0, <1>t, <1>9
  DEF Wake, IrqWake, UpdateThread, Preempted
<1>10. ASSUME NEW t \in Thread, Create(t) PROVE  Preempted'
  BY <1>0, <1>t, <1>10
  DEF Create, QueuedOnce, Preempted
<1>11. ASSUME NEW p \in Parents, Exit(p) \/ ReturnFatal(p) \/ ResumeFatal(p)
       PROVE  Preempted'
  <2>1. DoExit(p) /\ TypeOK /\ QueuedOnce
    BY <1>11 DEF Exit, ReturnFatal, ResumeFatal, IInv
  <2> QED
    BY <1>0, <1>t, <1>11, <2>1, ExitEffects
    DEF Exit, ReturnFatal, ResumeFatal, Preempted
<1>12. ASSUME NEW t \in Thread, NEW sig \in {"kill", "fatal", "caught"}, Kill(t, sig)
       PROVE  Preempted'
  BY <1>0, <1>t, <1>12
  DEF Kill, UpdateThread, Preempted
<1>13. CASE ResumeCaughtInSyscall
  BY <1>0, <1>t, <1>13
  DEF ResumeCaughtInSyscall, Preempted
<1>14. CASE TickCount
  BY <1>0, <1>t, <1>14
  DEF TickCount, Preempted
<1>15. CASE Preempt
  BY <1>0, <1>t, <1>15
  DEF Preempt, Timed, Preempted
<1> QED
  BY <1>1, <1>2, <1>3, <1>4, <1>5, <1>6, <1>7, <1>8, <1>9, <1>10, <1>11, <1>12, <1>13, <1>14, <1>15
  DEF Next, KernelStep, SignalStep

\* Without signals no lock and no acknowledgement is lost.
LEMMA UndisturbedStep ==
    ASSUME IInv, [Next]_vars
    PROVE  Undisturbed'
<1>0. Preempted /\ Undisturbed
  BY DEF IInv
<1>t. /\ current \in Thread
      /\ pc \in [Thread -> Places]
      /\ ret \in [Thread -> {"none", "user", "kernel", "queue"}]
      /\ pending \in [Thread -> SUBSET Effects]
      /\ lost \in Nat
  BY DEF IInv, TypeOK
<1> USE ThreadAssumption, BoundAssumption DEF Preempted
<1>1. CASE Schedule \/ HaltSchedule
  <2>1. NextThread # NoThread /\ PopAndSwitch(NextThread)
        /\ TypeOK /\ ListsMatchState /\ Parked /\ state[current] # "running"
        /\ pc[current] \in {"block", "halt"}
    BY <1>1 DEF Schedule, HaltSchedule, IInv, Parked
  <2> QED
    BY <1>0, <1>t, <2>1, PopEffects DEF Undisturbed
<1>2. CASE ScheduleIdle
  BY <1>0, <1>t, <1>2
  DEF ScheduleIdle, Undisturbed
<1>3. CASE HaltAgain \/ UNCHANGED vars
  BY <1>0, <1>t, <1>3
  DEF HaltAgain, vars, Undisturbed
<1>4. CASE Start
  BY <1>0, <1>t, <1>4
  DEF Start, Undisturbed
<1>5. CASE Resume \/ ResumeCaughtInUser
  BY <1>0, <1>t, <1>5
  DEF Resume, ResumeCaughtInUser, FinishSchedule, Undisturbed
<1>6. CASE QueueThread
  BY <1>0, <1>t, <1>6
  DEF QueueThread, Undisturbed
<1>7. CASE Syscall \/ SysReturn \/ ReturnCaught
  BY <1>0, <1>t, <1>7
  DEF Syscall, SysReturn, ReturnCaught, Undisturbed
<1>8. CASE Sleep
  BY <1>0, <1>t, <1>8
  DEF Sleep, UpdateThread, Undisturbed
<1>9. ASSUME NEW t \in Thread, Wake(t) \/ IrqWake(t) PROVE  Undisturbed'
  BY <1>0, <1>t, <1>9
  DEF Wake, IrqWake, UpdateThread, Undisturbed
<1>10. ASSUME NEW t \in Thread, Create(t) PROVE  Undisturbed'
  BY <1>0, <1>t, <1>10
  DEF Create, Undisturbed
<1>11. ASSUME NEW p \in Parents, Exit(p) \/ ReturnFatal(p) \/ ResumeFatal(p)
       PROVE  Undisturbed'
  <2>1. DoExit(p) /\ TypeOK /\ QueuedOnce
    BY <1>11 DEF Exit, ReturnFatal, ResumeFatal, IInv
  <2> QED
    BY <1>0, <1>t, <1>11, <2>1, ExitEffects
    DEF Exit, ReturnFatal, ResumeFatal, Undisturbed
<1>12. ASSUME NEW t \in Thread, NEW sig \in {"kill", "fatal", "caught"}, Kill(t, sig)
       PROVE  Undisturbed'
  BY <1>0, <1>t, <1>12
  DEF Kill, UpdateThread, Undisturbed
<1>13. CASE ResumeCaughtInSyscall
  BY <1>0, <1>t, <1>13
  DEF ResumeCaughtInSyscall, Undisturbed
<1>14. CASE TickCount
  BY <1>0, <1>t, <1>14
  DEF TickCount, Undisturbed
<1>15. CASE Preempt
  BY <1>0, <1>t, <1>15
  DEF Preempt, Timed, Undisturbed
<1> QED
  BY <1>1, <1>2, <1>3, <1>4, <1>5, <1>6, <1>7, <1>8, <1>9, <1>10, <1>11, <1>12, <1>13, <1>14, <1>15
  DEF Next, KernelStep, SignalStep

\* A switch leaves only a thread that is not RUNNING.
LEMMA RunningStep ==
    ASSUME IInv, [Next]_vars
    PROVE  RunningIsCurrent'
<1>0. Parked /\ RunningIsCurrent
  BY DEF IInv
<1>t. /\ current \in Thread
      /\ pc \in [Thread -> Places]
      /\ state \in [Thread -> States]
  BY DEF IInv, TypeOK
<1> USE ThreadAssumption, BoundAssumption DEF Parked
<1>1. CASE Schedule \/ HaltSchedule
  <2>1. NextThread # NoThread /\ PopAndSwitch(NextThread)
        /\ TypeOK /\ ListsMatchState /\ Parked /\ state[current] # "running"
        /\ pc[current] \in {"block", "halt"}
    BY <1>1 DEF Schedule, HaltSchedule, IInv, Parked
  <2> QED
    BY <1>0, <1>t, <2>1, PopEffects DEF RunningIsCurrent
<1>2. CASE ScheduleIdle
  BY <1>0, <1>t, <1>2
  DEF ScheduleIdle, RunningIsCurrent
<1>3. CASE HaltAgain \/ UNCHANGED vars
  BY <1>0, <1>t, <1>3
  DEF HaltAgain, vars, RunningIsCurrent
<1>4. CASE Start
  BY <1>0, <1>t, <1>4
  DEF Start, RunningIsCurrent
<1>5. CASE Resume \/ ResumeCaughtInUser
  BY <1>0, <1>t, <1>5
  DEF Resume, ResumeCaughtInUser, FinishSchedule, RunningIsCurrent
<1>6. CASE QueueThread
  BY <1>0, <1>t, <1>6
  DEF QueueThread, RunningIsCurrent
<1>7. CASE Syscall \/ SysReturn \/ ReturnCaught
  BY <1>0, <1>t, <1>7
  DEF Syscall, SysReturn, ReturnCaught, RunningIsCurrent
<1>8. CASE Sleep
  BY <1>0, <1>t, <1>8
  DEF Sleep, UpdateThread, RunningIsCurrent
<1>9. ASSUME NEW t \in Thread, Wake(t) \/ IrqWake(t) PROVE  RunningIsCurrent'
  BY <1>0, <1>t, <1>9
  DEF Wake, IrqWake, UpdateThread, RunningIsCurrent
<1>10. ASSUME NEW t \in Thread, Create(t) PROVE  RunningIsCurrent'
  BY <1>0, <1>t, <1>10
  DEF Create, RunningIsCurrent
<1>11. ASSUME NEW p \in Parents, Exit(p) \/ ReturnFatal(p) \/ ResumeFatal(p)
       PROVE  RunningIsCurrent'
  <2>1. DoExit(p) /\ TypeOK /\ QueuedOnce
    BY <1>11 DEF Exit, ReturnFatal, ResumeFatal, IInv
  <2> QED
    BY <1>0, <1>t, <1>11, <2>1, ExitEffects
    DEF Exit, ReturnFatal, ResumeFatal, RunningIsCurrent
<1>12. ASSUME NEW t \in Thread, NEW sig \in {"kill", "fatal", "caught"}, Kill(t, sig)
       PROVE  RunningIsCurrent'
  BY <1>0, <1>t, <1>12
  DEF Kill, UpdateThread, RunningIsCurrent
<1>13. CASE ResumeCaughtInSyscall
  BY <1>0, <1>t, <1>13
  DEF ResumeCaughtInSyscall, RunningIsCurrent
<1>14. CASE TickCount
  BY <1>0, <1>t, <1>14
  DEF TickCount, RunningIsCurrent
<1>15. CASE Preempt
  BY <1>0, <1>t, <1>15
  DEF Preempt, Timed, RunningIsCurrent
<1> QED
  BY <1>1, <1>2, <1>3, <1>4, <1>5, <1>6, <1>7, <1>8, <1>9, <1>10, <1>11, <1>12, <1>13, <1>14, <1>15
  DEF Next, KernelStep, SignalStep

\* Every step opens and closes lock regions in pairs.
LEMMA LockStep ==
    ASSUME IInv, [Next]_vars
    PROVE  LockBalance'
<1>0. Parked /\ LockBalance
  BY DEF IInv
<1>t. /\ current \in Thread
      /\ pc \in [Thread -> Places]
      /\ counter \in Nat
      /\ lost \in Nat
      /\ ret \in [Thread -> {"none", "user", "kernel", "queue"}]
  BY DEF IInv, TypeOK
<1> USE ThreadAssumption, BoundAssumption DEF Parked
<1>1. CASE Schedule \/ HaltSchedule
  <2>1. NextThread # NoThread /\ PopAndSwitch(NextThread)
        /\ TypeOK /\ ListsMatchState /\ Parked /\ state[current] # "running"
        /\ pc[current] \in {"block", "halt"}
    BY <1>1 DEF Schedule, HaltSchedule, IInv, Parked
  <2> QED
    BY <1>0, <1>t, <2>1, PopEffects DEF LockBalance
<1>2. CASE ScheduleIdle
  BY <1>0, <1>t, <1>2
  DEF ScheduleIdle, LockBalance
<1>3. CASE HaltAgain \/ UNCHANGED vars
  BY <1>0, <1>t, <1>3
  DEF HaltAgain, vars, LockBalance
<1>4. CASE Start
  BY <1>0, <1>t, <1>4
  DEF Start, LockBalance
<1>5. CASE Resume \/ ResumeCaughtInUser
  BY <1>0, <1>t, <1>5
  DEF Resume, ResumeCaughtInUser, FinishSchedule, LockBalance
<1>6. CASE QueueThread
  BY <1>0, <1>t, <1>6
  DEF QueueThread, LockBalance
<1>7. CASE Syscall \/ SysReturn \/ ReturnCaught
  BY <1>0, <1>t, <1>7
  DEF Syscall, SysReturn, ReturnCaught, LockBalance
<1>8. CASE Sleep
  BY <1>0, <1>t, <1>8
  DEF Sleep, UpdateThread, LockBalance
<1>9. ASSUME NEW t \in Thread, Wake(t) \/ IrqWake(t) PROVE  LockBalance'
  BY <1>0, <1>t, <1>9
  DEF Wake, IrqWake, UpdateThread, LockBalance
<1>10. ASSUME NEW t \in Thread, Create(t) PROVE  LockBalance'
  BY <1>0, <1>t, <1>10
  DEF Create, LockBalance
<1>11. ASSUME NEW p \in Parents, Exit(p) \/ ReturnFatal(p) \/ ResumeFatal(p)
       PROVE  LockBalance'
  <2>1. DoExit(p) /\ TypeOK /\ QueuedOnce
    BY <1>11 DEF Exit, ReturnFatal, ResumeFatal, IInv
  <2> QED
    BY <1>0, <1>t, <1>11, <2>1, ExitEffects
    DEF Exit, ReturnFatal, ResumeFatal, LockBalance
<1>12. ASSUME NEW t \in Thread, NEW sig \in {"kill", "fatal", "caught"}, Kill(t, sig)
       PROVE  LockBalance'
  BY <1>0, <1>t, <1>12
  DEF Kill, UpdateThread, LockBalance
<1>13. CASE ResumeCaughtInSyscall
  BY <1>0, <1>t, <1>13
  DEF ResumeCaughtInSyscall, LockBalance
<1>14. CASE TickCount
  BY <1>0, <1>t, <1>14
  DEF TickCount, LockBalance
<1>15. CASE Preempt
  BY <1>0, <1>t, <1>15
  DEF Preempt, Timed, LockBalance
<1> QED
  BY <1>1, <1>2, <1>3, <1>4, <1>5, <1>6, <1>7, <1>8, <1>9, <1>10, <1>11, <1>12, <1>13, <1>14, <1>15
  DEF Next, KernelStep, SignalStep

\* A processor enters the halt with interrupts on exactly when the counter is
\* zero, and nothing changes either while it is halted.
LEMMA HaltStep ==
    ASSUME IInv, [Next]_vars
    PROVE  HaltFlag'
<1>0. HaltFlag /\ Parked /\ current \in Thread /\ pc \in [Thread -> Places]
      /\ ret \in [Thread -> {"none", "user", "kernel", "queue"}]
  BY DEF IInv, TypeOK
<1>1. ASSUME pc'[current'] # "halt" PROVE HaltFlag'
  BY <1>1, Zenon DEF HaltFlag
<1>2. ASSUME UNCHANGED <<current, pc, ie, counter>> PROVE HaltFlag'
  BY <1>0, <1>2, Zenon DEF HaltFlag
<1>3. CASE Schedule \/ HaltSchedule
  <2>1. NextThread # NoThread /\ PopAndSwitch(NextThread) /\ TypeOK
        /\ ListsMatchState
    BY <1>3 DEF Schedule, HaltSchedule, IInv
  <2> QED
    BY <1>0, <1>1, <2>1, PopEffects
<1>4. CASE ScheduleIdle
  BY <1>4, Zenon DEF ScheduleIdle, HaltFlag
<1>5. CASE HaltAgain \/ UNCHANGED vars \/ TickCount
  BY <1>2, <1>5, Zenon DEF HaltAgain, TickCount, vars
<1>6. CASE Start \/ Syscall \/ SysReturn \/ ReturnCaught \/ QueueThread \/ Sleep
  <2>1. pc'[current'] # "halt"
    BY <1>0, <1>6 DEF Start, Syscall, SysReturn, ReturnCaught, QueueThread, Sleep
  <2> QED
    BY <1>1, <2>1
<1>7. CASE Resume \/ ResumeCaughtInUser \/ ResumeCaughtInSyscall
  <2>1. pc'[current'] # "halt"
    BY <1>0, <1>7 DEF Resume, ResumeCaughtInUser, FinishSchedule,
       ResumeCaughtInSyscall
  <2> QED
    BY <1>1, <2>1
<1>8. ASSUME NEW t \in Thread, Wake(t) \/ Create(t) PROVE HaltFlag'
  <2>1. pc'[current'] # "halt"
    BY <1>0, <1>8 DEF Wake, Create
  <2> QED
    BY <1>1, <2>1
<1>9. ASSUME NEW t \in Thread, IrqWake(t) PROVE HaltFlag'
  BY <1>2, <1>9, Zenon DEF IrqWake
<1>10. ASSUME NEW p \in Parents, Exit(p) \/ ReturnFatal(p) \/ ResumeFatal(p)
       PROVE  HaltFlag'
  <2>1. pc'[current'] # "halt"
    BY <1>0, <1>10 DEF Exit, ReturnFatal, ResumeFatal, DoExit
  <2> QED
    BY <1>1, <2>1
<1>11. ASSUME NEW t \in Thread, NEW sig \in {"kill", "fatal", "caught"}, Kill(t, sig)
       PROVE  HaltFlag'
  <2>1. pc'[current'] # "halt"
    BY <1>11 DEF Kill
  <2> QED
    BY <1>1, <2>1
<1>12. CASE Preempt
  <2>1. pc'[current'] # "halt"
    BY <1>0, <1>12 DEF Preempt
  <2> QED
    BY <1>1, <2>1
<1> QED
  BY <1>3, <1>4, <1>5, <1>6, <1>7, <1>8, <1>9, <1>10, <1>11, <1>12
  DEF Next, KernelStep, SignalStep

-----------------------------------------------------------------------------
(* The theorems.                                                           *)

\* IInv is an invariant of the scheduler.
THEOREM Inductive == Spec => []IInv
<1>1. IInv /\ [Next]_vars => IInv'
  <2> SUFFICES ASSUME IInv, [Next]_vars PROVE IInv'
    OBVIOUS
  <2>1. TypeOK'
    BY ListsStep, FlagStep, TypeStep DEF ListsOK, TypeRest, TypeOK
  <2> QED
    BY <2>1, ListsStep, ParkedStep, QueuedStep, PreemptedStep, UndisturbedStep,
       RunningStep, LockStep, HaltStep DEF IInv, ListsOK
<1> QED
  BY <1>1, InitIInv, PTL DEF Spec

\* Every variable keeps its type, scheduler_lock_counter never going below
\* zero included.
THEOREM TypeCorrect == Spec => []TypeOK
<1>1. IInv => TypeOK
  BY DEF IInv
<1> QED
  BY <1>1, Inductive, PTL

\* The ready lists hold exactly the queued READY threads, each once, and only
\* the thread on the processor is RUNNING: no thread is lost by
\* update_thread, the switch, fork, exit, signals or preemption.
THEOREM NoThreadLost == Spec => [](ListsMatchState /\ RunningIsCurrent)
<1>1. IInv => ListsMatchState /\ RunningIsCurrent
  BY DEF IInv
<1> QED
  BY <1>1, Inductive, PTL

\* scheduler_lock_counter counts the open lock regions.
THEOREM LockCounted == Spec => []LockBalance
<1>1. IInv => LockBalance
  BY DEF IInv
<1> QED
  BY <1>1, Inductive, PTL

\* schedule() halts the processor with interrupts on exactly when nobody left
\* the scheduler locked.
THEOREM HaltFlagged == Spec => []HaltFlag
<1>1. IInv => HaltFlag
  BY DEF IInv
<1> QED
  BY <1>1, Inductive, PTL

\* As long as no signal is sent, user code runs with the scheduler unlocked,
\* the processor never halts with interrupts off, and every IRQ8 is
\* acknowledged by exactly one thread.
THEOREM QuietScheduler ==
    ASSUME Killable = {}
    PROVE  Spec => [](UserUnlocked /\ HaltInterruptible /\ EoiOwed)
<1>1. IInv => UserUnlocked /\ HaltInterruptible /\ EoiOwed
  <2> SUFFICES ASSUME IInv PROVE UserUnlocked /\ HaltInterruptible /\ EoiOwed
    OBVIOUS
  <2>1. lost = 0 /\ (inService => \E t \in Thread : ret[t] # "none")
    BY DEF IInv, Undisturbed
  <2>2. pc[current] \in {"user", "halt"} => counter = 0
    BY <2>1 DEF IInv, LockBalance
  <2>3. UserUnlocked
    BY <2>2 DEF UserUnlocked
  <2>4. HaltInterruptible
    BY <2>2, Zenon DEF IInv, HaltFlag, HaltInterruptible
  <2>5. EoiOwed
    BY <2>1, Zenon DEF IInv, Preempted, EoiOwed
  <2> QED
    BY <2>3, <2>4, <2>5
<1> QED
  BY <1>1, Inductive, PTL

=============================================================================
