----------------------------- MODULE TaskProofs -----------------------------
(***************************************************************************)
(* Proofs about the scheduler for any number of tasks, whichever of them   *)
(* yield, finish or compute for ever, the timer hitting anywhere.  What    *)
(* breaks it is a tick inside a voluntary task_yield: the type invariant   *)
(* holds beyond one, everything else up to the first (the run MCTaskRace   *)
(* shows what happens then).                                               *)
(*                                                                         *)
(* OwnContexts speaks of contexts and not of the stacks in them, and one   *)
(* tick later such a stack is the one the CPU is on.  Untorn therefore     *)
(* says what every stack looks like: the thread's own code at the bottom,  *)
(* interrupts above it, a call of task_yield only at the top; and that of  *)
(* the shell, which never yields, has that call only above an interrupt.   *)
(* Places is what remains after such a tick: no stack is empty, and every  *)
(* task_yield in one still chooses among the slots there are.              *)
(***************************************************************************)
EXTENDS MCTask, SequenceTheorems, TLAPS

Bottom == {"start", "code", "done"}
InSwitch == {"enter", "saved", "picked"}
Brief == InSwitch \cup {"irq"}

StackOf(t, fs) ==
  /\ fs \in Seq(Frame) /\ fs # <<>>
  /\ \A i \in 1..Len(fs) : fs[i].at \in Bottom <=> i = 1
  /\ fs[1].slot = t
  /\ t = Main => fs[1].at = "code"
  /\ \A i \in 1..Len(fs) - 1 : fs[i].at \notin Brief
  /\ t = Main /\ Last(fs).at \in InSwitch => fs[Len(fs) - 1].at = "iret"

(* A stack that task_yield has left, to be jumped back to.                 *)
Suspended(t, fs) ==
  /\ StackOf(t, fs)
  /\ Last(fs).at \notin Brief
  /\ t = Main => Last(fs).at = "iret"

HasContext(t) == ctx[t].owner = t /\ Suspended(t, ctx[t].frames)
AwayFromCpu(t) == Created(t) /\ (t # owner \/ At("saved") \/ At("picked"))

Untorn ==
  /\ TypeOK
  /\ Created(owner) /\ StackOf(owner, frames)
  /\ ~At("picked") => current = owner
  /\ At("picked") => current = Top.slot /\ Created(Top.slot)
  /\ At("saved") => Top.slot = owner /\ Top.total = ntasks + 1
  /\ \A t \in Threads : AwayFromCpu(t) => HasContext(t)
  /\ ShellInterruptible

(* A stack the CPU can go on with, when there are n tasks.                 *)
Sound(fs, n) ==
  /\ fs \in Seq(Frame) /\ fs # <<>>
  /\ \A i \in 1..Len(fs) :
       /\ fs[i].at \in Bottom <=> i = 1
       /\ fs[i].at = "saved" => fs[i].total \in 1..n + 1
       /\ fs[i].at = "picked" => fs[i].slot = Main \/ fs[i].slot < n

(* Where interrupts are off, as long as nothing was torn.                  *)
Masked == At("irq") \/ (owner = Main /\ Top.at \in InSwitch)

Places ==
  /\ TypeOK
  /\ Sound(frames, ntasks)
  /\ \A t \in Threads : ctx[t].frames = <<>> \/ Sound(ctx[t].frames, ntasks)
  /\ \A t \in Threads : Created(t) /\ ctx[t].frames = <<>> => t = Main /\ ~torn
  /\ ~torn /\ Masked => ~iflag

IInv == Places /\ (~torn => Untorn)

-----------------------------------------------------------------------------
(* Stacks as sequences.                                                    *)

(* A frame built by F has its three fields.                                *)
LEMMA FrameFields ==
  ASSUME NEW at \in {"start", "code", "done", "irq", "iret", "enter", "saved", "picked"},
         NEW s \in Threads, NEW n \in 0..MaxTasks+1
  PROVE  /\ F(at, s, n) \in Frame
         /\ F(at, s, n).at = at /\ F(at, s, n).slot = s /\ F(at, s, n).total = n
  BY DEF F, Frame

(* Every frame is at one of the places, belongs to a thread, and so on.    *)
LEMMA TopFrame ==
  ASSUME NEW fs \in Seq(Frame), fs # <<>>
  PROVE  /\ Len(fs) \in Nat /\ Len(fs) >= 1
         /\ Last(fs) = fs[Len(fs)] /\ Last(fs) \in Frame
  BY DEF Last

(* The frame below the top one has an index, when there is one.            *)
LEMMA BelowTop ==
  ASSUME NEW n \in Nat, n >= 1, n # 1
  PROVE  n - 1 \in 1..n - 1
  OBVIOUS

(* What is left when the top frame is popped.                              *)
LEMMA FrontIs ==
  ASSUME NEW fs \in Seq(Frame), Len(fs) >= 2
  PROVE  /\ Front(fs) \in Seq(Frame) /\ Front(fs) # <<>>
         /\ Len(Front(fs)) = Len(fs) - 1
         /\ \A i \in 1..Len(fs) - 1 : Front(fs)[i] = fs[i]
         /\ Last(Front(fs)) = fs[Len(fs) - 1]
<1> DEFINE g == SubSeq(fs, 1, Len(fs) - 1)
<1>1. Len(fs) \in Nat /\ fs \in [1..Len(fs) -> Frame]
  OBVIOUS
<1>2. g \in Seq(Frame) /\ Len(g) = Len(fs) - 1
  BY <1>1, SubSeqProperties
<1>3. \A i \in 1..Len(fs) - 1 : g[i] = fs[i]
  BY <1>1, SubSeqProperties
<1>4. g # <<>> /\ g[Len(g)] = fs[Len(fs) - 1]
  <2>1. Len(fs) - 1 \in 1..Len(fs) - 1
    BY <1>1
  <2>2. g[Len(fs) - 1] = fs[Len(fs) - 1]
    BY <2>1, <1>3
  <2> HIDE DEF g
  <2>3. Len(g) >= 1 /\ Len(<<>>) = 0
    BY <1>2
  <2> QED BY <2>2, <2>3, <1>2
<1> QED BY <1>2, <1>3, <1>4 DEF Front, Last

(* The shape of a stack survives a call, if only task_yield's caller is    *)
(* below its frame.                                                        *)
LEMMA PushStack ==
  ASSUME NEW t \in Threads, NEW fs, StackOf(t, fs), NEW f \in Frame,
         f.at \notin Bottom, Last(fs).at \notin Brief,
         t = Main /\ f.at \in InSwitch => Last(fs).at = "iret"
  PROVE  StackOf(t, Append(fs, f)) /\ Last(Append(fs, f)) = f
<1> DEFINE g == Append(fs, f)
<1>1. fs \in Seq(Frame) /\ fs # <<>>
  BY DEF StackOf
<1>2. /\ Len(fs) \in Nat /\ Len(fs) >= 1
      /\ Last(fs) = fs[Len(fs)]
  BY <1>1, TopFrame
<1>3. /\ g \in Seq(Frame) /\ g # <<>> /\ Len(g) = Len(fs) + 1
      /\ \A i \in 1..Len(fs) : g[i] = fs[i]
      /\ g[Len(fs) + 1] = f
  BY <1>1
<1>4. Last(g) = f
  BY <1>3 DEF Last
<1>5. \A i \in 1..Len(g) : g[i].at \in Bottom <=> i = 1
  BY <1>2, <1>3 DEF StackOf
<1>6. g[1].slot = t /\ (t = Main => g[1].at = "code")
  BY <1>2, <1>3 DEF StackOf
<1>7. \A i \in 1..Len(g) - 1 : g[i].at \notin Brief
  <2> SUFFICES ASSUME NEW i \in 1..Len(fs) PROVE fs[i].at \notin Brief
    BY <1>2, <1>3
  <2>1. CASE i = Len(fs)
    BY <2>1, <1>2
  <2>2. CASE i # Len(fs)
    BY <2>2, <1>2 DEF StackOf
  <2> QED BY <2>1, <2>2
<1>8. t = Main /\ Last(g).at \in InSwitch => g[Len(g) - 1].at = "iret"
  BY <1>2, <1>3, <1>4
<1> QED BY <1>3, <1>4, <1>5, <1>6, <1>7, <1>8 DEF StackOf

(* The shape survives a step of the top frame that stays in its own code,  *)
(* in an interrupt or in task_yield.                                       *)
LEMMA GotoStack ==
  ASSUME NEW t \in Threads, NEW fs, StackOf(t, fs), NEW f \in Frame,
         f.at \in Bottom <=> Last(fs).at \in Bottom,
         f.at \in Bottom => f.slot = t /\ (t = Main => f.at = "code"),
         f.at \in InSwitch => Last(fs).at \in InSwitch
  PROVE  /\ StackOf(t, [fs EXCEPT ![Len(fs)] = f])
         /\ Last([fs EXCEPT ![Len(fs)] = f]) = f
<1> DEFINE g == [fs EXCEPT ![Len(fs)] = f]
<1>1. fs \in Seq(Frame) /\ fs # <<>>
  BY DEF StackOf
<1>2. /\ Len(fs) \in Nat /\ Len(fs) >= 1
      /\ Last(fs) = fs[Len(fs)]
  BY <1>1, TopFrame
<1>3. /\ g \in Seq(Frame) /\ g # <<>> /\ Len(g) = Len(fs)
      /\ \A i \in 1..Len(fs) - 1 : g[i] = fs[i]
      /\ g[Len(fs)] = f
  BY <1>1, <1>2
<1>4. Last(g) = f
  BY <1>3 DEF Last
<1>5. \A i \in 1..Len(g) : g[i].at \in Bottom <=> i = 1
  <2> SUFFICES ASSUME NEW i \in 1..Len(fs) PROVE g[i].at \in Bottom <=> i = 1
    BY <1>3
  <2>1. fs[i].at \in Bottom <=> i = 1
    BY DEF StackOf
  <2>2. CASE i = Len(fs)
    BY <2>1, <2>2, <1>2, <1>3
  <2>3. CASE i # Len(fs)
    BY <2>1, <2>3, <1>2, <1>3
  <2> QED BY <2>2, <2>3
<1>6. g[1].slot = t /\ (t = Main => g[1].at = "code")
  <2>1. CASE Len(fs) = 1
    <3>1. g[1] = f
      BY <2>1, <1>3
    <3>2. f.at \in Bottom
      BY <2>1, <1>2, <1>3, <1>5, <3>1
    <3> QED BY <3>1, <3>2
  <2>2. CASE Len(fs) # 1
    <3>1. g[1] = fs[1]
      BY <2>2, <1>2, <1>3
    <3>2. fs[1].slot = t /\ (t = Main => fs[1].at = "code")
      BY DEF StackOf
    <3> QED BY <3>1, <3>2
  <2> QED BY <2>1, <2>2
<1>7. \A i \in 1..Len(g) - 1 : g[i].at \notin Brief
  BY <1>3 DEF StackOf
<1>8. t = Main /\ Last(g).at \in InSwitch => g[Len(g) - 1].at = "iret"
  <2> SUFFICES ASSUME t = Main, f.at \in InSwitch PROVE g[Len(g) - 1].at = "iret"
    BY <1>4
  <2>1. fs[Len(fs) - 1].at = "iret"
    BY DEF StackOf
  <2>2. f.at \notin Bottom
    BY DEF Bottom, InSwitch
  <2>3. Len(fs) # 1
    BY <2>2, <1>2 DEF StackOf
  <2>4. Len(fs) - 1 \in 1..Len(fs) - 1
    BY <2>3, <1>2, BelowTop
  <2>5. g[Len(fs) - 1] = fs[Len(fs) - 1]
    BY <2>4, <1>3
  <2>6. Len(g) = Len(fs)
    BY <1>3
  <2> HIDE DEF g
  <2> QED BY <2>1, <2>5, <2>6
<1> QED BY <1>3, <1>4, <1>5, <1>6, <1>7, <1>8 DEF StackOf

(* Above its own code every stack can be popped, and what remains is a     *)
(* stack outside task_yield; that of the shell, if it was in task_yield,   *)
(* is one that an interrupt is about to leave.                             *)
LEMMA PopStack ==
  ASSUME NEW t \in Threads, NEW fs, StackOf(t, fs), Last(fs).at \notin Bottom
  PROVE  /\ StackOf(t, Front(fs))
         /\ Last(Front(fs)).at \notin Brief
         /\ t = Main /\ Last(fs).at \in InSwitch => Last(Front(fs)).at = "iret"
<1> DEFINE g == Front(fs)
<1>1. fs \in Seq(Frame) /\ fs # <<>>
  BY DEF StackOf
<1>2. /\ Len(fs) \in Nat /\ Len(fs) >= 1
      /\ Last(fs) = fs[Len(fs)]
  BY <1>1, TopFrame
<1>3. Len(fs) >= 2
  BY <1>2 DEF StackOf
<1>4. /\ g \in Seq(Frame) /\ g # <<>>
      /\ Len(g) = Len(fs) - 1
      /\ \A i \in 1..Len(fs) - 1 : g[i] = fs[i]
      /\ Last(g) = fs[Len(fs) - 1]
  BY <1>1, <1>3, FrontIs
<1>5. \A i \in 1..Len(g) : g[i].at \in Bottom <=> i = 1
  BY <1>2, <1>4 DEF StackOf
<1>6. g[1].slot = t /\ (t = Main => g[1].at = "code")
  BY <1>3, <1>2, <1>4 DEF StackOf
<1>7. Last(g).at \notin Brief
  BY <1>3, <1>2, <1>4 DEF StackOf
<1>8. \A i \in 1..Len(g) - 1 : g[i].at \notin Brief
  BY <1>2, <1>4 DEF StackOf
<1>9. t = Main /\ Last(fs).at \in InSwitch => Last(g).at = "iret"
  BY <1>4 DEF StackOf
<1> HIDE DEF g
<1>10. StackOf(t, g)
  BY <1>4, <1>5, <1>6, <1>7, <1>8 DEF StackOf, Brief
<1> QED BY <1>7, <1>9, <1>10 DEF g

-----------------------------------------------------------------------------
(* The rotation of task_yield.                                             *)

(* Candidates are slots, the virtual one included, and the virtual one is  *)
(* among them: from a task's slot it is ntasks - slot further on, from     *)
(* itself a whole round.                                                   *)
LEMMA Rotation ==
  ASSUME TypeOK, Created(owner), Top.slot = owner, Top.total = ntasks + 1
  PROVE  /\ \A i \in 1..Top.total : Candidate(i) \in 0..ntasks
         /\ \E i \in 1..Top.total : Takes(i)
<1>1. ntasks \in Nat /\ (owner = Main \/ owner \in 0..ntasks-1)
  BY TaskAssumption DEF TypeOK, Created, Threads, Slots, Main
<1>2. \A i \in 1..Top.total : Candidate(i) \in 0..ntasks
  BY <1>1 DEF Candidate, Main
<1>3. CASE owner = Main
  <2>1. ntasks + 1 \in 1..Top.total
    BY <1>1
  <2>2. Candidate(ntasks + 1) = (ntasks + (ntasks + 1)) % (ntasks + 1)
    BY <1>1, <1>3 DEF Candidate
  <2>3. (ntasks + (ntasks + 1)) % (ntasks + 1) = ntasks
    BY <1>1
  <2>4. Takes(ntasks + 1)
    BY <2>2, <2>3 DEF Takes
  <2> QED BY <1>2, <2>1, <2>4
<1>4. CASE owner # Main
  <2>1. ntasks - owner \in 1..Top.total
    BY <1>1, <1>4
  <2>2. Candidate(ntasks - owner) = ntasks % (ntasks + 1)
    BY <1>1, <1>4 DEF Candidate
  <2>3. ntasks % (ntasks + 1) = ntasks
    BY <1>1
  <2>4. Takes(ntasks - owner)
    BY <2>2, <2>3 DEF Takes
  <2> QED BY <1>2, <2>1, <2>4
<1> QED BY <1>3, <1>4

(* The thread of a candidate exists.                                       *)
LEMMA TargetCreated ==
  ASSUME TypeOK, NEW i \in 1..Top.total, Candidate(i) \in 0..ntasks
  PROVE  Target(i) \in Threads /\ Created(Target(i))
  BY TaskAssumption DEF TypeOK, Target, Created, Threads, Slots, Main

-----------------------------------------------------------------------------
(* The first state.                                                        *)
LEMMA InitUntorn == Init => Untorn
<1> SUFFICES ASSUME Init PROVE Untorn
  OBVIOUS
<1>1. F("code", Main, 0) \in Frame /\ F("code", Main, 0).at = "code" /\ F("code", Main, 0).slot = Main
  BY FrameFields, TaskAssumption DEF Threads
<1> USE DEF Init
<1> DEFINE f == F("code", Main, 0)
<1>2. Top = f
  BY <1>1 DEF Top, Last
<1>3. TypeOK
  <2>1. frames \in Seq(Frame) /\ frames # <<>>
    BY <1>1
  <2>2. ctx \in [Threads -> Context]
    <3>1. <<>> \in Seq(Frame)
      OBVIOUS
    <3> QED BY <3>1 DEF Context
  <2>3. ntasks \in 0..MaxTasks
    BY TaskAssumption
  <2> HIDE DEF f
  <2>4. /\ state \in [Slots -> {"unused", "ready", "done"}]
        /\ current \in Threads /\ owner \in Threads
        /\ preempt \in BOOLEAN /\ iflag \in BOOLEAN /\ inService \in BOOLEAN
    BY DEF Threads
  <2> QED BY <2>1, <2>2, <2>3, <2>4 DEF TypeOK
<1>4. StackOf(owner, frames)
  <2> HIDE DEF f
  <2>1. Len(<<f>>) = 1 /\ <<f>>[1] = f
    OBVIOUS
  <2>2. Last(frames) = f
    BY <1>2 DEF Top
  <2> QED BY <1>1, <2>1, <2>2, <1>3 DEF StackOf, TypeOK, Bottom, InSwitch, f
<1>5. At("code")
  BY <1>1, <1>2 DEF At
<1>6. \A t \in Threads : ~AwayFromCpu(t)
  BY <1>1, <1>2 DEF AwayFromCpu, At, Created, Threads, Slots, Main
<1> QED BY <1>1, <1>2, <1>3, <1>4, <1>5, <1>6 DEF Untorn, Created, At, ShellInterruptible

-----------------------------------------------------------------------------
(* Most steps move only the top of the running stack.                      *)
LEMMA Moves ==
  ASSUME Untorn, UNCHANGED <<ntasks, current, ctx, owner>>,
         TypeOK', StackOf(owner, frames'), ShellInterruptible',
         Last(frames).at \notin {"saved", "picked"},
         Last(frames').at \notin {"saved", "picked"}
  PROVE  Untorn'
<1>1. Created(owner)' /\ StackOf(owner, frames)'
  BY DEF Untorn, Created
<1>2. current' = owner'
  BY DEF Untorn, At, Top
<1>3. ASSUME NEW t \in Threads, AwayFromCpu(t)' PROVE HasContext(t)'
  <2>1. AwayFromCpu(t)
    BY <1>3 DEF AwayFromCpu, Created, At, Top
  <2>2. HasContext(t)
    BY <2>1 DEF Untorn
  <2> QED BY <2>2 DEF HasContext
<1> QED BY <1>1, <1>2, <1>3 DEF Untorn, At, Top

(* What every step starts from.                                            *)
LEMMA Running ==
  ASSUME Untorn
  PROVE  /\ owner \in Threads /\ StackOf(owner, frames)
         /\ frames \in Seq(Frame) /\ frames # <<>>
         /\ Len(frames) \in Nat /\ Len(frames) >= 1
         /\ Top = Last(frames) /\ Top = frames[Len(frames)] /\ Top \in Frame
         /\ Top.at \in Bottom => Len(frames) = 1 /\ Top.slot = owner
         /\ ~At("picked") => current = owner
<1>1. frames \in Seq(Frame) /\ frames # <<>> /\ StackOf(owner, frames)
  BY DEF Untorn, StackOf
<1>2. /\ Len(frames) \in Nat /\ Len(frames) >= 1
      /\ Top = Last(frames) /\ Top = frames[Len(frames)] /\ Top \in Frame
  BY <1>1, TopFrame DEF Top
<1>3. Top.at \in Bottom => Len(frames) = 1 /\ Top.slot = owner
  <2>1. Top.at \in Bottom <=> Len(frames) = 1
    <3>1. Len(frames) \in 1..Len(frames)
      BY <1>2
    <3>2. frames[Len(frames)].at \in Bottom <=> Len(frames) = 1
      BY <3>1, <1>1 DEF StackOf
    <3> QED BY <3>2, <1>2
  <2>2. frames[1].slot = owner
    BY <1>1 DEF StackOf
  <2> QED BY <2>1, <2>2, <1>2
<1> QED BY <1>1, <1>2, <1>3 DEF Untorn, TypeOK

-----------------------------------------------------------------------------
(* The shell's two calls.                                                  *)

(* task_create gives the new task a stack of its own, in its own context.  *)
LEMMA CreateTaskInv == Untorn /\ CreateTask => Untorn'
<1> SUFFICES ASSUME Untorn, CreateTask PROVE Untorn'
  OBVIOUS
<1> DEFINE f == F("start", ntasks, 0)
<1>1. /\ owner = Main /\ At("code") /\ ntasks \in Nat /\ ntasks < MaxTasks
      /\ ntasks \in Slots /\ ntasks \in Threads /\ ntasks # Main
  BY TaskAssumption DEF CreateTask, Untorn, TypeOK, Threads, Slots, Main
<1>2. f \in Frame /\ f.at = "start" /\ f.slot = ntasks
  BY <1>1, FrameFields, TaskAssumption
<1> HIDE DEF f
<1>3. Suspended(ntasks, <<f>>)
  <2>1. <<f>> \in Seq(Frame) /\ <<f>> # <<>> /\ Len(<<f>>) = 1 /\ <<f>>[1] = f
    BY <1>2
  <2>2. Last(<<f>>) = f
    BY <2>1 DEF Last
  <2> QED BY <1>1, <1>2, <2>1, <2>2 DEF Suspended, StackOf, Bottom, InSwitch, Brief
<1>4. [owner |-> ntasks, frames |-> <<f>>] \in Context
  BY <1>1, <1>2 DEF Context
<1>5. /\ ctx' = [ctx EXCEPT ![ntasks] = [owner |-> ntasks, frames |-> <<f>>]]
      /\ ctx \in [Threads -> Context]
  BY DEF CreateTask, f, Untorn, TypeOK
<1>6. TypeOK'
  <2>1. ctx' \in [Threads -> Context]
    BY <1>4, <1>5
  <2>2. state' \in [Slots -> {"unused", "ready", "done"}] /\ ntasks' \in 0..MaxTasks
    BY <1>1, TaskAssumption DEF CreateTask, Untorn, TypeOK
  <2> QED BY <2>1, <2>2 DEF CreateTask, cpu, Untorn, TypeOK
<1>7. ASSUME NEW t \in Threads, AwayFromCpu(t)' PROVE HasContext(t)'
  <2>1. CASE t = ntasks
    BY <2>1, <1>1, <1>3, <1>5 DEF HasContext
  <2>2. CASE t # ntasks
    <3>1. AwayFromCpu(t)
      BY <1>1, <1>7, <2>2, TaskAssumption DEF AwayFromCpu, Created, At, Top, CreateTask, cpu, Threads, Slots, Main
    <3>2. HasContext(t)
      BY <3>1 DEF Untorn
    <3> QED BY <2>2, <3>2, <1>5 DEF HasContext
  <2> QED BY <2>1, <2>2
<1>8. Created(owner)' /\ StackOf(owner, frames)' /\ At("code")'
  BY <1>1 DEF Untorn, Created, CreateTask, cpu, At, Top
<1>9. current' = owner'
  BY <1>1 DEF Untorn, CreateTask, cpu, At
<1> QED BY <1>1, <1>6, <1>7, <1>8, <1>9 DEF Untorn, At, ShellInterruptible, CreateTask, cpu, Top

(* Preemption is switched without touching any stack.                      *)
LEMMA SetPreemptionInv == Untorn /\ SetPreemption => Untorn'
<1> SUFFICES ASSUME Untorn, SetPreemption PROVE Untorn'
  OBVIOUS
<1>1. /\ UNCHANGED <<ntasks, current, ctx, owner, frames>>
      /\ Last(frames).at \notin {"saved", "picked"}
  BY DEF SetPreemption, cpu, At, Top
<1>2. TypeOK' /\ StackOf(owner, frames') /\ ShellInterruptible'
  BY DEF Untorn, TypeOK, SetPreemption, cpu, ShellInterruptible, At, Top
<1> QED BY <1>1, <1>2, Moves

-----------------------------------------------------------------------------
(* The threads' own code.                                                  *)

(* A task is entered at the bottom of its own stack.                       *)
LEMMA TrampolineInv == Untorn /\ Trampoline => Untorn'
<1> SUFFICES ASSUME Untorn, Trampoline PROVE Untorn'
  OBVIOUS
<1> DEFINE f == F("code", current, 0)
<1>1. Top.at = "start" /\ current = owner /\ owner \in Threads
  BY Running DEF Trampoline, At
<1>2. f \in Frame /\ f.at = "code" /\ f.slot = owner
  BY <1>1, FrameFields, TaskAssumption
<1>3. frames' = [frames EXCEPT ![Len(frames)] = f]
  BY DEF Trampoline, Goto
<1> HIDE DEF f
<1>4. StackOf(owner, frames') /\ Last(frames') = f
  <2>1. /\ f.at \in Bottom /\ f.at \notin InSwitch /\ Last(frames).at \in Bottom
        /\ StackOf(owner, frames)
    BY <1>1, <1>2, Running DEF Bottom, InSwitch
  <2>2. /\ StackOf(owner, [frames EXCEPT ![Len(frames)] = f])
        /\ Last([frames EXCEPT ![Len(frames)] = f]) = f
    BY <1>1, <1>2, <2>1, GotoStack
  <2> QED BY <2>2, <1>3
<1>5. TypeOK'
  BY <1>4 DEF Untorn, TypeOK, Trampoline, StackOf
<1> QED BY <1>1, <1>2, <1>4, <1>5, Running, Moves DEF Trampoline, ShellInterruptible

(* A task that returns from its entry function stays at the bottom.        *)
LEMMA FinishInv == Untorn /\ Finish => Untorn'
<1> SUFFICES ASSUME Untorn, Finish PROVE Untorn'
  OBVIOUS
<1> DEFINE f == F("done", Top.slot, 0)
<1>1. Top.at = "code" /\ Top.slot = owner /\ owner \in Slots /\ owner \in Threads /\ owner # Main
  BY Running, TaskAssumption DEF Finish, At, Bottom, Slots, Main, Threads
<1>2. f \in Frame /\ f.at = "done" /\ f.slot = owner
  BY <1>1, FrameFields, TaskAssumption
<1>3. frames' = [frames EXCEPT ![Len(frames)] = f]
  BY DEF Finish, Goto
<1> HIDE DEF f
<1>4. StackOf(owner, frames') /\ Last(frames') = f
  BY <1>1, <1>2, <1>3, Running, GotoStack DEF Bottom, InSwitch
<1>5. TypeOK'
  BY <1>1, <1>4 DEF Untorn, TypeOK, Finish, StackOf
<1>6. ShellInterruptible'
  BY <1>1 DEF ShellInterruptible, Finish
<1> QED BY <1>1, <1>2, <1>4, <1>5, <1>6, Running, Moves DEF Finish

(* task_yield is called by tasks only.                                     *)
LEMMA CallYieldInv == Untorn /\ CallYield => Untorn'
<1> SUFFICES ASSUME Untorn, CallYield PROVE Untorn'
  OBVIOUS
<1> DEFINE f == F("enter", Main, 0)
<1>1. Top.at \in {"code", "done"} /\ owner \in Threads
  BY Running DEF CallYield, At
<1>2. owner # Main
  <2>1. CASE At("done")
    <3>1. Top = frames[1] /\ StackOf(owner, frames)
      BY <2>1, Running DEF At, Bottom
    <3> QED BY <2>1, <3>1 DEF StackOf, At
  <2>2. CASE At("code") /\ Top.slot \in Yielding
    BY <2>2, Running, TaskAssumption DEF At, Bottom, Main
  <2> QED BY <2>1, <2>2 DEF CallYield
<1>3. f \in Frame /\ f.at = "enter"
  BY FrameFields, TaskAssumption DEF Threads
<1>4. frames' = Append(frames, f)
  BY DEF CallYield, Push
<1> HIDE DEF f
<1>5. StackOf(owner, frames') /\ Last(frames') = f
  BY <1>1, <1>2, <1>3, <1>4, Running, PushStack DEF Bottom, InSwitch, Brief
<1>6. TypeOK'
  BY <1>5 DEF Untorn, TypeOK, CallYield, StackOf
<1>7. ShellInterruptible'
  BY <1>2 DEF ShellInterruptible, CallYield
<1> QED BY <1>1, <1>3, <1>5, <1>6, <1>7, Running, Moves DEF CallYield

-----------------------------------------------------------------------------
(* Interrupts.                                                             *)

(* Outside task_yield the timer pushes its frame on whatever runs.         *)
LEMMA TimerInv == ~torn' /\ IInv /\ Timer => Untorn'
<1> SUFFICES ASSUME ~torn', ~torn, IInv, Untorn, Timer PROVE Untorn'
  BY DEF IInv, Timer
<1> DEFINE f == F("irq", Main, 0)
<1>1. Top.at \notin Brief
  BY DEF Timer, Switching, At, InSwitch, Brief, IInv, Places, Masked
<1>2. f \in Frame /\ f.at = "irq"
  BY FrameFields, TaskAssumption DEF Threads
<1>3. frames' = Append(frames, f)
  BY DEF Timer, Push
<1> HIDE DEF f
<1>4. StackOf(owner, frames') /\ Last(frames') = f
  BY <1>1, <1>2, <1>3, Running, PushStack DEF Bottom, InSwitch, Brief
<1>5. TypeOK'
  BY <1>4 DEF Untorn, TypeOK, Timer, StackOf
<1>6. ShellInterruptible'
  BY <1>2, <1>4 DEF ShellInterruptible, At, Top
<1> QED BY <1>1, <1>2, <1>4, <1>5, <1>6, Running, Moves DEF Timer, InSwitch, Brief

(* The handler ends with its interrupt about to return, or calls           *)
(* task_yield from there.                                                  *)
LEMMA HandleInv == Untorn /\ Handle => Untorn'
<1> SUFFICES ASSUME Untorn, Handle PROVE Untorn'
  OBVIOUS
<1> DEFINE f == F("iret", Main, 0)
           e == F("enter", Main, 0)
           isr == [frames EXCEPT ![Len(frames)] = f]
<1>1. Top.at = "irq"
  BY DEF Handle, At
<1>2. f \in Frame /\ f.at = "iret" /\ e \in Frame /\ e.at = "enter"
  BY FrameFields, TaskAssumption DEF Threads
<1>3. frames' = isr \/ frames' = Append(isr, e)
  BY DEF Handle
<1> HIDE DEF f, e
<1>4. StackOf(owner, isr) /\ Last(isr) = f
  BY <1>1, <1>2, Running, GotoStack DEF Bottom, InSwitch
<1> HIDE DEF isr
<1>5. StackOf(owner, Append(isr, e)) /\ Last(Append(isr, e)) = e
  BY <1>2, <1>4, Running, PushStack DEF Bottom, InSwitch, Brief
<1>6. StackOf(owner, frames') /\ Last(frames').at \in {"iret", "enter"}
  BY <1>2, <1>3, <1>4, <1>5
<1>7. TypeOK'
  BY <1>6 DEF Untorn, TypeOK, Handle, StackOf
<1>8. ShellInterruptible'
  BY <1>6 DEF ShellInterruptible, At, Top
<1> QED BY <1>1, <1>6, <1>7, <1>8, Running, Moves DEF Handle

(* An interrupt returns to what it interrupted, which is not task_yield.   *)
LEMMA IretInv == Untorn /\ Iret => Untorn'
<1> SUFFICES ASSUME Untorn, Iret PROVE Untorn'
  OBVIOUS
<1>1. Top.at = "iret" /\ frames' = Front(frames)
  BY DEF Iret, At, Pop
<1>2. StackOf(owner, frames') /\ Last(frames').at \notin Brief
  BY <1>1, Running, PopStack DEF Bottom
<1>3. TypeOK'
  BY <1>2 DEF Untorn, TypeOK, Iret, StackOf
<1>4. ShellInterruptible'
  BY DEF ShellInterruptible, Iret
<1> QED BY <1>1, <1>2, <1>3, <1>4, Running, Moves DEF Iret, InSwitch, Brief

-----------------------------------------------------------------------------
(* task_yield.                                                             *)

(* k_setjmp leaves in the thread's own context the stack below task_yield. *)
LEMMA SaveInv == Untorn /\ Save => Untorn'
<1> SUFFICES ASSUME Untorn, Save PROVE Untorn'
  OBVIOUS
<1> DEFINE f == F("saved", current, ntasks + 1)
           c == [owner |-> owner, frames |-> Front(frames)]
<1>1. Top.at = "enter" /\ current = owner /\ owner \in Threads /\ StackOf(owner, frames)
  BY Running DEF Save, At
<1>2. f \in Frame /\ f.at = "saved" /\ f.slot = owner /\ f.total = ntasks + 1
  <2>1. ntasks + 1 \in 0..MaxTasks+1
    BY TaskAssumption DEF Untorn, TypeOK
  <2> QED BY <1>1, <2>1, FrameFields
<1>3. frames' = [frames EXCEPT ![Len(frames)] = f] /\ ctx' = [ctx EXCEPT ![owner] = c]
  BY <1>1 DEF Save, Goto
<1>4. Suspended(owner, Front(frames))
  BY <1>1, Running, PopStack DEF Suspended, Bottom, InSwitch
<1>5. c \in Context
  BY <1>1, <1>4 DEF Context, Suspended, StackOf
<1>6. c.owner = owner /\ Suspended(owner, c.frames)
  BY <1>4
<1> HIDE DEF f, c
<1>7. StackOf(owner, frames') /\ Last(frames') = f
  BY <1>1, <1>2, <1>3, Running, GotoStack DEF Bottom, InSwitch
<1>8. TypeOK'
  <2>1. ctx' \in [Threads -> Context]
    BY <1>3, <1>5 DEF Untorn, TypeOK
  <2> QED BY <2>1, <1>7 DEF Untorn, TypeOK, Save, StackOf
<1>9. ASSUME NEW t \in Threads, AwayFromCpu(t)' PROVE HasContext(t)'
  <2>1. CASE t = owner
    BY <2>1, <1>3, <1>6 DEF HasContext, Untorn, TypeOK
  <2>2. CASE t # owner
    <3>1. HasContext(t)
      BY <2>2, <1>9 DEF Untorn, AwayFromCpu, Created, Save
    <3> QED BY <2>2, <3>1, <1>3 DEF HasContext, Untorn, TypeOK
  <2> QED BY <2>1, <2>2
<1>10. /\ Created(owner)' /\ owner' = owner /\ current' = current /\ ntasks' = ntasks
       /\ Top' = f
  BY <1>7 DEF Untorn, Created, Save, Top
<1>11. StackOf(owner, frames)'
  BY <1>7, <1>10
<1> QED BY <1>1, <1>2, <1>8, <1>9, <1>10, <1>11 DEF Untorn, At, ShellInterruptible

(* The loop of task_yield finds a thread that exists.                      *)
LEMMA PickInv == Untorn /\ Pick => Untorn'
<1> SUFFICES ASSUME Untorn, Pick PROVE Untorn'
  OBVIOUS
<1>1. /\ Top.at = "saved" /\ owner \in Threads /\ StackOf(owner, frames)
      /\ At("saved") /\ TypeOK /\ Created(owner)
      /\ Top.slot = owner /\ Top.total = ntasks + 1
  BY Running DEF Pick, Untorn, At
<1>2. PICK i \in 1..Top.total : current' = Target(i) /\ Goto(F("picked", Target(i), 0))
  <2>1. \E i \in 1..Top.total : Takes(i)
    BY <1>1, Rotation
  <2> QED BY <2>1 DEF Pick
<1>3. Target(i) \in Threads /\ Created(Target(i))
  BY <1>1, Rotation, TargetCreated
<1> DEFINE f == F("picked", Target(i), 0)
<1>4. f \in Frame /\ f.at = "picked" /\ f.slot = Target(i)
  BY <1>3, FrameFields, TaskAssumption
<1>5. frames' = [frames EXCEPT ![Len(frames)] = f]
  BY <1>2 DEF Goto
<1> HIDE DEF f
<1>6. StackOf(owner, frames') /\ Last(frames') = f
  BY <1>1, <1>4, <1>5, Running, GotoStack DEF Bottom, InSwitch
<1>7. UNCHANGED <<ntasks, state, preempt, ctx, owner, iflag, inService, torn>>
  BY DEF Pick
<1>8. TypeOK'
  BY <1>2, <1>3, <1>6, <1>7 DEF Untorn, TypeOK, StackOf
<1>9. ASSUME NEW t \in Threads, AwayFromCpu(t)' PROVE HasContext(t)'
  <2>1. HasContext(t)
    BY <1>1, <1>7, <1>9 DEF Untorn, AwayFromCpu, Created
  <2> QED BY <2>1, <1>7 DEF HasContext
<1>10. Created(owner)' /\ StackOf(owner, frames)' /\ Top' = f
  BY <1>1, <1>6, <1>7 DEF Created, Top
<1>11. Created(Top.slot)'
  BY <1>3, <1>4, <1>7, <1>10 DEF Created
<1> QED BY <1>2, <1>4, <1>8, <1>9, <1>10, <1>11 DEF Untorn, At, ShellInterruptible

(* k_longjmp finds that thread's own stack, which task_yield has left.     *)
LEMMA JumpInv == Untorn /\ Jump => Untorn'
<1> SUFFICES ASSUME Untorn, Jump PROVE Untorn'
  OBVIOUS
<1> DEFINE t == Top.slot
<1>1. At("picked") /\ t \in Threads /\ current = t /\ Created(t)
  BY Running DEF Jump, Untorn, Frame
<1>2. ctx[t].owner = t /\ Suspended(t, ctx[t].frames)
  BY <1>1 DEF Untorn, AwayFromCpu, HasContext
<1>3. owner' = t /\ frames' = ctx[t].frames
  BY <1>2 DEF Jump
<1>4. UNCHANGED <<ntasks, state, current, preempt, ctx, iflag, inService, torn>>
  BY DEF Jump
<1> HIDE DEF t
<1>5. StackOf(owner, frames)' /\ Top'.at \notin Brief /\ (t = Main => Top'.at = "iret")
  BY <1>2, <1>3 DEF Suspended, Top
<1>6. TypeOK'
  BY <1>1, <1>3, <1>4, <1>5 DEF Untorn, TypeOK, StackOf
<1>7. ASSUME NEW u \in Threads, AwayFromCpu(u)' PROVE HasContext(u)'
  <2>1. AwayFromCpu(u)
    BY <1>1, <1>4, <1>7 DEF AwayFromCpu, Created
  <2> QED BY <2>1, <1>4 DEF Untorn, HasContext
<1>8. Created(owner)' /\ current' = owner'
  BY <1>1, <1>3, <1>4 DEF Created
<1>9. ShellInterruptible'
  BY <1>3, <1>5 DEF ShellInterruptible, At
<1> QED BY <1>5, <1>6, <1>7, <1>8, <1>9 DEF Untorn, At, InSwitch, Brief

-----------------------------------------------------------------------------
(* Every step but a tick inside a voluntary task_yield preserves it.       *)
LEMMA UntornStep == ~torn' /\ ~torn /\ IInv /\ [Next]_vars => Untorn'
<1> SUFFICES ASSUME ~torn', IInv, Untorn, [Next]_vars PROVE Untorn'
  BY DEF IInv
<1>1. CASE Kernel
  BY <1>1, TrampolineInv, SaveInv, PickInv, JumpInv, HandleInv, IretInv DEF Kernel
<1>2. CASE Shell
  BY <1>2, CreateTaskInv, SetPreemptionInv DEF Shell
<1>3. CASE Compute \/ UNCHANGED vars
  <2>1. UNCHANGED vars
    BY <1>3 DEF Compute
  <2>2. UNCHANGED <<At("saved"), At("picked"), At("code"), Top>>
    BY <2>1 DEF vars, At, Top
  <2> QED BY <2>1, <2>2 DEF vars, Untorn, TypeOK, Created, AwayFromCpu, HasContext, ShellInterruptible
<1>4. CASE Finish
  BY <1>4, FinishInv
<1>5. CASE CallYield
  BY <1>5, CallYieldInv
<1>6. CASE Timer
  BY <1>6, TimerInv
<1> QED BY <1>1, <1>2, <1>3, <1>4, <1>5, <1>6 DEF Next

(* What Places says of a stack survives what the steps do to stacks.       *)
LEMMA SoundFrom ==
  ASSUME NEW n \in Nat, NEW m \in Nat, n <= m, NEW fs, Sound(fs, n)
  PROVE  Sound(fs, m)
<1>1. \A i \in 1..Len(fs) : fs[i] \in Frame
  BY DEF Sound
<1>2. \A i \in 1..Len(fs) : fs[i].slot \in Int /\ fs[i].total \in Int
  BY <1>1, TaskAssumption DEF Frame, Threads, Slots, Main
<1> QED BY <1>2 DEF Sound

LEMMA SoundGoto ==
  ASSUME NEW n \in Nat, NEW fs, Sound(fs, n), NEW f \in Frame,
         f.at \in Bottom <=> Last(fs).at \in Bottom,
         f.at = "saved" => f.total \in 1..n + 1,
         f.at = "picked" => f.slot = Main \/ f.slot < n
  PROVE  Sound([fs EXCEPT ![Len(fs)] = f], n)
<1> DEFINE g == [fs EXCEPT ![Len(fs)] = f]
<1>1. fs \in Seq(Frame) /\ fs # <<>> /\ Len(fs) \in Nat /\ Len(fs) >= 1 /\ Last(fs) = fs[Len(fs)]
  BY TopFrame DEF Sound
<1>2. /\ g \in Seq(Frame) /\ g # <<>> /\ Len(g) = Len(fs)
      /\ \A i \in 1..Len(fs) - 1 : g[i] = fs[i]
      /\ g[Len(fs)] = f
  BY <1>1
<1> HIDE DEF g
<1>3. ASSUME NEW i \in 1..Len(fs)
      PROVE  /\ g[i].at \in Bottom <=> i = 1
             /\ g[i].at = "saved" => g[i].total \in 1..n + 1
             /\ g[i].at = "picked" => g[i].slot = Main \/ g[i].slot < n
  <2>1. CASE i = Len(fs)
    BY <2>1, <1>1, <1>2 DEF Sound
  <2>2. CASE i # Len(fs)
    <3>1. g[i] = fs[i]
      BY <2>2, <1>1, <1>2
    <3> QED BY <3>1 DEF Sound
  <2> QED BY <2>1, <2>2
<1> QED BY <1>2, <1>3 DEF Sound, g

LEMMA SoundPush ==
  ASSUME NEW n \in Nat, NEW fs, Sound(fs, n), NEW f \in Frame,
         f.at \notin Bottom \cup {"saved", "picked"}
  PROVE  Sound(Append(fs, f), n)
<1> DEFINE g == Append(fs, f)
<1>1. fs \in Seq(Frame) /\ fs # <<>> /\ Len(fs) \in Nat /\ Len(fs) >= 1
  BY TopFrame DEF Sound
<1>2. /\ g \in Seq(Frame) /\ g # <<>> /\ Len(g) = Len(fs) + 1
      /\ \A i \in 1..Len(fs) : g[i] = fs[i]
      /\ g[Len(fs) + 1] = f
  BY <1>1
<1> HIDE DEF g
<1>3. ASSUME NEW i \in 1..Len(g)
      PROVE  /\ g[i].at \in Bottom <=> i = 1
             /\ g[i].at = "saved" => g[i].total \in 1..n + 1
             /\ g[i].at = "picked" => g[i].slot = Main \/ g[i].slot < n
  <2>1. CASE i = Len(fs) + 1
    BY <2>1, <1>1, <1>2
  <2>2. CASE i # Len(fs) + 1
    <3>1. i \in 1..Len(fs) /\ g[i] = fs[i]
      BY <2>2, <1>1, <1>2
    <3> QED BY <3>1 DEF Sound
  <2> QED BY <2>1, <2>2
<1> QED BY <1>2, <1>3 DEF Sound, g

LEMMA SoundPop ==
  ASSUME NEW n \in Nat, NEW fs, Sound(fs, n), Last(fs).at \notin Bottom
  PROVE  Sound(Front(fs), n)
<1> DEFINE g == Front(fs)
<1>1. fs \in Seq(Frame) /\ fs # <<>> /\ Len(fs) \in Nat /\ Len(fs) >= 1 /\ Last(fs) = fs[Len(fs)]
  BY TopFrame DEF Sound
<1>2. Len(fs) >= 2
  BY <1>1 DEF Sound
<1>3. /\ g \in Seq(Frame) /\ g # <<>> /\ Len(g) = Len(fs) - 1
      /\ \A i \in 1..Len(fs) - 1 : g[i] = fs[i]
  BY <1>1, <1>2, FrontIs
<1> HIDE DEF g
<1> QED BY <1>1, <1>3 DEF Sound, g

(* What every step starts from, a tick inside task_yield or not.           *)
LEMMA OnCpu ==
  ASSUME IInv
  PROVE  /\ ntasks \in Nat /\ owner \in Threads /\ current \in Threads
         /\ Sound(frames, ntasks) /\ Top = Last(frames) /\ Top \in Frame
         /\ At("saved") => Top.total \in 1..ntasks + 1
         /\ At("picked") => Created(Top.slot)
<1>1. /\ ntasks \in Nat /\ owner \in Threads /\ current \in Threads /\ Sound(frames, ntasks)
  BY TaskAssumption DEF IInv, Places, TypeOK
<1>2. /\ Len(frames) \in Nat /\ Len(frames) >= 1
      /\ Top = frames[Len(frames)] /\ Top \in Frame
  BY <1>1, TopFrame DEF Top, Sound
<1>3. Len(frames) \in 1..Len(frames)
  BY <1>2
<1>4. /\ Top.at = "saved" => Top.total \in 1..ntasks + 1
      /\ Top.at = "picked" => Top.slot = Main \/ Top.slot < ntasks
  BY <1>1, <1>2, <1>3 DEF Sound
<1> QED BY <1>1, <1>2, <1>4 DEF At, Created, Top

(* The contexts stay as they are, and so does where the shell may be hit.  *)
LEMMA PlacesMove ==
  ASSUME IInv, UNCHANGED <<ntasks, ctx, owner, torn>>, TypeOK', Sound(frames', ntasks),
         ~torn /\ Masked' => ~iflag'
  PROVE  Places'
  BY DEF IInv, Places, Created

(* A task's own code and the shell's calls.                                *)
LEMMA CodePlaces ==
  ASSUME IInv, CreateTask \/ SetPreemption \/ Trampoline \/ Compute \/ Finish \/ CallYield
  PROVE  Places'
<1> USE TaskAssumption
<1>1. CASE CreateTask
  <2> DEFINE f == F("start", ntasks, 0)
             c == [owner |-> ntasks, frames |-> <<f>>]
  <2>1. ntasks \in Nat /\ ntasks < MaxTasks /\ ntasks \in Threads /\ ntasks \in Slots /\ ntasks # Main
    BY <1>1, OnCpu DEF CreateTask, Threads, Slots, Main
  <2>2. f \in Frame /\ f.at = "start"
    BY <2>1, FrameFields
  <2>3. Sound(<<f>>, ntasks + 1) /\ c \in Context
    <3> HIDE DEF f
    <3>1. <<f>> \in Seq(Frame) /\ <<f>> # <<>> /\ Len(<<f>>) = 1 /\ <<f>>[1] = f
      BY <2>2
    <3> QED BY <2>1, <2>2, <3>1 DEF Sound, Bottom, Context
  <2> HIDE DEF f
  <2>4. /\ ctx' = [ctx EXCEPT ![ntasks] = c] /\ ntasks' = ntasks + 1
        /\ state' = [state EXCEPT ![ntasks] = "ready"] /\ UNCHANGED <<current, preempt, cpu>>
    BY <1>1 DEF CreateTask, f
  <2>5. TypeOK
    BY DEF IInv, Places
  <2>6. TypeOK'
    <3>1. ctx' \in [Threads -> Context]
      BY <2>3, <2>4, <2>5 DEF TypeOK
    <3>2. ntasks' \in 0..MaxTasks /\ state' \in [Slots -> {"unused", "ready", "done"}]
      BY <2>1, <2>4, <2>5 DEF TypeOK
    <3> QED BY <3>1, <3>2, <2>4, <2>5 DEF TypeOK, cpu
  <2>7. Sound(frames', ntasks')
    BY <2>1, <2>4, OnCpu, SoundFrom DEF cpu
  <2>8. ASSUME NEW t \in Threads
        PROVE  /\ ctx'[t].frames = <<>> \/ Sound(ctx'[t].frames, ntasks')
               /\ Created(t)' /\ ctx'[t].frames = <<>> => t = Main /\ ~torn
    <3>1. CASE t = ntasks
      <4>1. ctx'[t] = c
        BY <3>1, <2>1, <2>4, <2>5 DEF TypeOK
      <4> QED BY <4>1, <2>3, <2>4
    <3>2. CASE t # ntasks
      <4>1. ctx'[t] = ctx[t]
        BY <3>2, <2>4, <2>5 DEF TypeOK
      <4>2. ctx[t].frames = <<>> \/ Sound(ctx[t].frames, ntasks')
        BY <2>1, <2>4, SoundFrom DEF IInv, Places
      <4>3. Created(t)' => Created(t)
        BY <3>2, <2>1, <2>4 DEF Created, Threads, Slots, Main
      <4> QED BY <4>1, <4>2, <4>3 DEF IInv, Places
    <3> QED BY <3>1, <3>2
  <2>9. ~torn' /\ Masked' => ~iflag'
    BY <2>4 DEF IInv, Places, cpu, Masked, At, Top
  <2> QED BY <2>4, <2>6, <2>7, <2>8, <2>9 DEF Places, cpu
<1>2. CASE SetPreemption \/ Compute
  <2>1. UNCHANGED <<ntasks, ctx, owner, torn, frames, iflag>> /\ TypeOK'
    BY <1>2 DEF SetPreemption, Compute, vars, cpu, IInv, Places, TypeOK
  <2> QED BY <2>1 DEF IInv, Places, Top, Created, Masked, At
<1>3. CASE Trampoline \/ Finish
  <2> DEFINE f == IF Trampoline THEN F("code", current, 0) ELSE F("done", Top.slot, 0)
  <2>1. f \in Frame /\ f.at \in Bottom /\ Last(frames).at \in Bottom
    BY <1>3, OnCpu, FrameFields DEF Trampoline, Finish, At, Bottom, Frame
  <2>2. frames' = [frames EXCEPT ![Len(frames)] = f]
    BY <1>3 DEF Trampoline, Finish, Goto, At
  <2> HIDE DEF f
  <2>3. Sound(frames', ntasks)
    BY <2>1, <2>2, OnCpu, SoundGoto DEF Bottom
  <2>4. TypeOK'
    <3>1. Finish => Top.slot \in Slots
      BY DEF Finish, Slots
    <3> QED BY <1>3, <2>3, <3>1 DEF IInv, Places, TypeOK, Trampoline, Finish, Sound
  <2>5. Top'.at \notin Brief
    <3>1. frames \in Seq(Frame) /\ Len(frames) \in Nat /\ Len(frames) >= 1
      BY OnCpu, TopFrame DEF Sound
    <3>2. Len(frames') = Len(frames) /\ frames'[Len(frames)] = f
      BY <3>1, <2>2
    <3> QED BY <3>2, <2>1 DEF Top, Last, Bottom, InSwitch, Brief
  <2> QED BY <1>3, <2>3, <2>4, <2>5, PlacesMove DEF Trampoline, Finish, Masked, At, Brief
<1>4. CASE CallYield
  <2> DEFINE f == F("enter", Main, 0)
  <2>1. f \in Frame /\ f.at = "enter"
    BY FrameFields DEF Threads
  <2>2. frames' = Append(frames, f)
    BY <1>4 DEF CallYield, Push
  <2> HIDE DEF f
  <2>3. Sound(frames', ntasks)
    BY <2>1, <2>2, OnCpu, SoundPush DEF Bottom
  <2>4. TypeOK'
    BY <1>4, <2>3 DEF IInv, Places, TypeOK, CallYield, Sound
  <2>5. ~torn => owner # Main
    <3> SUFFICES ASSUME ~torn, Untorn PROVE owner # Main
      BY DEF IInv
    <3>1. CASE At("done")
      <4>1. Top = frames[1] /\ StackOf(owner, frames)
        BY <3>1, Running DEF At, Bottom
      <4> QED BY <3>1, <4>1 DEF StackOf, At
    <3>2. CASE At("code") /\ Top.slot \in Yielding
      BY <3>2, Running DEF At, Bottom, Main
    <3> QED BY <3>1, <3>2, <1>4 DEF CallYield
  <2>6. Top'.at = "enter"
    <3>1. frames \in Seq(Frame)
      BY OnCpu DEF Sound
    <3> QED BY <3>1, <2>1, <2>2 DEF Top, Last
  <2> QED BY <1>4, <2>3, <2>4, <2>5, <2>6, PlacesMove DEF CallYield, Masked, At
<1> QED BY <1>1, <1>2, <1>3, <1>4

(* Interrupts.  The shell is never torn: its task_yield runs above an      *)
(* interrupt, with interrupts off.                                         *)
LEMMA InterruptPlaces ==
  ASSUME IInv, Timer \/ Handle \/ Iret
  PROVE  Places'
<1> USE TaskAssumption
<1>1. CASE Timer
  <2> DEFINE f == F("irq", Main, 0)
  <2>1. f \in Frame /\ f.at = "irq"
    BY FrameFields DEF Threads
  <2>2. frames' = Append(frames, f)
    BY <1>1 DEF Timer, Push
  <2> HIDE DEF f
  <2>3. Sound(frames', ntasks)
    BY <2>1, <2>2, OnCpu, SoundPush DEF Bottom
  <2>4. TypeOK'
    BY <1>1, <2>3 DEF IInv, Places, TypeOK, Timer, Sound
  <2>5. ASSUME NEW t \in Threads, Created(t), ctx[t].frames = <<>> PROVE t = Main /\ ~torn'
    <3>1. t = Main /\ ~torn /\ Untorn
      BY <2>5 DEF IInv, Places
    <3>2. ASSUME Switching PROVE FALSE
      <4>1. Top.at \in InSwitch
        BY <3>2 DEF Switching, At, InSwitch
      <4>2. owner # Main
        BY <4>1, <3>1, <1>1 DEF Timer, IInv, Places, Masked
      <4>3. HasContext(Main)
        BY <4>2, <3>1, <2>5 DEF Untorn, AwayFromCpu
      <4> QED BY <4>3, <3>1, <2>5 DEF HasContext, Suspended, StackOf
    <3> QED BY <3>1, <3>2, <1>1 DEF Timer
  <2>6. UNCHANGED <<ntasks, ctx, owner>> /\ iflag' = FALSE
    BY <1>1 DEF Timer
  <2> QED BY <2>3, <2>4, <2>5, <2>6 DEF Places, IInv, Created
<1>2. CASE Handle
  <2> DEFINE f == F("iret", Main, 0)
             e == F("enter", Main, 0)
             isr == [frames EXCEPT ![Len(frames)] = f]
  <2>1. f \in Frame /\ f.at = "iret" /\ e \in Frame /\ e.at = "enter"
    BY FrameFields DEF Threads
  <2>2. frames' = isr \/ frames' = Append(isr, e)
    BY <1>2 DEF Handle
  <2>3. Top.at = "irq" /\ UNCHANGED <<ntasks, ctx, owner, torn, iflag>>
    BY <1>2 DEF Handle, At
  <2> HIDE DEF f, e
  <2>4. Sound(isr, ntasks)
    BY <2>1, <2>3, OnCpu, SoundGoto DEF Bottom
  <2>5. Sound(frames', ntasks)
    BY <2>1, <2>2, <2>4, OnCpu, SoundPush DEF Bottom
  <2>6. TypeOK'
    BY <1>2, <2>5 DEF IInv, Places, TypeOK, Handle, Sound
  <2>7. ~torn => ~iflag'
    BY <2>3 DEF IInv, Places, Masked, At
  <2> QED BY <2>3, <2>5, <2>6, <2>7, PlacesMove
<1>3. CASE Iret
  <2>1. Top.at = "iret" /\ frames' = Front(frames) /\ UNCHANGED <<ntasks, ctx, owner, torn>>
    BY <1>3 DEF Iret, At, Pop
  <2>2. Sound(frames', ntasks)
    BY <2>1, OnCpu, SoundPop DEF Bottom
  <2>3. TypeOK'
    BY <1>3, <2>2 DEF IInv, Places, TypeOK, Iret, Sound
  <2>4. ASSUME ~torn PROVE ~Masked'
    <3>1. Last(Front(frames)).at \notin Brief
      BY <2>1, <2>4, OnCpu, PopStack DEF IInv, Untorn, Bottom
    <3> QED BY <2>1, <3>1 DEF Masked, At, Top, Brief
  <2> QED BY <2>1, <2>2, <2>3, <2>4, PlacesMove
<1> QED BY <1>1, <1>2, <1>3

(* task_yield.  Its locals name slots that exist, also when other threads  *)
(* have run between its halves.                                            *)
LEMMA SwitchPlaces ==
  ASSUME IInv, Save \/ Pick \/ Jump
  PROVE  Places'
<1> USE TaskAssumption
<1>1. CASE Save
  <2> DEFINE f == F("saved", current, ntasks + 1)
             c == [owner |-> owner, frames |-> Front(frames)]
  <2>1. f \in Frame /\ f.at = "saved" /\ f.total = ntasks + 1
    <3>1. ntasks + 1 \in 0..MaxTasks+1
      BY DEF IInv, Places, TypeOK
    <3> QED BY <3>1, OnCpu, FrameFields
  <2>2. /\ Top.at = "enter" /\ frames' = [frames EXCEPT ![Len(frames)] = f]
        /\ ctx' = [ctx EXCEPT ![current] = c]
        /\ UNCHANGED <<ntasks, state, current, preempt, owner, iflag, inService, torn>>
    BY <1>1 DEF Save, At, Goto
  <2> HIDE DEF f
  <2>3. Sound(frames', ntasks)
    <3>1. f.total \in 1..ntasks + 1 /\ Last(frames).at = "enter"
      BY <2>1, <2>2, OnCpu
    <3>2. f.at \notin Bottom /\ Last(frames).at \notin Bottom /\ f.at # "picked"
      BY <2>1, <3>1 DEF Bottom
    <3>3. Sound([frames EXCEPT ![Len(frames)] = f], ntasks)
      BY <2>1, <3>1, <3>2, OnCpu, SoundGoto
    <3> QED BY <2>2, <3>3
  <2>4. Sound(Front(frames), ntasks)
    BY <2>2, OnCpu, SoundPop DEF Bottom
  <2>5. c \in Context
    BY <2>4, OnCpu DEF Sound, Context
  <2>6. TypeOK'
    <3>1. ctx' \in [Threads -> Context]
      BY <2>2, <2>5 DEF IInv, Places, TypeOK
    <3> QED BY <3>1, <2>2, <2>3 DEF IInv, Places, TypeOK, Sound
  <2>7. ASSUME NEW t \in Threads
        PROVE  ctx'[t] = IF t = current THEN c ELSE ctx[t]
    BY <2>2 DEF IInv, Places, TypeOK
  <2>8. c.frames = Front(frames) /\ Front(frames) # <<>>
    BY <2>4 DEF Sound
  <2>9. Top' = f
    BY <2>2, OnCpu, TopFrame DEF Sound, Top, Last
  <2> HIDE DEF c
  <2> QED BY <2>1, <2>2, <2>3, <2>4, <2>6, <2>7, <2>8, <2>9
          DEF Places, IInv, Created, Masked, At, InSwitch
<1>2. CASE Pick
  <2>1. /\ Top.at = "saved" /\ Top.total \in 1..ntasks + 1 /\ ntasks \in Nat
        /\ UNCHANGED <<ntasks, state, preempt, ctx, owner, iflag, inService, torn>>
    BY <1>2, OnCpu DEF Pick, At
  <2>2. CASE \E i \in 1..Top.total : Takes(i)
    <3>1. PICK i \in 1..Top.total : current' = Target(i) /\ Goto(F("picked", Target(i), 0))
      BY <2>2, <1>2 DEF Pick
    <3> DEFINE f == F("picked", Target(i), 0)
    <3>2. Candidate(i) \in 0..ntasks
      BY <2>1, OnCpu DEF Candidate, Frame, Threads, Slots, Main
    <3>3. Target(i) \in Threads /\ Created(Target(i))
      BY <3>2, TargetCreated DEF IInv, Places
    <3>4. f \in Frame /\ f.at = "picked" /\ f.slot = Target(i)
      BY <3>3, FrameFields
    <3>5. frames' = [frames EXCEPT ![Len(frames)] = f]
      BY <3>1 DEF Goto
    <3> HIDE DEF f
    <3>6. Sound(frames', ntasks)
      BY <2>1, <3>3, <3>4, <3>5, OnCpu, SoundGoto DEF Bottom, Created
    <3>7. TypeOK'
      BY <2>1, <3>1, <3>3, <3>6 DEF IInv, Places, TypeOK, Sound
    <3>8. ~torn /\ Masked' => ~iflag'
      <4>1. Top' = f
        BY <3>5, OnCpu, TopFrame DEF Sound, Top, Last
      <4> QED BY <4>1, <2>1, <3>4 DEF IInv, Places, Masked, At, InSwitch
    <3> QED BY <2>1, <3>6, <3>7, <3>8, PlacesMove
  <2>3. CASE ~\E i \in 1..Top.total : Takes(i)
    <3>1. frames' = Front(frames) /\ UNCHANGED current
      BY <2>3, <1>2 DEF Pick, Pop
    <3>2. Sound(frames', ntasks)
      BY <2>1, <3>1, OnCpu, SoundPop DEF Bottom
    <3>3. TypeOK'
      BY <2>1, <3>1, <3>2 DEF IInv, Places, TypeOK, Sound
    <3>4. torn
      BY <1>2, <2>3, Rotation DEF IInv, Untorn, Pick
    <3> QED BY <2>1, <3>2, <3>3, <3>4, PlacesMove
  <2> QED BY <2>2, <2>3
<1>3. CASE Jump
  <2> DEFINE t == Top.slot
  <2>1. /\ At("picked") /\ t \in Threads /\ Created(t)
        /\ owner' = ctx[t].owner /\ frames' = ctx[t].frames
        /\ UNCHANGED <<ntasks, state, current, preempt, ctx, iflag, inService, torn>>
    BY <1>3, OnCpu DEF Jump, Frame
  <2>2. ~torn => Suspended(t, ctx[t].frames)
    BY <2>1 DEF IInv, Untorn, AwayFromCpu, HasContext
  <2>3. ctx[t].frames # <<>>
    BY <2>1, <2>2 DEF IInv, Places, Suspended, StackOf
  <2>4. Sound(frames', ntasks)
    BY <2>1, <2>3 DEF IInv, Places
  <2>5. TypeOK'
    BY <2>1, <2>4 DEF IInv, Places, TypeOK, Sound, Context
  <2>6. ~torn => ~Masked'
    BY <2>1, <2>2 DEF Suspended, Masked, At, Top, Brief
  <2> HIDE DEF t
  <2> QED BY <2>1, <2>4, <2>5, <2>6 DEF Places, IInv, Created
<1> QED BY <1>1, <1>2, <1>3

(* Nothing undoes such a tick.                                             *)
LEMMA TornStays == [Next]_vars /\ torn => torn'
  BY DEF Next, Kernel, Shell, Trampoline, Save, Pick, Handle, Iret, Jump, CreateTask,
     SetPreemption, Compute, Finish, CallYield, Timer, cpu, vars

LEMMA InitInv == Init => IInv
<1> SUFFICES ASSUME Init PROVE IInv
  OBVIOUS
<1>1. Untorn
  BY InitUntorn
<1>2. Places
  <2>1. F("code", Main, 0) \in Frame /\ F("code", Main, 0).at = "code"
    BY FrameFields, TaskAssumption DEF Threads
  <2> DEFINE f == F("code", Main, 0)
  <2>2. frames = <<f>> /\ \A t \in Threads : ctx[t].frames = <<>>
    BY DEF Init
  <2> HIDE DEF f
  <2>3. <<f>> \in Seq(Frame) /\ <<f>> # <<>> /\ Len(<<f>>) = 1 /\ <<f>>[1] = f
    BY <2>1 DEF f
  <2>4. Sound(frames, ntasks) /\ Top = f
    BY <2>1, <2>2, <2>3 DEF Sound, Bottom, f, Top, Last
  <2>5. ~Masked
    BY <2>1, <2>4 DEF Masked, At, InSwitch, f
  <2>6. \A t \in Threads : Created(t) => t = Main
    BY TaskAssumption DEF Init, Created, Threads, Slots
  <2>7. ~torn
    BY DEF Init
  <2> QED BY <1>1, <2>2, <2>4, <2>5, <2>6, <2>7 DEF Places, Untorn
<1> QED BY <1>1, <1>2 DEF IInv

(* The invariant is inductive for any number of tasks, whichever yield,    *)
(* finish or compute, and wherever the timer hits.                         *)
LEMMA StepInv == IInv /\ [Next]_vars => IInv'
<1> SUFFICES ASSUME IInv, [Next]_vars PROVE IInv'
  OBVIOUS
<1>1. Places'
  <2>1. CASE Next
    BY <2>1, CodePlaces, InterruptPlaces, SwitchPlaces DEF Next, Kernel, Shell
  <2>2. CASE UNCHANGED vars
    BY <2>2 DEF vars, IInv, Places, TypeOK, Created, Masked, At, Top
  <2> QED BY <2>1, <2>2
<1> QED BY <1>1, TornStays, UntornStep DEF IInv

THEOREM InductiveInvariant == Spec => []IInv
  BY InitInv, StepInv, PTL DEF Spec

(* The scheduler's variables keep their types, wherever the timer hits: no *)
(* more than MaxTasks tasks are created, and the stack of the running      *)
(* thread is never empty.                                                  *)
THEOREM TypeCorrect == Spec => []TypeOK
<1>1. IInv => TypeOK
  BY DEF IInv, Places
<1> QED BY <1>1, InductiveInvariant, PTL

(* Until a tick hits inside a voluntary task_yield, every thread that is   *)
(* not running has its own place in its own context, and task_yield always *)
(* finds a thread to go on with.                                           *)
THEOREM ContextsKept == Spec => []OwnContexts
<1>1. IInv => OwnContexts
  <2> SUFFICES ASSUME Untorn PROVE OwnContexts
    BY DEF IInv, OwnContexts
  <2>1. ASSUME NEW t \in Threads \ {owner}, Created(t)
        PROVE  ctx[t].owner = t /\ ctx[t].frames # <<>>
    BY <2>1 DEF Untorn, AwayFromCpu, HasContext, Suspended, StackOf
  <2>2. At("saved") => \E i \in 1..Top.total : Takes(i)
    BY Rotation DEF Untorn
  <2> QED BY <2>1, <2>2 DEF Untorn, OwnContexts
<1> QED BY <1>1, InductiveInvariant, PTL

(* Until then the shell's own code runs with interrupts on.                *)
THEOREM ShellStaysInterruptible == Spec => []ShellInterruptible
<1>1. IInv => ShellInterruptible
  BY DEF IInv, Untorn, ShellInterruptible
<1> QED BY <1>1, InductiveInvariant, PTL

-----------------------------------------------------------------------------
(* The round robin.  How many switches a thread has waited says nothing by *)
(* itself: what is preserved is its sum with the places the rotation still *)
(* has to go to reach the thread.                                          *)
Place(t) == IF t = Main THEN ntasks ELSE t
Ahead(t) == IF Place(t) > Place(current)
              THEN Place(t) - Place(current)
              ELSE Place(t) - Place(current) + ntasks + 1
Idle(t) == ~Created(t) \/ (t \in Slots /\ state[t] = "done")
Patience == IF At("picked") THEN ntasks ELSE ntasks + 1

Waits ==
  /\ waited \in [Threads -> Nat]
  /\ \A s \in Slots : s < ntasks => state[s] # "unused"
  /\ waited[owner] = 0
  /\ \A t \in Threads : Idle(t) => waited[t] = 0
  /\ \A t \in Threads : t # current /\ ~Idle(t) => waited[t] + Ahead(t) <= Patience
  /\ At("picked") => waited[current] <= ntasks

(* Between a jump and the next choice of task_yield nobody moves.          *)
LEMMA NobodyMoves ==
  ASSUME Untorn, Waits, MCNext, UNCHANGED <<ntasks, current, owner>>,
         ~At("picked"), ~At("picked")',
         ~torn', UNCHANGED state \/ (owner \in Slots /\ state' = [state EXCEPT ![owner] = "done"])
  PROVE  Waits'
<1>1. TypeOK /\ current = owner /\ owner \in Threads /\ ntasks \in Nat
  BY TaskAssumption DEF Untorn, TypeOK
<1>2. \A t \in Threads : waited'[t] = IF t = owner \/ Idle(t) THEN 0 ELSE waited[t]
  BY DEF MCNext, Idle
<1>3. waited' \in [Threads -> Nat] /\ waited'[owner] = 0
  BY <1>1, <1>2 DEF MCNext, Waits
<1>4. \A s \in Slots : state'[s] = state[s] \/ (s = owner /\ state'[s] = "done")
  BY <1>1 DEF TypeOK
<1>5. \A t \in Threads : Idle(t)' => t = owner \/ Idle(t)
  BY <1>4 DEF Idle, Created
<1>6. \A t \in Threads : t # owner => (Idle(t)' <=> Idle(t))
  BY <1>4 DEF Idle, Created
<1>7. \A t \in Threads : Ahead(t)' = Ahead(t)
  BY DEF Ahead, Place
<1>8. Patience' = Patience
  BY DEF Patience
<1>9. ASSUME NEW t \in Threads, t # current', ~Idle(t)'
      PROVE  waited'[t] + Ahead(t)' <= Patience'
  BY <1>1, <1>2, <1>6, <1>7, <1>8, <1>9 DEF Waits
<1>10. \A t \in Threads : Idle(t)' => waited'[t] = 0
  BY <1>2, <1>5
<1>11. \A s \in Slots : s < ntasks' => state'[s] # "unused"
  BY <1>4 DEF Waits
<1> QED BY <1>3, <1>9, <1>10, <1>11 DEF Waits

(* A task created meanwhile takes the place the shell had in the round,    *)
(* and everybody's distance from the shell stays what it was.              *)
LEMMA CreateTaskWaits == ~torn' /\ Untorn /\ Waits /\ MCNext /\ CreateTask => Waits'
<1> SUFFICES ASSUME ~torn', Untorn, Waits, MCNext, CreateTask PROVE Waits'
  OBVIOUS
<1>1. /\ TypeOK /\ current = Main /\ owner = Main /\ ntasks \in Slots /\ ntasks \in Nat
      /\ ~At("picked") /\ ~At("picked")' /\ Main \notin Slots
  BY TaskAssumption DEF Untorn, TypeOK, CreateTask, At, Top, cpu, Slots, Main
<1>2. /\ UNCHANGED <<current, owner>> /\ ntasks' = ntasks + 1
      /\ state' = [state EXCEPT ![ntasks] = "ready"]
  BY DEF CreateTask, cpu
<1>3. \A t \in Threads : waited'[t] = IF t = Main \/ Idle(t) THEN 0 ELSE waited[t]
  BY <1>1, <1>2 DEF MCNext, Idle
<1>4. waited' \in [Threads -> Nat] /\ waited'[owner'] = 0
  BY <1>1, <1>2, <1>3 DEF MCNext, Waits, Threads
<1>5. \A s \in Slots : state'[s] = IF s = ntasks THEN "ready" ELSE state[s]
  BY <1>1, <1>2 DEF TypeOK
<1>6. \A t \in Threads : t # ntasks => (Idle(t)' <=> Idle(t))
  BY <1>1, <1>2, <1>5 DEF Idle, Created, Slots, Threads
<1>7. Idle(ntasks)
  BY <1>1 DEF Idle, Created
<1>8. \A t \in Threads : Idle(t)' => waited'[t] = 0
  BY <1>3, <1>6, <1>7
<1>9. \A s \in Slots : s < ntasks' => state'[s] # "unused"
  BY <1>1, <1>2, <1>5 DEF Waits, Slots
<1>10. ASSUME NEW t \in Threads, t # current', ~Idle(t)'
       PROVE  waited'[t] + Ahead(t)' <= ntasks' + 1
  <2>1. t \in Slots /\ t < ntasks + 1 /\ t \in Nat
    BY <1>1, <1>2, <1>10, TaskAssumption DEF Threads, Idle, Created, Slots
  <2>2. Ahead(t)' = t + 1
    BY <1>1, <1>2, <2>1 DEF Ahead, Place
  <2>3. CASE t = ntasks
    BY <2>2, <2>3, <1>1, <1>2, <1>3, <1>7
  <2>4. CASE t # ntasks
    <3>1. t # Main /\ ~Idle(t) /\ Ahead(t) = t + 1
      BY <2>1, <2>4, <1>1, <1>6, <1>10 DEF Ahead, Place
    <3>2. waited[t] + Ahead(t) <= ntasks + 1
      BY <3>1, <1>1 DEF Waits, Patience
    <3>3. waited[t] \in Nat /\ waited'[t] = waited[t]
      BY <1>3, <3>1 DEF Waits
    <3> QED BY <3>1, <3>2, <3>3, <2>1, <2>2, <1>1, <1>2
  <2> QED BY <2>3, <2>4
<1> QED BY <1>1, <1>4, <1>8, <1>9, <1>10 DEF Waits, Patience

(* The i-th candidate of task_yield is the i-th place of the round.        *)
LEMMA CandidateIs ==
  ASSUME TypeOK, Created(owner), Top.slot = owner, Top.total = ntasks + 1,
         NEW i \in 1..ntasks + 1
  PROVE  Candidate(i) = IF Place(owner) + i <= ntasks THEN Place(owner) + i
                        ELSE Place(owner) + i - ntasks - 1
<1> DEFINE p == Place(owner)
<1>1. ntasks \in Nat /\ p \in 0..ntasks
  BY TaskAssumption DEF TypeOK, Created, Threads, Slots, Main, Place
<1>2. Candidate(i) = (p + i) % (ntasks + 1)
  BY <1>1 DEF Candidate, Place
<1> HIDE DEF p
<1>3. CASE p + i <= ntasks
  BY <1>1, <1>2, <1>3 DEF p
<1>4. CASE ~(p + i <= ntasks)
  <2>1. (p + i) % (ntasks + 1) = p + i - ntasks - 1
    BY <1>1, <1>4
  <2> QED BY <1>2, <1>4, <2>1 DEF p
<1> QED BY <1>3, <1>4

(* Where a thread is in the round.                                         *)
LEMMA AheadRange ==
  ASSUME TypeOK, Created(current), NEW t \in Threads, Created(t)
  PROVE  /\ ntasks \in Nat /\ Place(t) \in 0..ntasks /\ Place(current) \in 0..ntasks
         /\ Ahead(t) \in 1..ntasks + 1
         /\ t # current => Place(t) # Place(current) /\ Ahead(t) \in 1..ntasks
  BY TaskAssumption DEF TypeOK, Created, Threads, Slots, Main, Place, Ahead

(* Whoever waits and can run is passed over by nobody: the rotation moves  *)
(* towards it by at least the one place the switch costs.                  *)
LEMMA PickWaits == ~torn' /\ Untorn /\ Waits /\ MCNext /\ Pick => Waits'
<1> SUFFICES ASSUME ~torn', Untorn, Waits, MCNext, Pick PROVE Waits'
  OBVIOUS
<1>1. /\ TypeOK /\ At("saved") /\ ~At("picked") /\ current = owner /\ owner \in Threads
      /\ Created(owner) /\ Top.slot = owner /\ Top.total = ntasks + 1 /\ ntasks \in Nat
  BY TaskAssumption DEF Pick, Untorn, At, TypeOK
<1>2. PICK i \in 1..Top.total :
        FirstTaken(i) /\ current' = Target(i) /\ Goto(F("picked", Target(i), 0))
  <2>1. \E i \in 1..Top.total : Takes(i)
    BY <1>1, Rotation
  <2> QED BY <2>1 DEF Pick
<1>3. UNCHANGED <<ntasks, state, owner>>
  BY DEF Pick
<1>4. /\ i \in 1..ntasks + 1 /\ Candidate(i) \in 0..ntasks
      /\ Target(i) \in Threads /\ Created(Target(i))
      /\ Place(Target(i)) = Candidate(i)
  <2>1. i \in 1..ntasks + 1 /\ Candidate(i) \in 0..ntasks
    BY <1>1, Rotation
  <2> QED BY <2>1, <1>1, TargetCreated, TaskAssumption DEF Place, Target, Main
<1>5. \A t \in Threads : waited'[t] = IF t = owner \/ Idle(t) THEN 0 ELSE waited[t]
  BY <1>1, <1>3 DEF MCNext, Idle
<1>6. waited' \in [Threads -> Nat] /\ waited'[owner'] = 0
  BY <1>1, <1>3, <1>5 DEF MCNext, Waits
<1>7. \A t \in Threads : Idle(t)' <=> Idle(t)
  BY <1>3 DEF Idle, Created
<1>8. \A t \in Threads : Place(t)' = Place(t)
  BY <1>3 DEF Place
<1>9. ASSUME NEW t \in Threads, t # owner, ~Idle(t)
      PROVE  Ahead(t) >= i /\ (Ahead(t) = i => t = Target(i))
  <2> DEFINE k == Ahead(t)
  <2>1. /\ Created(t) /\ (t \in Slots => state[t] = "ready")
        /\ Place(t) \in 0..ntasks /\ k \in 1..ntasks
    <3>1. Created(t) /\ (t \in Slots => state[t] # "done")
      BY <1>9 DEF Idle
    <3>2. t \in Slots => t # Main /\ state[t] \in {"unused", "ready", "done"}
      BY <1>1, TaskAssumption DEF TypeOK, Slots, Main
    <3>3. t \in Slots => state[t] # "unused"
      BY <3>1, <3>2 DEF Created, Waits
    <3>4. Place(t) \in 0..ntasks /\ k \in 1..ntasks
      BY <3>1, <1>1, <1>9, AheadRange
    <3> QED BY <3>1, <3>2, <3>3, <3>4
  <2>2. Candidate(k) = Place(t)
    BY <1>1, <2>1, CandidateIs, AheadRange DEF Ahead
  <2>3. Takes(k)
    BY <2>1, <2>2, <1>9 DEF Takes, Place, Threads
  <2>4. ~(k < i)
    BY <1>2, <1>4, <2>1, <2>3 DEF FirstTaken
  <2>5. k = i => t = Target(i)
    BY <2>1, <2>2, <1>1, TaskAssumption DEF Target, Place, Created, Threads, Slots, Main
  <2> QED BY <2>1, <2>4, <2>5, <1>4
<1>10. ASSUME NEW t \in Threads, t # Target(i), ~Idle(t)
       PROVE  waited'[t] + Ahead(t)' <= ntasks
  <2>1. Created(t)
    BY <1>10 DEF Idle
  <2>2. /\ Place(t) \in 0..ntasks /\ Place(Target(i)) \in 0..ntasks
        /\ Place(t) # Place(Target(i))
    BY <2>1, <1>1, <1>4, <1>10, TaskAssumption
       DEF Place, Created, Threads, Slots, Main
  <2>3. Ahead(t)' = IF Place(t) > Place(Target(i)) THEN Place(t) - Place(Target(i))
                    ELSE Place(t) - Place(Target(i)) + ntasks + 1
    BY <1>2, <1>3, <1>8 DEF Ahead, Place
  <2>4. CASE t = owner
    BY <2>2, <2>3, <2>4, <1>1, <1>5
  <2>5. CASE t # owner
    <3>1. /\ Ahead(t) >= i /\ Ahead(t) # i
      BY <2>5, <1>9, <1>10
    <3>2. Ahead(t) \in 1..ntasks /\ Place(owner) \in 0..ntasks
      BY <1>1, <2>1, <2>5, AheadRange
    <3>3. waited[t] \in Nat /\ waited'[t] = waited[t] /\ waited[t] + Ahead(t) <= ntasks + 1
      BY <1>1, <1>5, <1>10, <2>5 DEF Waits, Patience
    <3>4. Place(Target(i)) = IF Place(owner) + i <= ntasks THEN Place(owner) + i
                             ELSE Place(owner) + i - ntasks - 1
      BY <1>1, <1>4, CandidateIs
    <3>5. Ahead(t) = IF Place(t) > Place(owner) THEN Place(t) - Place(owner)
                     ELSE Place(t) - Place(owner) + ntasks + 1
      BY <1>1 DEF Ahead
    <3> DEFINE a == Ahead(t)
               b == Ahead(t)'
               x == Place(t)
               y == Place(Target(i))
               z == Place(owner)
    <3>6. b = a - i
      <4>1. a > i /\ a \in Nat /\ i \in Nat /\ i >= 1 /\ z \in 0..ntasks
        BY <3>1, <3>2, <1>4
      <4>2. y = IF z + i <= ntasks THEN z + i ELSE z + i - ntasks - 1
        BY <3>4
      <4>3. a = IF x > z THEN x - z ELSE x - z + ntasks + 1
        BY <3>5
      <4>4. b = IF x > y THEN x - y ELSE x - y + ntasks + 1
        BY <2>3
      <4>5. x \in 0..ntasks /\ y \in 0..ntasks /\ x # y
        BY <2>2
      <4> HIDE DEF a, b, x, y, z
      <4> QED BY <4>1, <4>2, <4>3, <4>4, <4>5, <1>1
    <3> QED BY <3>1, <3>2, <3>3, <3>6, <1>1, <1>4
  <2> QED BY <2>4, <2>5
<1>11. waited'[Target(i)] <= ntasks
  <2>1. CASE Target(i) = owner \/ Idle(Target(i))
    BY <2>1, <1>1, <1>4, <1>5
  <2>2. CASE ~(Target(i) = owner \/ Idle(Target(i)))
    <3>1. Ahead(Target(i)) \in 1..ntasks
      BY <2>2, <1>1, <1>4, AheadRange
    <3>2. waited[Target(i)] \in Nat /\ waited[Target(i)] + Ahead(Target(i)) <= ntasks + 1
      BY <2>2, <1>1, <1>4 DEF Waits, Patience
    <3>3. waited'[Target(i)] = waited[Target(i)]
      BY <2>2, <1>4, <1>5
    <3> QED BY <3>1, <3>2, <3>3, <1>1
  <2> QED BY <2>1, <2>2
<1>12. \A t \in Threads : Idle(t)' => waited'[t] = 0
  BY <1>5, <1>7
<1>13. At("picked")'
  <2>1. frames' = [frames EXCEPT ![Len(frames)] = F("picked", Target(i), 0)]
    BY <1>2 DEF Goto
  <2>2. F("picked", Target(i), 0).at = "picked"
    BY DEF F
  <2>3. frames \in Seq(Frame) /\ Len(frames) \in Nat /\ Len(frames) >= 1
    BY Running
  <2>4. Len(frames') = Len(frames) /\ frames'[Len(frames)] = F("picked", Target(i), 0)
    BY <2>1, <2>3
  <2> QED BY <2>2, <2>4 DEF At, Top, Last
<1>14. \A s \in Slots : s < ntasks' => state'[s] # "unused"
  BY <1>3 DEF Waits
<1> QED BY <1>2, <1>3, <1>6, <1>7, <1>10, <1>11, <1>12, <1>13, <1>14 DEF Waits, Patience

(* The jump costs every thread but the one it goes to one turn.            *)
LEMMA JumpWaits == ~torn' /\ Untorn /\ Waits /\ MCNext /\ Jump => Waits'
<1> SUFFICES ASSUME ~torn', Untorn, Waits, MCNext, Jump PROVE Waits'
  OBVIOUS
<1>1. At("picked") /\ Top.slot \in Threads /\ current = Top.slot /\ Created(current)
  BY Running DEF Jump, Untorn, Frame
<1>2. ctx[current].owner = current /\ Suspended(current, ctx[current].frames)
  BY <1>1 DEF Untorn, AwayFromCpu, HasContext
<1>3. /\ owner' = current /\ UNCHANGED <<ntasks, state, current>> /\ ~At("picked")'
  BY <1>1, <1>2 DEF Jump, Suspended, At, Top, InSwitch, Brief
<1>4. \A t \in Threads : waited'[t] = IF t = current \/ Idle(t) THEN 0 ELSE waited[t] + 1
  BY <1>1, <1>3 DEF MCNext, Idle
<1>5. waited' \in [Threads -> Nat] /\ waited'[owner'] = 0
  BY <1>1, <1>3, <1>4 DEF MCNext, Waits
<1>6. \A t \in Threads : (Idle(t)' <=> Idle(t)) /\ Ahead(t)' = Ahead(t)
  BY <1>3 DEF Idle, Created, Ahead, Place
<1>7. ASSUME NEW t \in Threads, t # current, ~Idle(t)
      PROVE  waited'[t] + Ahead(t)' <= ntasks + 1
  <2>1. TypeOK /\ Created(t)
    BY <1>7 DEF Untorn, Idle
  <2>2. ntasks \in Nat /\ Ahead(t) \in 1..ntasks
    BY <1>1, <1>7, <2>1, AheadRange
  <2>3. waited[t] \in Nat /\ waited[t] + Ahead(t) <= ntasks
    BY <1>1, <1>7 DEF Waits, Patience
  <2> QED BY <2>2, <2>3, <1>4, <1>6, <1>7
<1>8. \A t \in Threads : Idle(t)' => waited'[t] = 0
  BY <1>4, <1>6
<1>9. \A s \in Slots : s < ntasks' => state'[s] # "unused"
  BY <1>3 DEF Waits
<1> QED BY <1>3, <1>5, <1>6, <1>7, <1>8, <1>9 DEF Waits, Patience

(* A step that leaves a frame other than "picked" on top, from another.    *)
LEMMA OnTop ==
  ASSUME Untorn
  PROVE  /\ \A f : Goto(f) => Top' = f
         /\ \A f : Push(f) => Top' = f
<1>1. frames \in Seq(Frame) /\ Len(frames) \in Nat /\ Len(frames) >= 1
  BY Running
<1>2. ASSUME NEW f, Goto(f) PROVE Top' = f
  BY <1>1, <1>2 DEF Goto, Top, Last
<1>3. ASSUME NEW f, Push(f) PROVE Top' = f
  BY <1>1, <1>3 DEF Push, Top, Last
<1> QED BY <1>2, <1>3

(* No step but Pick leaves "picked" on top, and no step but the jump       *)
(* starts from it.                                                         *)
LEMMA NotPicked ==
  ASSUME ~torn', Untorn, Next
  PROVE  /\ At("picked") => Jump
         /\ ~At("picked") /\ ~Pick => ~At("picked")'
<1>1. frames \in Seq(Frame) /\ Top.at \in {"start", "code", "done", "irq", "iret", "enter", "saved", "picked"}
  BY Running DEF Frame
<1>2. At("picked") => Jump
  BY <1>1 DEF Next, Kernel, Shell, Trampoline, Save, Pick, Handle, Iret, CreateTask, SetPreemption,
     Compute, Finish, CallYield, Timer, Switching, At
<1>3. ASSUME ~At("picked"), ~Pick PROVE ~At("picked")'
  <2>1. CASE Trampoline \/ Save \/ Finish
    <3>1. \/ Goto(F("code", current, 0)) \/ Goto(F("saved", current, ntasks + 1))
          \/ Goto(F("done", Top.slot, 0))
      BY <2>1 DEF Trampoline, Save, Finish
    <3>2. Top'.at \in {"code", "saved", "done"}
      BY <3>1, OnTop DEF F
    <3> QED BY <3>2 DEF At
  <2>2. CASE CallYield \/ Timer
    <3>1. Push(F("enter", Main, 0)) \/ Push(F("irq", Main, 0))
      BY <2>2 DEF CallYield, Timer
    <3>2. Top'.at \in {"enter", "irq"}
      BY <3>1, OnTop DEF F
    <3> QED BY <3>2 DEF At
  <2>3. CASE Handle
    <3> DEFINE isr == [frames EXCEPT ![Len(frames)] = F("iret", Main, 0)]
               e == F("enter", Main, 0)
    <3>1. frames' = isr \/ frames' = Append(isr, e)
      BY <2>3 DEF Handle
    <3>2. frames \in Seq(Frame) /\ Len(frames) \in Nat /\ Len(frames) >= 1
      BY Running
    <3>3. F("iret", Main, 0) \in Frame /\ F("iret", Main, 0).at = "iret" /\ e \in Frame /\ e.at = "enter"
      BY FrameFields, TaskAssumption DEF Threads
    <3>4. isr \in Seq(Frame) /\ Len(isr) = Len(frames) /\ isr[Len(frames)] = F("iret", Main, 0)
      BY <3>2, <3>3
    <3>5. Last(isr).at = "iret" /\ Last(Append(isr, e)).at = "enter"
      <4> HIDE DEF isr, e
      <4>1. Last(Append(isr, e)) = e
        BY <3>3, <3>4 DEF Last
      <4> QED BY <4>1, <3>3, <3>4 DEF Last
    <3> QED BY <3>1, <3>5 DEF At, Top
  <2>4. CASE Iret
    <3>1. StackOf(owner, frames) /\ Top.at = "iret" /\ frames' = Front(frames)
      BY <2>4, Running DEF Iret, At, Pop
    <3>2. Last(Front(frames)).at \notin Brief
      BY <3>1, Running, PopStack DEF Bottom
    <3> QED BY <3>1, <3>2 DEF At, Top, InSwitch, Brief
  <2>5. CASE Shell \/ Compute
    BY <2>5, <1>3 DEF Shell, CreateTask, SetPreemption, Compute, cpu, vars, At, Top
  <2>6. CASE Jump
    BY <2>6, <1>3 DEF Jump
  <2> QED BY <2>1, <2>2, <2>3, <2>4, <2>5, <2>6, <1>3 DEF Next, Kernel, Shell
<1> QED BY <1>2, <1>3

LEMMA MCNextWaits == ~torn' /\ Untorn /\ Waits /\ MCNext => Waits'
<1> SUFFICES ASSUME ~torn', Untorn, Waits, MCNext PROVE Waits'
  OBVIOUS
<1>1. Next
  BY DEF MCNext
<1>2. CASE CreateTask
  BY <1>2, CreateTaskWaits
<1>3. CASE Pick
  BY <1>3, PickWaits
<1>4. CASE Jump
  BY <1>4, JumpWaits
<1>5. CASE ~(CreateTask \/ Pick \/ Jump)
  <2>1. ~At("picked") /\ ~At("picked")'
    BY <1>1, <1>5, NotPicked
  <2>2. CASE Finish
    <3>1. Top.slot = owner /\ owner \in Slots
      BY <2>2, Running, TaskAssumption DEF Finish, At, Bottom, Slots
    <3> QED BY <2>1, <2>2, <3>1, NobodyMoves DEF Finish
  <2>3. CASE ~Finish
    <3>1. UNCHANGED <<ntasks, current, owner, state>>
      BY <1>1, <1>5, <2>3 DEF Next, Kernel, Shell, Trampoline, Save, Handle, Iret,
         SetPreemption, Compute, CallYield, Timer, cpu, vars
    <3> QED BY <2>1, <3>1, NobodyMoves
  <2> QED BY <2>2, <2>3
<1> QED BY <1>2, <1>3, <1>4, <1>5

(* Round robin: until a tick hits inside a voluntary task_yield, a thread  *)
(* that can run waits for at most one turn of every other thread, whatever *)
(* tasks are created or finish meanwhile, for any number of tasks.  The    *)
(* history variable only watches the scheduler, so the scheduler's own     *)
(* invariant holds beside it; after such a tick it counts no further.      *)
THEOREM RoundRobin == MCSpec => []BoundedWaiting
<1> DEFINE Turns == IF torn THEN waited = [t \in Threads |-> 0] ELSE Waits
<1>1. MCInit => IInv /\ Turns
  <2> SUFFICES ASSUME MCInit PROVE IInv /\ Waits
    BY DEF MCInit, Init
  <2>1. IInv
    BY InitInv DEF MCInit
  <2>2. ~At("picked") /\ \A t \in Threads : ~Created(t) \/ t = Main
    <3>1. F("code", Main, 0).at = "code" /\ F("code", Main, 0) \in Frame
      BY FrameFields, TaskAssumption DEF Threads
    <3>2. Top = F("code", Main, 0)
      BY <3>1 DEF MCInit, Init, Top, Last
    <3> QED BY <3>1, <3>2, TaskAssumption DEF At, MCInit, Init, Created, Threads, Slots
  <2> QED BY <2>1, <2>2, TaskAssumption
          DEF Waits, MCInit, Init, Idle, Created, Threads, Slots, Main
<1>2. IInv /\ Turns /\ [MCNext]_MCVars => IInv' /\ Turns'
  <2> SUFFICES ASSUME IInv, Turns, [MCNext]_MCVars PROVE IInv' /\ Turns'
    OBVIOUS
  <2>1. CASE MCNext
    <3>1. Next
      BY <2>1 DEF MCNext
    <3>2. IInv' /\ (torn => torn')
      BY <3>1, StepInv, TornStays
    <3>3. CASE torn'
      BY <2>1, <3>2, <3>3 DEF MCNext
    <3>4. CASE ~torn'
      BY <2>1, <3>2, <3>4, MCNextWaits DEF IInv
    <3> QED BY <3>2, <3>3, <3>4
  <2>2. CASE UNCHANGED MCVars
    <3>1. IInv'
      BY <2>2, StepInv DEF MCVars
    <3>2. UNCHANGED <<At("picked"), waited, ntasks, state, current, owner, torn>>
      BY <2>2 DEF MCVars, vars, At, Top
    <3> QED BY <3>1, <3>2 DEF Waits, Patience, Idle, Created, Ahead, Place
  <2> QED BY <2>1, <2>2
<1>3. IInv /\ Turns => BoundedWaiting
  <2> SUFFICES ASSUME IInv, Turns, NEW t \in Threads PROVE waited[t] <= ntasks
    BY DEF BoundedWaiting
  <2>1. ntasks \in Nat /\ TypeOK
    BY TaskAssumption DEF IInv, Places, TypeOK
  <2>2. CASE torn
    BY <2>1, <2>2
  <2>3. CASE ~torn
    <3>1. Waits /\ Created(current) /\ (~At("picked") => current = owner)
      BY <2>3 DEF IInv, Untorn
    <3>2. CASE Idle(t) \/ t = owner \/ (t = current /\ At("picked"))
      BY <2>1, <3>1, <3>2 DEF Waits
    <3>3. CASE t # current /\ ~Idle(t)
      <4>1. Ahead(t) \in 1..ntasks
        BY <2>1, <3>1, <3>3, AheadRange DEF Idle
      <4>2. waited[t] + Ahead(t) <= Patience /\ waited[t] \in Nat
        BY <3>1, <3>3 DEF Waits
      <4>3. Patience \in {ntasks, ntasks + 1}
        BY DEF Patience
      <4> QED BY <4>1, <4>2, <4>3, <2>1
    <3> QED BY <3>1, <3>2, <3>3
  <2> QED BY <2>2, <2>3
<1> HIDE DEF Turns
<1> QED BY <1>1, <1>2, <1>3, PTL DEF MCSpec
=============================================================================
