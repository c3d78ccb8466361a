-------------------------------- MODULE Task --------------------------------
(***************************************************************************)
(* The scheduler of kernel threads, kernel/task.c, on one CPU with its     *)
(* timer interrupt: k_setjmp and k_longjmp (context.S), the EOI and the    *)
(* dispatch of isr_handler (idt.c) and the interrupt flag, which iretq     *)
(* restores and k_longjmp does not.                                        *)
(*                                                                         *)
(* The CPU runs the top frame of one thread's stack.  Frames are           *)
(*   start   task_trampoline, not entered yet                              *)
(*   code    the thread's own code                                         *)
(*   done    the task_yield loop of a finished task                        *)
(*   irq     isr_handler, before its EOI                                   *)
(*   iret    isr_handler, nothing left but to return                       *)
(*   enter   task_yield, called                                            *)
(*   saved   task_yield after k_setjmp; slot and total are its locals      *)
(*   picked  task_yield after g_current = idx, before k_longjmp            *)
(* Only the shell creates tasks and switches preemption, and it never      *)
(* calls task_yield.  No ring-3 program runs, so process_is_active is 0.   *)
(***************************************************************************)
EXTENDS Integers, Sequences, SequencesExt

CONSTANTS
  MaxTasks,      \* MAX_TASKS
  Yielding,      \* the slots whose code calls task_yield
  Finishing,     \* the slots whose entry function returns
  MaxFrames      \* bound of the model: the deepest stack it follows

ASSUME TaskAssumption ==
  /\ MaxTasks \in Nat \ {0}
  /\ Yielding \subseteq 0..MaxTasks-1 /\ Finishing \subseteq 0..MaxTasks-1
  /\ MaxFrames \in Nat \ {0}

Slots == 0..MaxTasks-1
Main == -1                    \* g_current while the shell runs
Threads == Slots \cup {Main}
Frame == [at : {"start", "code", "done", "irq", "iret", "enter", "saved", "picked"},
          slot : Threads, total : 0..MaxTasks+1]
F(at, slot, total) == [at |-> at, slot |-> slot, total |-> total]

VARIABLES
  ntasks,      \* g_ntasks
  state,       \* g_tasks[].state
  current,     \* g_current
  preempt,     \* g_preemption_enabled
  ctx,         \* g_tasks[].ctx and g_main_ctx: whose stack, and its frames
  owner,       \* the thread whose stack the CPU is on
  frames,      \* that stack, the top frame last
  iflag,       \* RFLAGS.IF
  inService,   \* IRQ0 is being serviced: the PIC raises it only after an EOI
  torn         \* history: a tick has hit inside a voluntary task_yield

vars == <<ntasks, state, current, preempt, ctx, owner, frames, iflag, inService, torn>>
cpu == <<owner, frames, iflag, inService, torn>>

Top == Last(frames)
At(place) == Top.at = place
Goto(f) == frames' = [frames EXCEPT ![Len(frames)] = f]
Push(f) == frames' = Append(frames, f)
Pop == frames' = Front(frames)

Created(t) == t = Main \/ t < ntasks

-----------------------------------------------------------------------------
(* After boot the shell runs with interrupts on and preemption off.        *)
Init ==
  /\ ntasks = 0
  /\ state = [s \in Slots |-> "unused"]
  /\ current = Main
  /\ preempt = FALSE
  /\ ctx = [t \in Threads |-> [owner |-> t, frames |-> <<>>]]
  /\ owner = Main
  /\ frames = <<F("code", Main, 0)>>
  /\ iflag = TRUE
  /\ inService = FALSE
  /\ torn = FALSE

(* Mutant: task_create without its limit.                                  *)
CreateTaskUnchecked ==
  /\ owner = Main /\ At("code") /\ ntasks <= MaxTasks
  /\ ntasks' = ntasks + 1
  /\ UNCHANGED <<state, ctx, current, preempt, cpu>>

(* task_create; with every slot taken it returns -1 and changes nothing.   *)
(* The scheduler looks at no slot before g_ntasks counts it, so the fields *)
(* filled before that are one step.                                        *)
CreateTask ==
  /\ owner = Main /\ At("code")
  /\ ntasks < MaxTasks
  /\ ctx' = [ctx EXCEPT ![ntasks] = [owner |-> ntasks,
                                     frames |-> <<F("start", ntasks, 0)>>]]
  /\ state' = [state EXCEPT ![ntasks] = "ready"]
  /\ ntasks' = ntasks + 1
  /\ UNCHANGED <<current, preempt, cpu>>

(* scheduler_set_preemption, the command `sched on|off`.                   *)
SetPreemption ==
  /\ owner = Main /\ At("code")
  /\ preempt' = ~preempt
  /\ UNCHANGED <<ntasks, state, current, ctx, cpu>>

(* Mutant: task_trampoline without sti.                                    *)
TrampolineWithoutSti ==
  /\ At("start")
  /\ Goto(F("code", current, 0))
  /\ UNCHANGED <<ntasks, state, current, preempt, ctx, owner, iflag, inService, torn>>

(* task_trampoline enters the task: sti, then entry().                     *)
Trampoline ==
  /\ At("start")
  /\ Goto(F("code", current, 0))
  /\ iflag' = TRUE
  /\ UNCHANGED <<ntasks, state, current, preempt, ctx, owner, inService, torn>>

(* The thread computes on, which changes nothing here.                     *)
Compute == At("code") /\ UNCHANGED vars

(* entry() returns: the task is done and goes on yielding.                 *)
Finish ==
  /\ At("code") /\ Top.slot \in Finishing
  /\ state' = [state EXCEPT ![Top.slot] = "done"]
  /\ Goto(F("done", Top.slot, 0))
  /\ UNCHANGED <<ntasks, current, preempt, ctx, owner, iflag, inService, torn>>

(* A task calls task_yield, from its own code or from the final loop.      *)
CallYield ==
  /\ \/ At("done")
     \/ At("code") /\ Top.slot \in Yielding
  /\ Push(F("enter", Main, 0))
  /\ UNCHANGED <<ntasks, state, current, preempt, ctx, owner, iflag, inService, torn>>

-----------------------------------------------------------------------------
(* task_yield.  The slot of the thread g_current names; the shell has the  *)
(* slot behind the last task.                                              *)
CurSlot == IF current = Main THEN ntasks ELSE current

(* k_setjmp into the context g_current names.  Whoever jumps back finds    *)
(* the stack below task_yield's frame: task_yield has returned.            *)
Save ==
  /\ At("enter")
  /\ ctx' = [ctx EXCEPT ![current] = [owner |-> owner, frames |-> Front(frames)]]
  /\ Goto(F("saved", current, ntasks + 1))
  /\ UNCHANGED <<ntasks, state, current, preempt, owner, iflag, inService, torn>>

CandidateFromZero(i) == i % Top.total  \* mutant: not from cur_slot on
(* The loop of task_yield: its idx-th candidate, and whether it is taken.  *)
Candidate(i) == ((IF Top.slot = Main THEN Top.total - 1 ELSE Top.slot) + i) % Top.total
Takes(i) == Candidate(i) # ntasks => state[Candidate(i)] = "ready"
Target(i) == IF Candidate(i) = ntasks THEN Main ELSE Candidate(i)
FirstTaken(i) == Takes(i) /\ \A j \in 1..i-1 : ~Takes(j)

(* Mutant: task_yield does not set g_current.                              *)
PickForgetsCurrent ==
  /\ At("saved")
  /\ \E i \in 1..Top.total : FirstTaken(i) /\ Goto(F("picked", Target(i), 0))
  /\ UNCHANGED <<ntasks, state, current, preempt, ctx, owner, iflag, inService, torn>>

(* The last branch is the fall through below the loop.                     *)
Pick ==
  /\ At("saved")
  /\ IF \E i \in 1..Top.total : Takes(i)
       THEN \E i \in 1..Top.total :
              /\ FirstTaken(i)
              /\ current' = Target(i)
              /\ Goto(F("picked", Target(i), 0))
       ELSE Pop /\ UNCHANGED current
  /\ UNCHANGED <<ntasks, state, preempt, ctx, owner, iflag, inService, torn>>

(* k_longjmp leaves IF as it is.                                           *)
Jump ==
  /\ At("picked")
  /\ owner' = ctx[Top.slot].owner
  /\ frames' = ctx[Top.slot].frames
  /\ UNCHANGED <<ntasks, state, current, preempt, ctx, iflag, inService, torn>>

-----------------------------------------------------------------------------
(* The timer interrupts whatever runs with IF set.  task_yield runs with   *)
(* IF set when a task has called it, and nothing in it turns IF off: a     *)
(* tick there yields again, between the two halves of the first switch.    *)
Switching == At("enter") \/ At("saved") \/ At("picked")
Timer ==
  /\ iflag /\ ~inService
  /\ Len(frames) < MaxFrames
  /\ Push(F("irq", Main, 0))
  /\ iflag' = FALSE
  /\ inService' = TRUE
  /\ torn' = (torn \/ Switching)
  /\ UNCHANGED <<ntasks, state, current, preempt, ctx, owner>>

(* Mutant: the EOI is sent after the handler, as it once was.              *)
HandleBeforeEoi ==
  /\ At("irq")
  /\ inService' = (preempt /\ ntasks > 0)
  /\ LET isr == [frames EXCEPT ![Len(frames)] = F("iret", Main, 0)]
     IN  frames' = IF preempt /\ ntasks > 0 THEN Append(isr, F("enter", Main, 0))
                                            ELSE isr
  /\ UNCHANGED <<ntasks, state, current, preempt, ctx, owner, iflag, torn>>

(* isr_handler sends the EOI and calls scheduler_tick.                     *)
Handle ==
  /\ At("irq")
  /\ inService' = FALSE
  /\ LET isr == [frames EXCEPT ![Len(frames)] = F("iret", Main, 0)]
     IN  frames' = IF preempt /\ ntasks > 0 THEN Append(isr, F("enter", Main, 0))
                                            ELSE isr
  /\ UNCHANGED <<ntasks, state, current, preempt, ctx, owner, iflag, torn>>

(* Mutant: the interrupt returns without restoring IF.                     *)
IretKeepsIf ==
  /\ At("iret")
  /\ Pop
  /\ UNCHANGED <<ntasks, state, current, preempt, ctx, owner, iflag, inService, torn>>

(* iretq: only code with IF set is ever interrupted.                       *)
Iret ==
  /\ At("iret")
  /\ Pop
  /\ iflag' = TRUE
  /\ UNCHANGED <<ntasks, state, current, preempt, ctx, owner, inService, torn>>

Kernel == Trampoline \/ Save \/ Pick \/ Jump \/ Handle \/ Iret
Shell == CreateTask \/ SetPreemption

Next == Kernel \/ Shell \/ Compute \/ Finish \/ CallYield \/ Timer

(* The CPU goes on executing kernel code, the PIT goes on ticking, and a   *)
(* task that yields goes on yielding (the demo tasks wait in such a loop). *)
Fairness == WF_vars(Kernel) /\ WF_vars(Timer) /\ WF_vars(CallYield)

Spec == Init /\ [][Next]_vars
FairSpec == Spec /\ Fairness
-----------------------------------------------------------------------------
Context == [owner : Threads, frames : Seq(Frame)]

TypeOK ==
  /\ ntasks \in 0..MaxTasks
  /\ state \in [Slots -> {"unused", "ready", "done"}]
  /\ current \in Threads /\ owner \in Threads
  /\ preempt \in BOOLEAN /\ iflag \in BOOLEAN /\ inService \in BOOLEAN /\ torn \in BOOLEAN
  /\ ctx \in [Threads -> Context]
  /\ frames \in Seq(Frame) /\ frames # <<>>

(* Until a tick hits inside a voluntary task_yield, every thread that is   *)
(* not on the CPU has its own stack in its own context, so rotation can    *)
(* always come back to where it was: the reason the comment in task_yield  *)
(* gives for the shell's virtual slot.  And the loop of task_yield always  *)
(* finds a thread ("this cannot happen").                                  *)
OwnContexts ==
  ~torn =>
    /\ ~At("picked") => current = owner
    /\ \A t \in Threads \ {owner} :
         Created(t) => /\ ctx[t].owner = t
                       /\ ctx[t].frames # <<>>
    /\ At("saved") => \E i \in 1..Top.total : Takes(i)

(* What the comment says of the shell alone, and says without reserve: its *)
(* place is kept whenever it is not on the CPU.                            *)
ShellContextKept == owner # Main => ctx[Main].owner = Main

(* The shell's own code never runs with interrupts off: it sleeps in hlt,  *)
(* from which only an interrupt wakes it.  k_longjmp does not restore IF,  *)
(* so this rests on the shell being suspended in interrupts only, and      *)
(* lasts as long as each thread comes back on its own stack.               *)
ShellInterruptible == ~torn /\ owner = Main /\ At("code") => iflag

(* A ready task is run again and again while preemption is on, whatever    *)
(* the other tasks do, and the shell always gets the CPU back, unless a    *)
(* tick hits inside a voluntary task_yield.                                *)
ReadyRuns ==
  \A s \in Slots :
    (preempt /\ state[s] = "ready")
      ~> (owner = s \/ ~preempt \/ state[s] = "done" \/ torn)
ShellComesBack == []<>(owner = Main \/ torn)
=============================================================================
