------------------------------ MODULE Keyboard ------------------------------
(***************************************************************************)
(* The keyboard driver, kernel/arch/x86_64/keyboard.c: the interrupt       *)
(* handler of IRQ1, which decodes scancodes and pushes events into a ring, *)
(* and keyboard_read_key, which the shell's thread polls.  The handler is  *)
(* one step.  The reader is one step per access of the volatile g_kb_tail  *)
(* and g_kb_buffer, except that the comparison with g_kb_head is one (an   *)
(* interrupt between its two loads can only make the ring look empty).     *)
(*                                                                         *)
(* An event is the number of the push that made it: which key it stands    *)
(* for makes no difference to the ring.  last, typed, overrun and          *)
(* overwritten are not in the code: they are history, and only observe.    *)
(* Any number of interrupts hits within one keyboard_read_key, as the      *)
(* timer may suspend the shell's thread in the middle of it.               *)
(***************************************************************************)
EXTENDS Integers

CONSTANTS
  Size,      \* KB_BUFFER_SIZE
  MaxTyped   \* bound of the model: the events it follows

ASSUME KeyboardAssumption ==
  Size \in Nat /\ Size >= 2 /\ MaxTyped \in Nat

(* A byte from the controller: 0xE0, or a key pressed or released.  "srx"  *)
(* are the letters that mean something with Ctrl, "char" the others.       *)
Keys == {"shift", "ctrl", "f2", "esc", "srx", "char", "cursor"}
Bytes == [key : Keys, release : BOOLEAN] \cup {[key |-> "e0", release |-> FALSE]}
VARIABLES
  buffer, head, tail,      \* g_kb_buffer, g_kb_head, g_kb_tail
  shift, ctrl, extended,   \* g_shift_pressed, g_ctrl_pressed, g_extended_prefix
  pc, idx, ev,             \* keyboard_read_key, its loaded index and event
  last,                    \* the push whose event was returned last
  typed,                   \* pushes so far
  overrun,                 \* more events were unread at once than fit
  overwritten              \* a push hit the place the reader had yet to load

ring == <<buffer, head, tail>>
modifiers == <<shift, ctrl, extended>>
reader == <<pc, idx, ev, last>>
vars == <<ring, modifiers, reader, typed, overrun, overwritten>>

IncUnbounded(i) == i + 1   \* mutant
Inc(i) == (i + 1) % Size

(* keyboard_init.                                                          *)
Init ==
  /\ buffer = [i \in 0..Size-1 |-> 0]
  /\ head = 0 /\ tail = 0
  /\ shift = FALSE /\ ctrl = FALSE /\ extended = FALSE
  /\ pc = "out" /\ idx = 0 /\ ev = 0
  /\ last = 0 /\ typed = 0 /\ overrun = FALSE /\ overwritten = FALSE

(* Whether a byte is an event: releases and modifiers are none, and with   *)
(* Ctrl held Escape is one only under Shift.                               *)
IsEvent(b) ==
  /\ ~b.release
  /\ IF extended THEN b.key = "cursor"
     ELSE \/ b.key \in {"f2", "srx"}
          \/ b.key = "esc" /\ (ctrl => shift)
          \/ b.key = "char" /\ ~ctrl

Modify(b) ==
  /\ extended' = (b.key = "e0")
  /\ shift' = IF b.key = "shift" /\ ~extended THEN ~b.release ELSE shift
  /\ ctrl' = IF b.key = "ctrl" THEN ~b.release ELSE ctrl

(* kb_push_event: a full ring loses its oldest event.                      *)
FullEarly == Inc(Inc(head)) = tail   \* mutant
Full == Inc(head) = tail
Push ==
  /\ tail' = IF Full THEN Inc(tail) ELSE tail
  /\ buffer' = [buffer EXCEPT ![head] = typed + 1]
  /\ head' = Inc(head)
  /\ typed' = typed + 1
  /\ overrun' = (overrun \/ typed + 1 - last > Size - 1)
  /\ overwritten' = (overwritten \/ (pc = "event" /\ head = idx))

(* keyboard_irq_handler.                                                   *)
Irq(b) ==
  /\ typed < MaxTyped
  /\ Modify(b)
  /\ IF IsEvent(b) THEN Push ELSE UNCHANGED <<ring, typed, overrun, overwritten>>
  /\ UNCHANGED reader

-----------------------------------------------------------------------------
(* keyboard_read_key.  On an empty ring it returns KEY_NONE.               *)
Reader(from, to) ==
  /\ pc = from /\ pc' = to
  /\ UNCHANGED <<buffer, head, modifiers, typed, overrun, overwritten>>

Check ==
  /\ Reader("out", "index")
  /\ tail # head
  /\ UNCHANGED <<tail, idx, ev, last>>
LoadIndex ==
  Reader("index", "event") /\ idx' = tail /\ UNCHANGED <<tail, ev, last>>
LoadEvent ==
  Reader("event", "tail") /\ ev' = buffer[idx] /\ UNCHANGED <<tail, idx, last>>
LoadTail ==
  Reader("tail", "store") /\ idx' = tail /\ UNCHANGED <<tail, ev, last>>
StoreNothing ==   \* mutant
  Reader("store", "out") /\ tail' = idx /\ last' = ev /\ UNCHANGED <<idx, ev>>
StoreTail ==
  Reader("store", "out") /\ tail' = Inc(idx) /\ last' = ev /\ UNCHANGED <<idx, ev>>

ReadKey == Check \/ LoadIndex \/ LoadEvent \/ LoadTail \/ StoreTail
Next == (\E b \in Bytes : Irq(b)) \/ ReadKey
Spec == Init /\ [][Next]_vars
-----------------------------------------------------------------------------
TypeOK ==
  /\ buffer \in [0..Size-1 -> 0..MaxTyped]
  /\ head \in 0..Size-1 /\ tail \in 0..Size-1 /\ idx \in 0..Size-1
  /\ shift \in BOOLEAN /\ ctrl \in BOOLEAN /\ extended \in BOOLEAN
  /\ pc \in {"out", "index", "event", "tail", "store"}
  /\ ev \in 0..MaxTyped
  /\ last \in 0..MaxTyped /\ typed \in 0..MaxTyped
  /\ overrun \in BOOLEAN /\ overwritten \in BOOLEAN

(* The numbers of the events from tail up to head.                         *)
Waiting == {buffer[(tail + i) % Size] : i \in 0..((head - tail) % Size) - 1}

(* Keys come back in the order they were typed and none comes back twice,  *)
(* although the reader takes no lock against the handler, until a push     *)
(* hits the very place the reader has loaded the index of and not yet the  *)
(* event: with the ring full, the second push does that which hits between *)
(* the two loads.  Whatever else interrupts the reader leaves the order.   *)
InOrder == [][pc = "store" /\ pc' = "out" /\ ~overwritten => ev > last]_vars

(* Between reads, every event is waiting that was typed since the last one *)
(* returned, unless more were unread than the ring holds.                  *)
NothingLostUnlessFull == pc = "out" /\ ~overrun => Waiting = last+1..typed
=============================================================================
