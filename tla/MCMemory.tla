------------------------------ MODULE MCMemory ------------------------------
(* A small machine for Memory.  Frames have two bytes.                     *)
EXTENDS Memory

(* Sixteen frames: regions that start and end inside a frame, a kernel and *)
(* a module that do too; and a second machine whose memory is one piece.   *)
Bytes(a, b) == [start |-> a, end |-> b]
MCMaps ==
  {[avail |-> {Bytes(0, 9), Bytes(11, 30)},
    reserved |-> {Bytes(3, 5), Bytes(12, 13), Bytes(7, 7)}],
   [avail |-> {Bytes(1, 26)}, reserved |-> {Bytes(2, 5)}]}

MCStack == <<"s1", "s2">>
MCPage == {"p1", "p2", "s1", "s2", "low", "b1", "b2", "b3", "h1", "h2"}
MCTable == {"userPd", "userPt", "kernelPd", "heapPt", "binPt"}
MCPath ==
  [p \in MCPage |->
     CASE p \in {"p1", "p2", "s1", "s2"} -> <<"userPd", "userPt">>
       [] p \in {"b1", "b2", "b3"}       -> <<"kernelPd", "binPt">>
       [] p \in {"h1", "h2"}             -> <<"kernelPd", "heapPt">>
       [] OTHER                          -> << >>]
MCBinPages == <<"b1", "b2", "b3">>
MCHeapPages == <<"h1", "h2">>

(* Programs of one and of two pages, one with a second segment that is     *)
(* rejected, one whose segments share a page, one in the low memory.       *)
MCFiles == {<<"p1">>, <<"p1", "p2">>, <<"p2", "bad">>, <<"p1", "p1">>,
            <<"low">>, <<"bad">>}
=============================================================================
