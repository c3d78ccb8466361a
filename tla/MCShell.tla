------------------------------ MODULE MCShell -------------------------------
(***************************************************************************)
(* Scripts as the programs they are meant to be, what those mean by the    *)
(* shell's help, and a volume with some of them.                           *)
(***************************************************************************)
EXTENDS Shell, TLC

Do(line) == [kind |-> "do", line |-> line]
Cond(test, body) == [kind |-> "if", test |-> test, body |-> body]
Loop(x, items, body) == [kind |-> "for", var |-> x, items |-> items, body |-> body]

(* Every kind of block in every other, after and before plain lines.       *)
Nest ==
  <<Cond(<<"[", "-f", "A", "]">>,
      <<Cond(<<"[", "-d", "D", "]">>, <<Do(<<"rmdir", "D">>)>>),
        Do(<<"touch", "B">>)>>),
    Do(<<"#", "if">>), Do(<<>>),
    Loop("x", <<"sudo", "pwd">>,
      <<Loop("y", <<"c", "d">>, <<Do(<<"whoami">>), Cond(<<"[", "a", "!=", "b", "]">>, <<Do(<<"$y">>)>>)>>),
        Do(<<"$x">>)>>),
    Do(<<"mkdir", "E">>), Do(<<"rmdir", "E">>)>>
Once ==
  <<Do(<<"x=v">>),
    Loop("y", <<"A">>, <<Do(<<"mv", "$y", "D">>), Do(<<"useradd", "$x">>), Do(<<"su", "$x">>)>>),
    Cond(<<"[", "a", "=", "b", "]">>, <<Do(<<"ls">>)>>),
    Do(<<"echo", "$x", "$y", "$z">>)>>
(* In short the script that the kernel writes to the volume at boot.       *)
Demo ==
  <<Do(<<"x=v">>), Do(<<"mkdir", "E">>), Do(<<"cd", "E">>), Do(<<"touch", "A">>),
    Cond(<<"[", "-f", "A", "]">>, <<Do(<<"echo", "A">>)>>),
    Loop("y", <<"c", "d">>, <<Do(<<"echo", "$y">>)>>),
    Do(<<"cd", "..">>), Do(<<"users">>)>>
Caller == <<Do(<<"sh", "ONCE">>), Do(<<"cat", "A">>), Do(<<"cp", "A", "B">>)>>
Programs == {Nest, Once, Demo, Caller}

(* The blocks that are not closed, and tests that are none.                *)
Broken ==
  <<<<"if", "[", "-z", "A", "]", "then">>, <<"fi">>, <<"if", "[", "-n", "A", "]", "then">>,
    <<"if", "A", "then">>, <<"fi">>, <<"fi">>,
    <<"for", "x", "in", "c", "do">>, <<"if", "[", "-f", "A", "]", "then">>, <<"done">>,
    <<"for", "y", "in", "d", "do">>, <<"pwd">>>>

RECURSIVE Text(_), Means(_, _), Repeat(_, _, _, _), Simple(_, _)

(* The lines of a program.                                                 *)
TextOf(s) ==
  CASE s.kind = "do" -> <<s.line>>
    [] s.kind = "if" -> <<<<"if">> \o s.test \o <<"then">>>> \o Text(s.body) \o <<<<"fi">>>>
    [] s.kind = "for" ->
         <<<<"for", s.var, "in">> \o s.items \o <<"do">>>> \o Text(s.body) \o <<<<"done">>>>
Text(p) == IF p = <<>> THEN <<>> ELSE TextOf(Head(p)) \o Text(Tail(p))
ProgramOf(ls) == CHOOSE p \in Programs : Text(p) = ls

(* What a program makes of the world w; "$VAR expansion in any argument".  *)
MeansOf(s, w) ==
  CASE s.kind = "do" ->
         IF s.line # <<>> /\ s.line[1] = "#" THEN w
         ELSE IF s.line # <<>> /\ StartsScript(s.line, w) THEN Means(ProgramOf(FileOf(s.line, w)), w)
         ELSE Executed(s.line, w)
    [] s.kind = "if" -> IF EvalTest(Expanded(s.test, w), w) THEN Means(s.body, w) ELSE w
    [] s.kind = "for" -> Repeat(s.var, Expanded(s.items, w), s.body, w)
Means(p, w) == IF p = <<>> THEN w ELSE Means(Tail(p), MeansOf(Head(p), w))
Repeat(x, items, body, w) ==
  IF items = <<>> THEN w ELSE Repeat(x, Tail(items), body, Means(body, VarSet(w, x, Head(items))))

(* The programs the shell gets right: what is executed more than once is a *)
(* word, and no test or item is a variable; and none runs another.         *)
SimpleOne(s, once) ==
  CASE s.kind = "do" -> (once \/ Len(s.line) <= 1) /\ (s.line # <<>> => s.line[1] # "sh")
    [] s.kind = "if" -> ToSet(s.test) \cap DOMAIN Ref = {} /\ Simple(s.body, once)
    [] s.kind = "for" -> ToSet(s.items) \cap DOMAIN Ref = {} /\ Simple(s.body, once /\ Len(s.items) <= 1)
Simple(p, once) == \A i \in 1..Len(p) : SimpleOne(p[i], once)

(* A script has the meaning of the program it is the text of: blocks end   *)
(* at their own closing words, in whatever blocks they stand, every item   *)
(* has its turn, and a line sees what those before it have done.           *)
Ran(p) ==
  /\ stack = <<>> /\ entered # <<>>
  /\ StartsScript(Last(entered), before) /\ FileOf(Last(entered), before) = Text(p)
ScriptsAsWritten == \A p \in Programs : Ran(p) /\ Simple(p, TRUE) => world = Means(p, before)

(* shell.c's help: "for VAR in a b c do ... done", of one command per      *)
(* line.  Every script means what the help says.                           *)
LoopsAsHelped == \A p \in Programs : Ran(p) => world = Means(p, before)

MCStrings == STRING
MCLines ==
  {<<"sh", "NEST">>, <<"sh", "ONCE">>, <<"sh", "DEMO">>, <<"sh", "CALL">>, <<"sh", "BROKEN">>, <<"sh", "LONG">>,
   <<"cat", "A">>, <<"mv", "A", "A">>, <<"cd", "D">>, <<"rm", "C">>, <<"history">>, <<"x=v">>}
MCDemo == {<<"sh", "DEMO">>}
MCRef == ("$x" :> "x") @@ ("$y" :> "y") @@ ("$z" :> "z")
MCAssigns == ("x=v" :> [name |-> "x", value |-> "v"])
MCFs ==
  (<<>> :> Dir) @@ (<<"A">> :> File(<<<<"text">>>>)) @@ (<<"D">> :> Dir) @@ (<<"D", "C">> :> File(<<>>))
  @@ (<<"NEST">> :> File(Text(Nest))) @@ (<<"ONCE">> :> File(Text(Once)))
  @@ (<<"DEMO">> :> File(Text(Demo))) @@ (<<"CALL">> :> File(Text(Caller)))
  @@ (<<"BROKEN">> :> File(Broken)) @@ (<<"LONG">> :> File(Text(Nest \o Once)))
=============================================================================
