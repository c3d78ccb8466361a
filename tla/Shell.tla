------------------------------- MODULE Shell --------------------------------
(***************************************************************************)
(* The shell, kernel/shell/shell.c: the prompt with its history, variables *)
(* and their expansion, the commands for files, directories and users, and *)
(* scripts with if and for, run by exec_block line by line.                *)
(*                                                                         *)
(* A line is the sequence of its words, what tokenize makes of it.  Of the *)
(* words, Ref gives the variable of those that begin with "$" and Assigns  *)
(* the name and value of those of the form name=value (a value here is one *)
(* word).  The world is what a line may change; world.out is what has been *)
(* printed since the line was entered, a failing command's message being   *)
(* its name and "failed".  The volume neither fills up nor fails, which is *)
(* the module Fat32's business, and the commands that other modules model  *)
(* (nano, run, spawn, sched, dlw) are left out.                            *)
(***************************************************************************)
EXTENDS Integers, Sequences, SequencesExt, FiniteSets, FiniteSetsExt

CONSTANTS
  Strings,             \* all words there are
  Lines,               \* the lines that are typed, with their beginnings
  Ref, Assigns,
  BadNames,            \* words that fat32_name_to_83 rejects
  Fs0,                 \* the volume at first: entries by path
  MaxLine,             \* MAX_LINE, in words
  HistSize, MaxVars,   \* HISTORY_SIZE, MAX_VARS
  MaxDepth, MaxUsers,  \* MAX_PATH_DEPTH, MAX_USERS
  MaxScript,           \* MAX_SCRIPT_LINES
  MaxEntered           \* bound of the model: lines entered

(* A tree of directories and of files that are lines of words.             *)
IsTree(fs) ==
  /\ \A p \in DOMAIN fs : p \in Seq(Strings) /\ fs[p] \in [dir : BOOLEAN, lines : Seq(Seq(Strings))]
  /\ \A p \in DOMAIN fs \ {<<>>} : Front(p) \in DOMAIN fs /\ fs[Front(p)].dir

ASSUME ShellAssumption ==
  /\ {MaxLine, HistSize, MaxVars, MaxDepth, MaxUsers, MaxScript, MaxEntered} \subseteq Nat \ {0}
  /\ {"", ".."} \subseteq BadNames
  /\ "" \in Strings /\ Lines \subseteq Seq(Strings)
  /\ \A word \in DOMAIN Assigns : Assigns[word] \in [name : Strings, value : Strings]
  /\ IsTree(Fs0) /\ <<>> \in DOMAIN Fs0 /\ Fs0[<<>>].dir

VARIABLES
  buf, browse,             \* read_line: the text, and which entry is shown
  history, count, next,    \* g_history, g_history_count, g_history_next
  world,
  table,                   \* script_lines
  stack,                   \* exec_block's activations, the innermost last
  entered, before          \* lines entered so far, the world before the last

prompt == <<buf, browse>>
hist == <<history, count, next>>
vars == <<prompt, hist, world, table, stack, entered, before>>

Dir == [dir |-> TRUE, lines |-> <<>>]
File(ls) == [dir |-> FALSE, lines |-> ls]

Init ==
  /\ buf = <<>> /\ browse = -1
  /\ history = [i \in 0..HistSize - 1 |-> <<>>] /\ count = 0 /\ next = 0
  /\ world = [cwd |-> <<>>, path |-> <<>>, fs |-> Fs0, vars |-> <<>>,
              users |-> <<>>, user |-> "guest", root |-> FALSE, out |-> <<>>]
  /\ table = <<>> /\ stack = <<>>
  /\ entered = <<>> /\ before = world
-----------------------------------------------------------------------------
(* history_add; the k-th line before the last as Up, Down and history look *)
(* it up.                                                                  *)
RecallNewest(k) == history[(next - k) % HistSize]   \* mutant
Recall(k) == history[(next - 1 - k) % HistSize]
Listed == [i \in 1..count |-> Recall(count - i)]
HistoryAdd(line) ==
  IF line = <<>> THEN UNCHANGED hist
  ELSE /\ history' = [history EXCEPT ![next] = line]
       /\ next' = (next + 1) % HistSize
       /\ count' = IF count < HistSize THEN count + 1 ELSE count

(* The commands, on a world w and the words behind the command's name.     *)
Say(w, words) == [w EXCEPT !.out = Append(@, words)]
Fail(w, c) == Say(w, <<c, "failed">>)
At(w, n) == Append(w.cwd, n)
Has(w, n) == n \notin BadNames /\ At(w, n) \in DOMAIN w.fs
HasDir(w, n) == Has(w, n) /\ w.fs[At(w, n)].dir
HasFile(w, n) == Has(w, n) /\ ~w.fs[At(w, n)].dir
With(f, x, v) == [y \in DOMAIN f \cup {x} |-> IF y = x THEN v ELSE f[y]]
Without(f, x) == [y \in DOMAIN f \ {x} |-> f[y]]
Put(w, n, entry) == [w EXCEPT !.fs = With(@, At(w, n), entry)]
Erase(w, n) == [w EXCEPT !.fs = Without(@, At(w, n))]
Children(w, path) == {p \in DOMAIN w.fs : p # <<>> /\ Front(p) = path}

(* cd: ".." is looked up in the directory under a name that                *)
(* fat32_name_to_83 has refused to make, and is never found.  The path     *)
(* shown stops growing at MaxDepth.                                        *)
PathPush(w, n) == IF Len(w.path) < MaxDepth THEN Append(w.path, n) ELSE w.path
Cd(a, w) ==
  IF HasDir(w, a[1]) THEN [[w EXCEPT !.cwd = At(w, a[1])] EXCEPT !.path = PathPush(w, a[1])]
  ELSE Fail(w, "cd")
MkDir(a, w) ==
  IF a[1] \in BadNames \/ Has(w, a[1]) THEN Fail(w, "mkdir") ELSE Put(w, a[1], Dir)
RmDirFull(a, w) ==   \* mutant
  IF HasDir(w, a[1]) THEN Erase(w, a[1]) ELSE Fail(w, "rmdir")
RmDir(a, w) ==
  IF HasDir(w, a[1]) /\ Children(w, At(w, a[1])) = {} THEN Erase(w, a[1]) ELSE Fail(w, "rmdir")
Touch(a, w) ==
  CASE a[1] \in BadNames -> Fail(w, "touch")
    [] Has(w, a[1]) -> w
    [] OTHER -> Put(w, a[1], File(<<>>))
Rm(a, w) == IF HasFile(w, a[1]) THEN Erase(w, a[1]) ELSE Fail(w, "rm")
Cp(a, w) ==
  IF HasFile(w, a[1]) /\ a[2] \notin BadNames /\ ~HasDir(w, a[2])
  THEN Put(w, a[2], w.fs[At(w, a[1])])
  ELSE Fail(w, "cp")
(* The copy first and then the removal, of the same file if both are one.  *)
Mv(a, w) ==
  IF HasFile(w, a[1]) /\ a[2] \notin BadNames /\ ~HasDir(w, a[2])
  THEN Erase(Put(w, a[2], w.fs[At(w, a[1])]), a[1])
  ELSE Fail(w, "mv")
Cat(a, w) ==
  IF HasFile(w, a[1]) THEN [w EXCEPT !.out = @ \o w.fs[At(w, a[1])].lines] ELSE Fail(w, "cat")
UserAdd(a, w) ==
  IF w.root /\ Len(w.users) < MaxUsers /\ a[1] \notin ToSet(w.users)
  THEN Say([w EXCEPT !.users = Append(@, a[1])], <<"added", a[1]>>)
  ELSE Fail(w, "useradd")
Su(a, w) ==
  IF a[1] \in {"guest"} \cup ToSet(w.users) THEN [w EXCEPT !.user = a[1]] ELSE Fail(w, "su")

Needs(c) ==   \* arguments, without which the command prints its usage
  CASE c \in {"cp", "mv"} -> 2
    [] c \in {"cd", "mkdir", "rmdir", "touch", "rm", "cat", "useradd", "su", "sh"} -> 1
    [] OTHER -> 0
Effect(words, w) ==
  LET c == Head(words)
      a == Tail(words)
  IN  IF Len(a) < Needs(c) THEN Fail(w, c) ELSE
      CASE c = "echo" -> Say(w, a)
        [] c = "pwd" -> Say(w, w.path)
        [] c = "ls" -> Say(w, SetToSeq({Last(p) : p \in Children(w, w.cwd)}))
        [] c = "cd" -> Cd(a, w)
        [] c = "mkdir" -> MkDir(a, w)
        [] c = "rmdir" -> RmDir(a, w)
        [] c = "touch" -> Touch(a, w)
        [] c = "rm" -> Rm(a, w)
        [] c = "cp" -> Cp(a, w)
        [] c = "mv" -> Mv(a, w)
        [] c = "cat" -> Cat(a, w)
        [] c = "history" -> [w EXCEPT !.out = @ \o Listed]
        [] c = "whoami" -> Say(w, <<w.user>>)
        [] c = "users" -> [w EXCEPT !.out = @ \o <<<<"guest">>>> \o [i \in 1..Len(w.users) |-> <<w.users[i]>>]]
        [] c = "useradd" -> UserAdd(a, w)
        [] c = "su" -> Su(a, w)
        [] c = "sudo" -> [w EXCEPT !.root = ~@]
        [] OTHER -> Fail(w, c)   \* not found, and sh without its script

(* execute_line, but for a script it starts.                               *)
VarGet(w, x) == IF x \in DOMAIN w.vars THEN w.vars[x] ELSE ""
VarSet(w, x, v) ==
  IF x \in DOMAIN w.vars \/ Cardinality(DOMAIN w.vars) < MaxVars
  THEN [w EXCEPT !.vars = With(@, x, v)]
  ELSE w
Expanded(line, w) ==
  [i \in 1..Len(line) |-> IF line[i] \in DOMAIN Ref THEN VarGet(w, Ref[line[i]]) ELSE line[i]]
IsAssignment(line) == line # <<>> /\ line[1] \in DOMAIN Assigns
Executed(line, w) ==
  CASE line = <<>> -> w
    [] IsAssignment(line) -> VarSet(w, Assigns[line[1]].name, Assigns[line[1]].value)
    [] OTHER -> Effect(Expanded(line, w), w)

(* What the line is afterwards: both parsers end its first word with a     *)
(* zero byte, in place.                                                    *)
CutLine(line) == IF IsAssignment(line) THEN <<Assigns[line[1]].name>> ELSE <<line[1]>>

(* cmd_sh reads the script into the one table there is, over the lines of  *)
(* a script that runs it.  (Their text, freed by then, is taken to stay:   *)
(* kfree does not write into it.)                                          *)
StartsScript(line, w) ==
  LET words == Expanded(line, w)
  IN  ~IsAssignment(line) /\ Len(words) >= 2 /\ words[1] = "sh" /\ HasFile(w, words[2])
FileOf(line, w) == w.fs[At(w, Expanded(line, w)[2])].lines
ScriptOf(line, w) == SubSeq(FileOf(line, w), 1, Min({Len(FileOf(line, w)), MaxScript}))
Reads(line, w) == IF Len(FileOf(line, w)) > MaxScript THEN Fail(w, "sh") ELSE w
Read(ls) == ls \o SubSeq(table, Len(ls) + 1, Len(table))
Block(from, to) ==   \* lines from..to - 1; loop is where a for ends, or 0
  [at |-> from, end |-> to, loop |-> 0, var |-> "", items |-> <<>>]
-----------------------------------------------------------------------------
(* The prompt.  Typing and rubbing out leave the history's lines.          *)
AtPrompt == stack = <<>> /\ Len(entered) < MaxEntered
Type(word) ==
  /\ AtPrompt
  /\ Len(buf) < MaxLine /\ \E line \in Lines : IsPrefix(Append(buf, word), line)
  /\ buf' = Append(buf, word) /\ browse' = -1
  /\ UNCHANGED <<hist, world, table, stack, entered, before>>
RubOut ==
  /\ AtPrompt
  /\ buf' = IF buf = <<>> THEN <<>> ELSE Front(buf)
  /\ browse' = -1
  /\ UNCHANGED <<hist, world, table, stack, entered, before>>
KeyUp ==
  /\ AtPrompt /\ browse + 1 < count
  /\ browse' = browse + 1 /\ buf' = Recall(browse + 1)
  /\ UNCHANGED <<hist, world, table, stack, entered, before>>
KeyDown ==
  /\ AtPrompt /\ browse >= 0
  /\ browse' = browse - 1
  /\ buf' = IF browse = 0 THEN <<>> ELSE Recall(browse - 1)
  /\ UNCHANGED <<hist, world, table, stack, entered, before>>

(* shell_run's loop: the line goes to the history before it is executed,   *)
(* and cut.                                                                *)
Enter ==
  LET w == [world EXCEPT !.out = <<>>]
  IN  /\ AtPrompt
      /\ HistoryAdd(buf)
      /\ IF StartsScript(buf, w)
         THEN /\ table' = Read(ScriptOf(buf, w)) /\ world' = Reads(buf, w)
              /\ stack' = <<Block(1, Len(ScriptOf(buf, w)) + 1)>>
         ELSE world' = Executed(buf, w) /\ UNCHANGED <<table, stack>>
      /\ entered' = Append(entered, buf) /\ before' = w
      /\ buf' = <<>> /\ browse' = -1
-----------------------------------------------------------------------------
(* exec_block, of the innermost activation.                                *)
Top == Last(stack)
Line == table[Top.at]
Reading == stack # <<>> /\ Top.loop = 0 /\ Top.at < Top.end
Becomes(b) == stack' = [stack EXCEPT ![Len(stack)] = b]
BecomesWith(b, inner) == stack' = Front(stack) \o <<b, inner>>
Quiet == UNCHANGED <<prompt, hist, entered, before>>

(* find_matching, from the line behind the opening one; 0 if there is      *)
(* none.  Only words of the same kind nest.                                *)
Starts(i, word) == table[i] # <<>> /\ table[i][1] = word
MinOr0(S) == IF S = {} THEN 0 ELSE Min(S)
NearestClosing(open, close) ==   \* mutant
  MinOr0({i \in Top.at + 1..Top.end - 1 : Starts(i, close)})
FindMatching(open, close) ==
  LET Count(word, i) == Cardinality({j \in Top.at + 1..i : Starts(j, word)})
  IN  MinOr0({i \in Top.at + 1..Top.end - 1 :
                Starts(i, close) /\ Count(close, i) = Count(open, i) + 1})

(* eval_test, on words as they stand: nothing is expanded.                 *)
EvalTest(t, w) ==
  LET c == SubSeq(t, 2, Len(t) - 1)
      good == Len(t) >= 2 /\ t[1] = "[" /\ Last(t) = "]"
  IN  CASE good /\ Len(c) = 2 /\ c[1] = "-f" -> HasFile(w, c[2])
        [] good /\ Len(c) = 2 /\ c[1] = "-d" -> HasDir(w, c[2])
        [] good /\ Len(c) = 2 /\ c[1] = "-z" -> c[2] = ""
        [] good /\ Len(c) = 2 /\ c[1] = "-n" -> c[2] # ""
        [] good /\ Len(c) = 3 /\ c[2] = "=" -> c[1] = c[3]
        [] good /\ Len(c) = 3 /\ c[2] = "!=" -> c[1] # c[3]
        [] OTHER -> FALSE
TestFails(t) ==   \* prints a message
  ~ /\ Len(t) >= 2 /\ t[1] = "[" /\ Last(t) = "]"
    /\ \/ Len(t) = 4 /\ t[2] \in {"-f", "-d", "-z", "-n"}
       \/ Len(t) = 5 /\ t[3] \in {"=", "!="}

IsIf == Len(Line) >= 2 /\ Line[1] = "if" /\ Last(Line) = "then"
IsFor == Len(Line) >= 4 /\ Line[1] = "for" /\ Line[3] = "in" /\ Last(Line) = "do"
IsComment == Line # <<>> => Line[1] = "#"

Finish ==   \* the block's end, and with the script's its buffer is freed
  /\ stack # <<>> /\ Top.loop = 0 /\ Top.at >= Top.end
  /\ stack' = Front(stack)
  /\ UNCHANGED <<world, table>> /\ Quiet
SkipStays ==   \* mutant
  /\ Reading /\ IsComment
  /\ UNCHANGED <<world, table, stack>> /\ Quiet
Skip ==
  /\ Reading /\ IsComment
  /\ Becomes([Top EXCEPT !.at = @ + 1])
  /\ UNCHANGED <<world, table>> /\ Quiet
If ==
  LET fi == FindMatching("if", "fi")
      test == SubSeq(Line, 2, Len(Line) - 1)
      behind == [Top EXCEPT !.at = fi + 1]
  IN  /\ Reading /\ ~IsComment /\ IsIf /\ fi # 0
      /\ world' = IF TestFails(test) THEN Fail(world, "if") ELSE world
      /\ IF EvalTest(test, world) THEN BecomesWith(behind, Block(Top.at + 1, fi)) ELSE Becomes(behind)
      /\ UNCHANGED table /\ Quiet
For ==
  LET done == FindMatching("for", "done")
  IN  /\ Reading /\ ~IsComment /\ ~IsIf /\ IsFor /\ done # 0
      /\ Becomes([at |-> Top.at, end |-> Top.end, loop |-> done,
                   var |-> Line[2], items |-> SubSeq(Line, 4, Len(Line) - 1)])
      /\ UNCHANGED <<world, table>> /\ Quiet
NotClosed ==   \* the block is given up
  /\ Reading /\ ~IsComment
  /\ \/ IsIf /\ FindMatching("if", "fi") = 0
     \/ ~IsIf /\ IsFor /\ FindMatching("for", "done") = 0
  /\ world' = Fail(world, "sh")
  /\ stack' = Front(stack)
  /\ UNCHANGED table /\ Quiet
Iterate ==
  /\ stack # <<>> /\ Top.loop # 0 /\ Top.items # <<>>
  /\ world' = VarSet(world, Top.var, Head(Top.items))
  /\ BecomesWith([Top EXCEPT !.items = Tail(@)], Block(Top.at + 1, Top.loop))
  /\ UNCHANGED table /\ Quiet
LoopOver ==
  /\ stack # <<>> /\ Top.loop # 0 /\ Top.items = <<>>
  /\ Becomes(Block(Top.loop + 1, Top.end))
  /\ UNCHANGED <<world, table>> /\ Quiet

IsCommand == Reading /\ ~IsComment /\ ~IsIf /\ ~IsFor
Cut == [table EXCEPT ![Top.at] = CutLine(Line)]
Command ==
  /\ IsCommand /\ ~StartsScript(Line, world)
  /\ world' = Executed(Line, world)
  /\ table' = Cut
  /\ Becomes([Top EXCEPT !.at = @ + 1])
  /\ Quiet
RunScript ==
  LET ls == ScriptOf(Line, world)
  IN  /\ IsCommand /\ StartsScript(Line, world)
      /\ table' = ls \o SubSeq(Cut, Len(ls) + 1, Len(table))
      /\ BecomesWith([Top EXCEPT !.at = @ + 1], Block(1, Len(ls) + 1))
      /\ world' = Reads(Line, world) /\ Quiet

Exec == Finish \/ Skip \/ If \/ For \/ NotClosed \/ Iterate \/ LoopOver \/ Command \/ RunScript
Words == UNION {ToSet(line) : line \in Lines}
Next == (\E word \in Words : Type(word)) \/ RubOut \/ KeyUp \/ KeyDown \/ Enter \/ Exec

(* The shell goes on with a script; nobody need type.                      *)
Spec == Init /\ [][Next]_vars /\ WF_vars(Exec)
-----------------------------------------------------------------------------
(* The ring, the variables and the path keep their bounds, the activations *)
(* stay inside the table even where a script has replaced it under them,   *)
(* and the volume is a tree of directories the shell stands inside.        *)
TypeOK ==
  /\ Len(buf) <= MaxLine /\ browse \in -1..count - 1
  /\ count \in 0..HistSize /\ next \in 0..HistSize - 1 /\ DOMAIN history = 0..HistSize - 1
  /\ Cardinality(DOMAIN world.vars) <= MaxVars
  /\ Len(world.users) <= MaxUsers /\ IsPrefix(world.path, world.cwd)
  /\ Len(table) <= MaxScript
  /\ \A i \in 1..Len(stack) :
       /\ stack[i].at \in 1..stack[i].end /\ stack[i].end <= Len(table) + 1
       /\ stack[i].loop \in 0..stack[i].end - 1
  /\ IsTree(world.fs)
  /\ world.cwd \in DOMAIN world.fs /\ world.fs[world.cwd].dir

(* Up and history show the lines entered last, each whole, the latest      *)
(* first: whatever executing them has made of their text, and with empty   *)
(* lines left out.                                                         *)
AddSaid(lines, line) == IF line = <<>> THEN lines ELSE Append(lines, line)
Said(lines) == FoldLeft(AddSaid, <<>>, lines)
ShowsLast(said) ==
  /\ \A k \in 0..count - 1 : Recall(k) = said[Len(said) - k]
  /\ count = Min({Len(said), HistSize})
  /\ browse >= 0 => buf = said[Len(said) - browse]
HistoryShows == ShowsLast(Said(entered))

(* Every script comes to its end, also one that runs a script and goes on  *)
(* in that one's lines, as long as none runs itself.                       *)
ScriptsEnd == []<>(stack = <<>>)
=============================================================================
