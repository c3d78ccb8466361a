------------------------------- MODULE Editor -------------------------------
(***************************************************************************)
(* The text editor, kernel/shell/editor.c, on one file: opening it, every  *)
(* key, saving with F2 and saving and running with Ctrl+R.  A line is what *)
(* the code reads as a C string; rows and columns count from 0.  render,   *)
(* which follows every key, is part of the key's action as far as it moves *)
(* the part of the text that is shown.                                     *)
(*                                                                         *)
(* fat32_write_file may fail; on a file that exists it then loses it, as   *)
(* in the module Fat32.  kmalloc panics before it returns NULL.            *)
(***************************************************************************)
EXTENDS Integers, Sequences, SequencesExt

CONSTANTS
  MaxLines, MaxLen,     \* EDITOR_MAX_LINES, EDITOR_MAX_LINE_LEN
  IoBuf,                \* EDITOR_IO_BUF_SIZE
  Rows,                 \* console_rows() - 1
  Letters,              \* the characters that are typed
  NL, NUL, Magic,       \* newline, the zero byte, "\177ELF"
  Files,                \* what the file may hold when the editor first runs
  Program,              \* the bytes elf64_load needs at the front of a file
  Missing, Lost,        \* no such file; one whose entry names freed clusters
  MaxSaves              \* bound of the model: calls of fat32_write_file

(* The characters of a file.                                               *)
Chars == Letters \cup {NL, NUL} \cup UNION {ToSet(f) : f \in Files \ {Missing}}

ASSUME EditorAssumption ==
  /\ {MaxLines, MaxLen, IoBuf, Rows} \subseteq Nat \ {0} /\ MaxSaves \in Nat
  /\ {NL, NUL, Magic} \cap Letters = {} /\ NL # NUL
  /\ Files \ {Missing} \subseteq Seq(Chars) /\ Missing \notin Seq(Chars)

VARIABLES
  disk,               \* the file's content
  open,               \* editor_run has been entered
  lines, row, col,    \* lines and num_lines, cursor_row, cursor_col
  scroll, modified,   \* scroll_row, modified
  status,             \* the status line
  forgotten,          \* Ctrl+R has cleared modified although its save failed
  saves

vars == <<disk, open, lines, row, col, scroll, modified, status, forgotten, saves>>

(* A line that the code goes on treating as a C string.                    *)
CString(line) ==
  IF NUL \in ToSet(line) THEN SubSeq(line, 1, SelectInSeq(line, LAMBDA c : c = NUL) - 1) ELSE line

(* editor_load: one character c of the file, with the lines so far.  On    *)
(* the last line a newline starts the same line again, and once that is    *)
(* full the rest of the file is left out.                                  *)
LineFullEarly(line) == Len(line) >= MaxLen - 2   \* mutant
LineFull(line) == Len(line) >= MaxLen - 1
LoadChar(ls, c) ==
  LET full == LineFull(Last(ls))
  IN  CASE Len(ls) = MaxLines /\ full -> ls
        [] c = NL /\ Len(ls) < MaxLines -> Append(ls, <<>>)
        [] c = NL /\ Len(ls) = MaxLines /\ ~full -> [ls EXCEPT ![MaxLines] = <<>>]
        [] c # NL /\ ~full -> [ls EXCEPT ![Len(ls)] = Append(@, c)]
        [] OTHER -> ls
Load(file) ==
  IF file = Missing THEN << <<>> >>
  ELSE LET read == SubSeq(file, 1, IF Len(file) < IoBuf - 1 THEN Len(file) ELSE IoBuf - 1)
           ls == FoldLeft(LoadChar, << <<>> >>, read)
       IN  [i \in 1..Len(ls) |-> CString(ls[i])]

(* editor_save: every line with a newline, up to the first that the buffer *)
(* has no room for.                                                        *)
SaveLine(acc, line) ==
  IF acc.full \/ Len(acc.out) + Len(line) + 1 >= IoBuf THEN [acc EXCEPT !.full = TRUE]
  ELSE [acc EXCEPT !.out = @ \o line \o <<NL>>]
Saved(ls) == FoldLeft(SaveLine, [out |-> <<>>, full |-> FALSE], ls).out

Init ==
  /\ disk \in Files
  /\ open = FALSE /\ lines = << <<>> >> /\ row = 0 /\ col = 0 /\ scroll = 0
  /\ modified = FALSE /\ status = "" /\ forgotten = FALSE /\ saves = 0
-----------------------------------------------------------------------------
Line == lines[row + 1]

(* render: the row of the cursor is brought onto the screen.               *)
Render ==
  scroll' = CASE row' < scroll -> row'
              [] row' >= scroll + Rows -> row' - Rows + 1
              [] OTHER -> scroll

(* A key handled by the loop of editor_run.                                *)
Edited(ls, r, c) ==
  /\ open
  /\ lines' = ls /\ row' = r /\ col' = c /\ modified' = TRUE
  /\ Render /\ status' = ""
  /\ UNCHANGED <<disk, open, forgotten, saves>>
Moved(r, c) ==
  /\ open
  /\ row' = r /\ col' = c
  /\ Render /\ status' = ""
  /\ UNCHANGED <<disk, open, lines, modified, forgotten, saves>>

MinOf(a, b) == IF a < b THEN a ELSE b
Up == row > 0 /\ Moved(row - 1, MinOf(col, Len(lines[row])))
Down == row < Len(lines) - 1 /\ Moved(row + 1, MinOf(col, Len(lines[row + 2])))
Left ==
  \/ col > 0 /\ Moved(row, col - 1)
  \/ col = 0 /\ row > 0 /\ Moved(row - 1, Len(lines[row]))
Right ==
  \/ col < Len(Line) /\ Moved(row, col + 1)
  \/ col = Len(Line) /\ row < Len(lines) - 1 /\ Moved(row + 1, 0)
Home == Moved(row, 0)
EndKey == Moved(row, Len(Line))

InsertChar(c) ==
  /\ Len(Line) + 1 < MaxLen
  /\ Edited([lines EXCEPT ![row + 1] = InsertAt(Line, col + 1, c)], row, col + 1)

(* Line i + 1 is appended to line i, and those behind it move up.          *)
JoinedInPlace(i) == [RemoveAt(lines, i) EXCEPT ![i] = lines[i + 1] \o lines[i]]   \* mutant
Joined(i) == [RemoveAt(lines, i) EXCEPT ![i] = lines[i] \o lines[i + 1]]
Joinable(i) == Len(lines[i]) + Len(lines[i + 1]) < MaxLen

Backspace ==
  \/ col > 0 /\ Edited([lines EXCEPT ![row + 1] = RemoveAt(Line, col)], row, col - 1)
  \/ /\ col = 0 /\ row > 0 /\ Joinable(row)
     /\ Edited(Joined(row), row - 1, Len(lines[row]))
DeleteForward ==
  \/ col < Len(Line) /\ Edited([lines EXCEPT ![row + 1] = RemoveAt(Line, col + 1)], row, col)
  \/ /\ col = Len(Line) /\ row < Len(lines) - 1 /\ Joinable(row + 1)
     /\ Edited(Joined(row + 1), row, col)

(* The line is cut at the cursor and those behind it move down.            *)
NewlineUnbounded ==   \* mutant
  Edited(InsertAt([lines EXCEPT ![row + 1] = SubSeq(Line, 1, col)], row + 2,
                  SubSeq(Line, col + 1, Len(Line))), row + 1, 0)
InsertNewline ==
  /\ Len(lines) < MaxLines
  /\ Edited(InsertAt([lines EXCEPT ![row + 1] = SubSeq(Line, 1, col)], row + 2,
                     SubSeq(Line, col + 1, Len(Line))), row + 1, 0)

Typing == InsertNewline \/ \E c \in Letters : InsertChar(c)
Keys == Up \/ Down \/ Left \/ Right \/ Home \/ EndKey
        \/ Typing \/ Backspace \/ DeleteForward
-----------------------------------------------------------------------------
(* editor_save's fat32_write_file.                                         *)
Write(ok) ==
  /\ saves < MaxSaves
  /\ saves' = saves + 1
  /\ disk' = CASE ok -> Saved(lines)
               [] ~ok /\ disk = Missing -> Missing
               [] OTHER -> Lost

F2Trusting(ok) ==   \* mutant
  /\ open /\ Write(ok)
  /\ status' = IF ok THEN "saved" ELSE "SAVE FAILED"
  /\ modified' = FALSE
  /\ forgotten' = (forgotten /\ ~ok)
  /\ UNCHANGED <<open, lines, row, col, scroll>>
F2(ok) ==
  /\ open /\ Write(ok)
  /\ status' = IF ok THEN "saved" ELSE "SAVE FAILED"
  /\ modified' = (modified /\ ~ok)
  /\ forgotten' = (forgotten /\ ~ok)
  /\ UNCHANGED <<open, lines, row, col, scroll>>
(* editor_try_run on the file as it now is.  What a lost file reads as is  *)
(* anybody's guess.                                                        *)
RunStatus(file) ==
  CASE file = Missing -> {"could not read file"}
    [] file = Lost -> {"not an ELF64 binary", "load failed", "exited"}
    [] IsPrefix(Program, file) -> {"exited"}
    [] file # <<>> /\ Head(file) = Magic /\ ~IsPrefix(Program, file) -> {"load failed"}
    [] OTHER -> {"not an ELF64 binary"}
CtrlR(ok) ==
  /\ open /\ Write(ok)
  /\ modified' = FALSE
  /\ forgotten' = ~ok
  /\ status' \in RunStatus(disk')
  /\ UNCHANGED <<open, lines, row, col, scroll>>

(* nano: editor_run, up to its first render.                               *)
Open ==
  /\ ~open /\ disk # Lost
  /\ open' = TRUE
  /\ lines' = Load(disk)
  /\ row' = 0 /\ col' = 0 /\ scroll' = 0
  /\ modified' = FALSE /\ status' = "" /\ forgotten' = FALSE
  /\ UNCHANGED <<disk, saves>>

(* Esc leaves without asking, and the buffer is freed.                     *)
Esc ==
  /\ open
  /\ open' = FALSE
  /\ lines' = << <<>> >> /\ row' = 0 /\ col' = 0 /\ scroll' = 0
  /\ modified' = FALSE /\ status' = "" /\ forgotten' = FALSE
  /\ UNCHANGED <<disk, saves>>

Next == Keys \/ (\E ok \in BOOLEAN : F2(ok) \/ CtrlR(ok)) \/ Open \/ Esc
Spec == Init /\ [][Next]_vars
-----------------------------------------------------------------------------
(* Lines keep their limits, the cursor is in the text, and its line is on  *)
(* the screen.                                                             *)
TypeOK ==
  /\ Len(lines) \in 1..MaxLines
  /\ \A i \in 1..Len(lines) : ToSet(lines[i]) \cap {NL, NUL} = {} /\ Len(lines[i]) < MaxLen
  /\ row \in 0..Len(lines) - 1 /\ col \in 0..Len(Line)
  /\ scroll <= row /\ row < scroll + Rows
  /\ open \in BOOLEAN /\ modified \in BOOLEAN /\ forgotten \in BOOLEAN

(* While the status line does not say "modified" the file is the one the   *)
(* lines were read from, or what a save makes of the lines: all of them,   *)
(* if the buffer holds them (SavedIsReadBack).  Excepted are a file that a *)
(* failed save has lost, and a file that was missing and still is: Ctrl+R  *)
(* clears the flag although its save failed.                               *)
UnmodifiedIsSaved ==
  open /\ ~modified /\ disk # Lost =>
    lines = Load(disk) \/ disk = Saved(lines) \/ (forgotten /\ disk = Missing)

(* Opening a file that the editor has saved shows the lines that the save  *)
(* buffer held, and one more empty line.  At the limit of lines there is   *)
(* no room for that one: the last line is lost, unless it is full.         *)
Fits(k) == Len(FlattenSeq(SubSeq(lines, 1, k))) + k < IoBuf
ReadBack(kept) ==
  CASE Len(kept) < MaxLines -> Append(kept, <<>>)
    [] Len(kept) = MaxLines /\ Len(Last(kept)) = MaxLen - 1 -> kept
    [] OTHER -> [kept EXCEPT ![MaxLines] = <<>>]
SavedIsReadBack ==
  \A k \in 0..Len(lines) :
    Fits(k) /\ (k < Len(lines) => ~Fits(k + 1))
      => Load(Saved(lines)) = ReadBack(SubSeq(lines, 1, k))

(* The lines and the cursor implement a text edited at one place.          *)
Flat == Tail(FlattenSeq([i \in 1..Len(lines) |-> <<NL>> \o lines[i]]))
Before == Len(FlattenSeq(SubSeq(lines, 1, row))) + row + col
Text == INSTANCE TextBuffer WITH
          text <- Flat, pos <- Before, file <- disk, Limit <- IoBuf
ImplementsTextBuffer ==
  [][open /\ open' => \/ disk' \in {disk, Lost} /\ UNCHANGED <<Flat, Before>>
                      \/ Text!Key
                      \/ Text!Save]_vars

(* editor.h: Ctrl+R saves and runs "only if the file already is a valid    *)
(* ELF64".  Opened and run without an edit, a valid program runs.          *)
ProgramsRun ==
  [][/\ disk \notin {Missing, Lost} /\ IsPrefix(Program, disk)
     /\ lines = Load(disk) /\ CtrlR(TRUE)
     => status' = "exited"]_vars
=============================================================================
