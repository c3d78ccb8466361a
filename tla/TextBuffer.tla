----------------------------- MODULE TextBuffer -----------------------------
(***************************************************************************)
(* What an editor promises its user: a text with a cursor in it, keys that *)
(* change it at the cursor, and a file that has the text once it is saved. *)
(* A key may be refused; an edit never touches the text elsewhere.         *)
(***************************************************************************)
EXTENDS Naturals, Sequences, SequencesExt

CONSTANTS Letters, NL, Limit   \* a saved file is shorter than Limit

VARIABLES text, pos, file   \* pos letters are before the cursor

Edit(t, p) == text' = t /\ pos' = p /\ UNCHANGED file

Insert(c) == Edit(InsertAt(text, pos + 1, c), pos + 1)
Backspace == pos > 0 /\ Edit(RemoveAt(text, pos), pos - 1)
Delete == pos < Len(text) /\ Edit(RemoveAt(text, pos + 1), pos)
Move == pos' \in 0..Len(text) /\ UNCHANGED <<text, file>>
Key == (\E c \in Letters \cup {NL} : Insert(c)) \/ Backspace \/ Delete \/ Move

(* The text gets a newline at its end; what is too long is cut behind one. *)
Save ==
  LET all == Append(text, NL)
  IN  /\ IF Len(all) < Limit THEN file' = all
         ELSE /\ IsPrefix(file', all) /\ Len(file') < Limit
              /\ file' # <<>> => Last(file') = NL
      /\ UNCHANGED <<text, pos>>
=============================================================================
