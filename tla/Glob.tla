-------------------------------- MODULE Glob --------------------------------
(***************************************************************************)
(* Patterns of string comparisons in filters (glob.c): compiled to a list  *)
(* of stars, question marks and texts, simplified, and matched.            *)
(*                                                                         *)
(* A pattern is a sequence of characters; the backslash quotes the next    *)
(* one.  Characters are compared without their accents and case, but       *)
(* do_glob_match goes on in the text by the bytes of the pattern: "a'"     *)
(* is an "a" with an accent, which takes two bytes.                        *)
(***************************************************************************)
EXTENDS Integers, Sequences, SequencesExt

CONSTANTS
  Letters,      \* characters other than "*", "?" and the backslash
  MaxPattern,   \* longest pattern
  MaxText       \* longest text

VARIABLES pattern, text

gvars == <<pattern, text>>

Star == [type |-> "star"]
Qmark == [type |-> "qmark"]
Text(t) == [type |-> "text", text |-> t]

(* The character at i, quoted or not, and the place after it. *)
Quoted(p, i) == p[i] = "\\"
Char(p, i) == IF Quoted(p, i) /\ i < Len(p) THEN p[i + 1] ELSE p[i]
After(p, i) == IF Quoted(p, i) /\ i < Len(p) THEN i + 2 ELSE i + 1

AddChar(items, c) ==
  IF items # <<>> /\ Last(items).type = "text"
  THEN Append(Front(items), Text(Append(Last(items).text, c)))
  ELSE Append(items, Text(<<c>>))

RECURSIVE Compiled(_, _, _)
Compiled(p, i, items) ==
  IF i > Len(p) THEN items
  ELSE CASE p[i] = "*" -> Compiled(p, i + 1, Append(items, Star))
         [] p[i] = "?" -> Compiled(p, i + 1, Append(items, Qmark))
         [] OTHER -> Compiled(p, After(p, i), AddChar(items, Char(p, i)))

(* simplify, a run between two texts at a time: question marks go first,   *)
(* and of the stars one is left.                                           *)
SimplifyRun(run) ==
  LET marks == SelectSeq(run, LAMBDA g : g.type = "qmark")
  IN IF Len(marks) = Len(run) THEN run ELSE Append(marks, Star)

Fault_StarsOnly(items) ==
  FoldLeft(LAMBDA out, g : IF out # <<>> /\ Last(out) = Star /\ g = Star THEN out ELSE Append(out, g),
           <<>>, items)
simplify(items) ==
  LET step(acc, g) == IF g.type = "text"
                      THEN [out |-> acc.out \o SimplifyRun(acc.run) \o <<g>>, run |-> <<>>]
                      ELSE [acc EXCEPT !.run = Append(@, g)]
      done == FoldLeft(step, [out |-> <<>>, run |-> <<>>], items)
  IN done.out \o SimplifyRun(done.run)

glob_compile(p) == simplify(Compiled(p, 1, <<>>))

(* UTF-8: the place of a character is that of its first byte; the second   *)
(* one, on its own, is a character that is like no other.                  *)
Size(c) == IF c = "a'" THEN 2 ELSE 1
Base(c) == IF c = "a'" THEN "a" ELSE c
Encoded(t) == FlattenSeq([k \in 1 .. Len(t) |-> IF Size(t[k]) = 2 THEN <<t[k], "tail">> ELSE <<t[k]>>])
strlen(t) == Len(Encoded(t))

(* Is s, from byte i on, the characters of t? *)
RECURSIVE u_strncase_equal_base(_, _, _)
u_strncase_equal_base(t, s, i) ==
  \/ t = <<>>
  \/ /\ i <= Len(s) /\ Base(Head(t)) = Base(s[i])
     /\ u_strncase_equal_base(Tail(t), s, i + Size(s[i]))

(* The places of t in s from byte i on. *)
FoundAt(s, i, t) == {k \in i .. Len(s) : u_strncase_equal_base(t, s, k)}

(* do_glob_match from item n and byte i: after a star every place of the   *)
(* text that follows is tried.  "bug" stands for its BUG_ON, and "wild"    *)
(* for what it makes of the memory behind the end of the text.             *)
RECURSIVE do_glob_match(_, _, _, _)
do_glob_match(items, n, s, i) ==
  IF n = Len(items) /\ items[n] = Star THEN "yes"
  ELSE IF i > Len(s) + 1 THEN "wild"
  ELSE IF n > Len(items) THEN (IF i = Len(s) + 1 THEN "yes" ELSE "no")
  ELSE LET g == items[n] IN
       CASE g.type = "text" ->
              IF u_strncase_equal_base(g.text, s, i)
              THEN do_glob_match(items, n + 1, s, i + strlen(g.text)) ELSE "no"
         [] g.type = "qmark" ->
              IF i > Len(s) THEN "no" ELSE do_glob_match(items, n + 1, s, i + Size(s[i]))
         [] g.type = "star" ->
              IF items[n + 1].type # "text" THEN "bug"
              ELSE LET t == items[n + 1].text
                       from(k) == do_glob_match(items, n + 2, s, k + strlen(t))
                       ends == {k \in FoundAt(s, i, t) : from(k) # "no"}
                   IN IF ends = {} THEN "no" ELSE from(CHOOSE k \in ends : \A j \in ends : k <= j)

glob_match == do_glob_match(glob_compile(pattern), 1, Encoded(text), 1)

GlobInit == pattern = <<>> /\ text = <<>>

TypePattern ==
  /\ Len(pattern) < MaxPattern
  /\ \E c \in Letters \cup {"*", "?", "\\"} : pattern' = Append(pattern, c)
  /\ UNCHANGED text
OtherText ==
  /\ Len(text) < MaxText
  /\ \E c \in Letters \cup {"*"} : text' = Append(text, c)
  /\ UNCHANGED pattern
Forget == gvars # <<<<>>, <<>>>> /\ pattern' = <<>> /\ text' = <<>>

GlobNext == TypePattern \/ OtherText \/ Forget

-----------------------------------------------------------------------------
(* The reference: what a pattern from position i on means for the text     *)
(* from position j on, one character at a time.                            *)
RECURSIVE Means(_, _, _, _)
Means(p, i, s, j) ==
  IF i > Len(p) THEN j > Len(s)
  ELSE CASE p[i] = "*" -> Means(p, i + 1, s, j) \/ (j <= Len(s) /\ Means(p, i, s, j + 1))
         [] p[i] = "?" -> j <= Len(s) /\ Means(p, i + 1, s, j + 1)
         [] OTHER -> j <= Len(s) /\ Base(Char(p, i)) = Base(s[j]) /\ Means(p, After(p, i), s, j + 1)

(* Every pattern matches the texts it means, and the BUG_ON behind a star  *)
(* never holds: reordering stars and question marks (simplify) loses       *)
(* nothing, and the search behind a star finds a match if there is one.    *)
(* Only the BUG_ON is left to say where a letter of the pattern is, in the *)
(* text, of another length: a pattern without the accents of the text      *)
(* fails then, and one with more of them reads behind the end of the text. *)
SameSizes == \A c \in ToSet(pattern), d \in ToSet(text) : Base(c) = Base(d) => Size(c) = Size(d)

GlobMeans ==
  /\ glob_match # "bug"
  /\ SameSizes => glob_match = IF Means(pattern, 1, text, 1) THEN "yes" ELSE "no"
=============================================================================
