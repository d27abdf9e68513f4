---------------------------- MODULE RustTestLines ----------------------------
(***************************************************************************)
(* Which lines of a Rust file are test code: rustTestLines, which counts   *)
(* braces line by line, and what Rust itself says.                         *)
(*                                                                         *)
(* A line is a sequence of the tokens that the two tell apart; all other   *)
(* text is left out.  "cfg" is #[cfg(test)], "inner" is #![cfg(test)],     *)
(* "'{'" is a character literal, and "key" is something a detector finds.  *)
(***************************************************************************)
EXTENDS Integers, FiniteSets, SequencesExt

Token == {"cfg", "inner", "{", "}", "'{'", ";", "//", "quote", "key"}

Line == Seq(Token)

-----------------------------------------------------------------------------

\* One turn of the loop over a line: strings and the comment are left out.
NextChar(s, t) ==
    CASE s.comment \/ (s.string /\ t # "quote") -> s
      [] ~s.comment /\ t = "quote" -> [s EXCEPT !.string = ~@]
      [] ~s.comment /\ ~s.string /\ t = "//" -> [s EXCEPT !.comment = TRUE]
      [] OTHER -> [s EXCEPT !.code = Append(@, t)]

stripRustNoise(line) ==
    FoldLeft(NextChar, [code |-> <<>>, string |-> FALSE, comment |-> FALSE], line).code

Count(code, tokens) == Cardinality({i \in DOMAIN code : code[i] \in tokens})

\* A brace in a character literal is a brace to strings.Count.
Opens(line)  == Count(stripRustNoise(line), {"{", "'{'"})
Closes(line) == Count(stripRustNoise(line), {"}"})
Has(line, t) == Contains(stripRustNoise(line), t)

Marked(s, isTest) == [s EXCEPT !.test = Append(@, isTest)]

\* Mutant: the line after the closing brace is still test.
StillOpenPastEnd(depth) == depth >= 0

StillOpen(depth) == depth > 0

\* One turn of the loop.  After an inner attribute everything is test.
NextLine(s, line) ==
    LET depth == s.depth + Opens(line) - Closes(line)
        armed == s.armed \/ Has(line, "cfg")
        begun == Opens(line) - Closes(line)
    IN  CASE s.rest \/ Has(line, "inner") -> Marked([s EXCEPT !.rest = TRUE], TRUE)
          [] ~s.rest /\ ~Has(line, "inner") /\ s.inRegion ->
               Marked([s EXCEPT !.depth = depth, !.inRegion = StillOpen(depth)], TRUE)
          [] OTHER ->
               IF armed /\ Opens(line) > 0
                 THEN Marked([s EXCEPT !.depth = begun, !.armed = FALSE,
                                       !.inRegion = StillOpen(begun)], TRUE)
                 ELSE Marked([s EXCEPT !.armed = armed], armed)

\* For every line, whether it is test code.
rustTestLines(lines) ==
    FoldLeft(NextLine,
             [rest |-> FALSE, inRegion |-> FALSE, armed |-> FALSE, depth |-> 0,
              test |-> <<>>],
             lines).test

-----------------------------------------------------------------------------
(* What Rust says.  #[cfg(test)] holds for one item, which ends with its   *)
(* closing brace, or with a semicolon when it has none; #![cfg(test)] holds *)
(* for the block it stands in.                                             *)

Total(lines, a, b, tokens) ==
    SumFunctionOnSet([j \in a .. b |-> Count(stripRustNoise(lines[j]), tokens)], a .. b)

Balance(lines, a, b) == Total(lines, a, b, {"{"}) - Total(lines, a, b, {"}"})

ItemEnded(lines, a, b) ==
    Balance(lines, a, b) <= 0 /\ Total(lines, a, b, {"{", ";"}) > 0

InTestItem(lines, j) ==
    \/ \E a \in 1 .. j :
          /\ Has(lines[a], "cfg")
          /\ \A e \in a .. j - 1 : ~ItemEnded(lines, a, e)
    \/ \E a \in 1 .. j :
          /\ Has(lines[a], "inner")
          /\ \A e \in a .. j - 1 : Balance(lines, a, e) >= 0

\* What rustTestLines can tell from braces: none of them is a character literal,
\* an attribute stands before an item with a block, and an inner attribute in
\* the outermost block.
Tidy(lines) ==
    /\ \A j \in 1 .. Len(lines) : ~Has(lines[j], "'{'")
    /\ \A a \in 1 .. Len(lines) : Has(lines[a], "cfg") =>
          \E b \in a .. Len(lines) :
             /\ Opens(lines[b]) > 0
             /\ \A i \in a .. b - 1 : Count(stripRustNoise(lines[i]), {"{", "}", ";"}) = 0
    /\ \A a \in 1 .. Len(lines) : Has(lines[a], "inner") =>
          \A e \in a .. Len(lines) : Balance(lines, a, e) >= 0

=============================================================================
