----------------------------- MODULE MCLzmaFile -----------------------------
EXTENDS LzmaFile

Input(t, d, s) == [text |-> t, dict |-> d, size |-> s]

\* Distances 2, 3 and 1, the last of them already the third and fourth last one.
Runs == <<1, 2, 1, 2, 2, 1, 1, 1>>

\* Lengths up to the long ones, in a dictionary of half the text.
Long == <<1, 2, 1, 2, 1, 2, 1, 2, 3>>

\* No pair of bytes twice in the first 42, so nothing but literals; then copies from 42,
\* 26 and 36 back, for the direct and the aligned bits (distances over 32) and for the
\* trees of the slots.
Far ==
    <<0, 1, 0, 2, 0, 3, 0, 4, 0, 5, 0, 6, 0, 7, 1, 2, 1, 3, 1, 4, 1, 5, 1, 6, 1, 7,
      2, 3, 2, 4, 2, 5, 2, 6, 2, 7, 3, 4, 3, 5, 3, 6>> \o <<0, 1, 0, 4, 1, 5, 0, 7>>

\* Dictionaries smaller than the text are gone round; a header with another size than
\* the text has is of a file that changed while it was read.
MCInputs ==
    {Input(<<>>, 4, 0), Input(Far, 64, Len(Far)), Input(Runs, 4, Len(Runs)),
     Input(Long, 3, Len(Long))}
        \union {Input(SubSeq(Runs, 1, 5), 4, s) : s \in {4, 5, 6}}

MCPieces == {[inp |-> 1, out |-> 2], [inp |-> 19, out |-> 3], [inp |-> 100, out |-> 100]}

=============================================================================
