---------------------------- MODULE MCCudaCalls ----------------------------
(***************************************************************************)
(* A small instance of CudaCalls: two examples of up to two steps.         *)
(***************************************************************************)
EXTENDS CudaCalls

\* An example that fills its buffers, one that leaves padding, and one each
\* that breaks one of the bounds.
Whole == [steps |-> 2, beam |-> 2, eos |-> -1, min |-> 0]
Short == [steps |-> 1, beam |-> 1, eos |-> Vocab - 1, min |-> 2]
Broken == {[Short EXCEPT !.steps = 3], [Short EXCEPT !.beam = 3],
           [Short EXCEPT !.eos = Vocab], [Short EXCEPT !.min = -1]}
Two(x, y) == [b \in Example |-> IF b = 0 THEN x ELSE y]
SomeMetadata == {Two(Whole, Short)} \cup {Two(Short, x) : x \in Broken}

\* Nothing at all; a duplicate, a sentinel and an index past the end.
SomeLists ==
  {<<>>,
   <<[index |-> 3, value |-> 1], [index |-> -1, value |-> 2],
     [index |-> 3, value |-> 4], [index |-> GradCount, value |-> 8]>>}

SomeRequests ==
  {Call("forward", k, Uniform(k), 0, <<>>) : k \in {0, 2, 3, 4}}
  \cup {Call("full", k, Uniform(k), 0, <<>>) : k \in {2, 3}}
  \cup {Call("variable", 2, m, 0, <<>>) : m \in SomeMetadata}
  \cup {Call("scatter", FastMaxBeam, Uniform(FastMaxBeam), 0, list) : list \in SomeLists}
  \cup {Call("scatter", 0, Uniform(0), 0, <<>>)}

\* Step 1 carries a finished beam in slot 0; example 1 never fills slot 1.
SomeDecoded ==
  [x \in Example \X (0 .. Steps - 1) \X (0 .. MaxBeam - 1) |->
     IF x[1] = 1 /\ x[3] = 1 THEN [parent |-> -1, token |-> -1, fromLogprob |-> 1]
     ELSE IF x[2] = 1 /\ x[3] = 0 THEN [parent |-> 0, token |-> 0, fromLogprob |-> 0]
     ELSE [parent |-> IF x[2] = 1 THEN x[3] ELSE 0, token |-> x[3] % Vocab, fromLogprob |-> 1]]

\* Draws a sum of which tells its parts.
SomeDraws == [b \in Example |-> [k \in 0 .. MaxBeam - 1 |-> 2 ^ (b * MaxBeam + k)]]
=============================================================================
