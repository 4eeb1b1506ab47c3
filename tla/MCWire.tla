------------------------------- MODULE MCWire -------------------------------
EXTENDS Wire

\* Bytes that look like digits of lengths, empty parts, and a negative int as the flags.
MCRequests ==
    {[kind |-> 1, path |-> <<1>>, content |-> << >>, flags |-> 3],
     [kind |-> 2, path |-> <<2>>, content |-> <<0>>, flags |-> 0],
     [kind |-> 0, path |-> << >>, content |-> << >>, flags |-> -1]}

MCFileArrays == {<< <<1>>, << >> >>, << <<2>>, <<0>>, <<1>>, << >> >>}
=============================================================================
