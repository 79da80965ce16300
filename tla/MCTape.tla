------------------------------- MODULE MCTape -------------------------------
(***************************************************************************)
(* Every graph of N arrays in which an array has at most two inputs (the   *)
(* same one twice included), at most one primitive has two outputs, and    *)
(* any closed set of arrays has a result already; arrays are numbered so   *)
(* that inputs come before their consumers.                                *)
(***************************************************************************)
EXTENDS TapeBuilder

CONSTANTS N, Requests, Codes

MCNodes == 1..N
Root == 0

InputLists(n) == {<<>>} \cup {<<x>> : x \in 1..(n - 1)}
                 \cup {<<x, y>> : x \in 1..(n - 1), y \in 1..(n - 1)}

(* p = 0: no siblings; otherwise arrays p and p + 1 are siblings. *)
Family(p, n) == IF p # 0 /\ n \in {p, p + 1} THEN {p, p + 1} ELSE {n}

(* the streams: array n runs on stream s(n), a bit of the number code *)
Code(code, n) == (code \div (2 ^ n)) % 2

Wirings == {f \in [MCNodes -> UNION {InputLists(n) : n \in MCNodes}] :
               \A n \in MCNodes : f[n] \in InputLists(n)}

Legal(f, p, u) ==
    /\ p # 0 => f[p] = f[p + 1] /\ (p \in u <=> p + 1 \in u)
    /\ \A n \in MCNodes : \A k \in DOMAIN f[n] : f[n][k] \in u => n \in u

MCGraphs ==
    UNION {UNION {
        {[inputs |-> [n \in 0..N |-> IF n = 0 THEN r ELSE f[n]],
          outputs |-> [n \in 0..N |-> IF n = 0 THEN {0} ELSE Family(p, n)],
          unscheduled |-> u,
          stream |-> [n \in 0..N |->
                         IF p # 0 /\ n = p + 1 THEN Code(code, p) ELSE Code(code, n)]]
         : u \in {v \in SUBSET MCNodes : Legal(f, p, v)}, r \in Requests, code \in Codes}
        : f \in Wirings} : p \in 0..(N - 1)}

MCRequests == {<<N>>, <<N, N - 1>>, <<1, N>>}
TwoRequests == {<<N, N - 1>>, <<1, N>>}
=============================================================================
