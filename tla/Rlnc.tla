-------------------------------- MODULE Rlnc --------------------------------
(***************************************************************************)
(* Random linear network coding of a ping (crates/protocols/ping/src/rlnc): *)
(* the payload is cut into chunks, each packet of a set carries a random   *)
(* combination of them over GF(2^8), and the receiver eliminates.          *)
(*                                                                         *)
(* A byte is the set of its bits that are one, that is a polynomial over   *)
(* GF(2) of degree below 8 by its exponents.  Combining and eliminating    *)
(* treat the bytes of a chunk alike, so a chunk is one byte here (five in  *)
(* the code).                                                              *)
(***************************************************************************)
EXTENDS Naturals, Sequences, FiniteSets

CONSTANTS
    Payloads,       \* payloads, as sequences of chunks
    Chunks,         \* chunks of a payload (7 in the code)
    SetLen,         \* packets of a coded set (10 in the code)
    Vectors         \* coefficient vectors that are drawn

Byte == SUBSET (0..7)
Zero == {}
One == {0}

ASSUME RlncAssumption ==
    /\ Chunks \in Nat \ {0, 1}      \* a payload of one chunk is never rebuilt
    /\ SetLen \in Nat
    /\ Chunks =< SetLen
    /\ Payloads \subseteq [1..Chunks -> Byte] /\ Vectors \subseteq [1..Chunks -> Byte]

-----------------------------------------------------------------------------
(* The field. *)

gf_add(a, b) == (a \ b) \cup (b \ a)

(* a <<= 1, and 0x1b for the bit that is carried out. *)
DoubleTruncated(a) == {i + 1 : i \in a} \ {8}
Double(a) == gf_add({i + 1 : i \in a} \ {8}, IF 7 \in a THEN {0, 1, 3, 4} ELSE Zero)

gf_mul(a, b) == LET round[i \in 0..8] ==
        IF i = 0 THEN [product |-> Zero, shifted |-> a]
        ELSE LET last == round[i - 1] IN
             [product |-> IF i - 1 \in b THEN gf_add(last.product, last.shifted) ELSE last.product,
              shifted |-> Double(last.shifted)]
    IN round[8].product

(* The first byte, counting from 1, whose product with x is 1. *)
Value(a) == LET digit[i \in 0..8] == IF i = 0 THEN 0
                ELSE digit[i - 1] + (IF i - 1 \in a THEN 2 ^ (i - 1) ELSE 0) IN digit[8]
Inverses == [x \in Byte |-> {i \in Byte : gf_mul(x, i) = One}]
FirstInverse == [x \in Byte \ {Zero} |->
    CHOOSE i \in Inverses[x] : \A j \in Inverses[x] : Value(i) =< Value(j)]
gf_inv(x) == FirstInverse[x]

(* The sum of the values of f: the bits an odd number of them have. *)
GfSum(f) == {e \in 0..7 : Cardinality({i \in DOMAIN f : e \in f[i]}) % 2 = 1}

-----------------------------------------------------------------------------
(* Packets. *)

encode(chunks, coeffs) ==
    [coeffs |-> coeffs,
     data |-> GfSum([i \in 1..Chunks |-> gf_mul(coeffs[i], chunks[i])])]

(* One column: find a row with a pivot, normalise it, and eliminate the     *)
(* column from the others.  Only the first Len(rows) coefficients are        *)
(* worked on, and a column without a pivot is passed over.                   *)
Scaled(row, c, n) ==
    [coeffs |-> [j \in DOMAIN row.coeffs |->
                    IF j =< n THEN gf_mul(row.coeffs[j], c) ELSE row.coeffs[j]],
     data |-> gf_mul(row.data, c)]
Plus(row, c, pivot, n) ==
    [coeffs |-> [j \in DOMAIN row.coeffs |->
                    IF j =< n THEN gf_add(row.coeffs[j], gf_mul(c, pivot.coeffs[j]))
                              ELSE row.coeffs[j]],
     data |-> gf_add(row.data, gf_mul(c, pivot.data))]

ColumnBelow(rows, i) ==
    LET n == Len(rows)
        usable == {p \in i..n : rows[p].coeffs[i] # Zero}
        p == CHOOSE q \in usable : \A r \in usable : q =< r
        swapped == [rows EXCEPT ![i] = rows[p], ![p] = rows[i]]
        pivot == Scaled(swapped[i], gf_inv(swapped[i].coeffs[i]), n)
    IN IF usable = {} THEN rows
       ELSE [k \in 1..n |-> IF k = i THEN pivot
                            ELSE IF k < i THEN swapped[k]
                            ELSE Plus(swapped[k], swapped[k].coeffs[i], pivot, n)]

Column(rows, i) ==
    LET n == Len(rows)
        usable == {p \in i..n : rows[p].coeffs[i] # Zero}
        p == CHOOSE q \in usable : \A r \in usable : q =< r
        swapped == [rows EXCEPT ![i] = rows[p], ![p] = rows[i]]
        pivot == Scaled(swapped[i], gf_inv(swapped[i].coeffs[i]), n)
    IN IF usable = {} THEN rows
       ELSE [k \in 1..n |-> IF k = i THEN pivot
                            ELSE Plus(swapped[k], swapped[k].coeffs[i], pivot, n)]

gaussian_elimination(rows) ==
    LET after[i \in 0..Len(rows)] == IF i = 0 THEN rows ELSE Column(after[i - 1], i)
    IN after[Len(rows)]

reconstruct(rows) == LET solved == gaussian_elimination(rows) IN
    [i \in 1..Len(rows) |-> solved[i].data]

-----------------------------------------------------------------------------
(* One set on its way to a receiver. *)

VARIABLES
    payload,
    sent,           \* packets of the set sent so far
    arrived,        \* how many of them arrived
    cache,          \* packets kept
    used            \* the packets the set was rebuilt from, empty until then

vars == <<payload, sent, arrived, cache, used>>

Packets == {encode(p, c) : p \in Payloads, c \in Vectors}

(* What handle_incoming returned for the set. *)
handed == reconstruct(used)

Init ==
    /\ payload \in Payloads
    /\ sent = 0 /\ arrived = 0
    /\ cache = <<>> /\ used = <<>>

(* The packet that makes the number full is not kept, and once the set is   *)
(* in seen its packets are ignored.                                          *)
FullAtChunks(p) ==
    IF used # <<>> THEN UNCHANGED <<cache, used>>
    ELSE IF cache # <<>> /\ Len(cache) = Chunks
    THEN used' = cache /\ cache' = <<>>
    ELSE cache' = Append(cache, p) /\ UNCHANGED used

handle_incoming(p) ==
    IF used # <<>> THEN UNCHANGED <<cache, used>>
    ELSE IF cache # <<>> /\ Len(cache) = Chunks - 1
    THEN used' = cache /\ cache' = <<>>
    ELSE cache' = Append(cache, p) /\ UNCHANGED used

Arrives(coeffs) ==
    /\ sent < SetLen
    /\ sent' = sent + 1 /\ arrived' = arrived + 1
    /\ handle_incoming(encode(payload, coeffs))
    /\ UNCHANGED payload

Lost ==
    /\ sent < SetLen
    /\ sent' = sent + 1
    /\ UNCHANGED <<payload, arrived, cache, used>>

Next == (\E coeffs \in Vectors : Arrives(coeffs)) \/ Lost

Spec == Init /\ [][Next]_vars

-----------------------------------------------------------------------------
(* Properties. *)

(* Types of the receiver's state, and how many packets it holds.             *)
TypeOK ==
    /\ payload \in Payloads /\ sent \in 0..SetLen /\ arrived \in 0..sent
    /\ cache \in Seq(Packets) /\ Len(cache) < Chunks
    /\ used \in Seq(Packets)

(* handle_incoming (engine.rs:29-57) needs as many arrivals as the payload   *)
(* has chunks and no more, wherever the losses fall: a set survives the loss *)
(* of SetLen - Chunks of its packets.                                        *)
EnoughSuffice == used # <<>> <=> arrived >= Chunks

(* A reference for gf_mul: polynomial products, and the multiples of the    *)
(* modulus x^8 + x^4 + x^3 + x + 1.                                           *)
Product(a, b) == {d \in 0..14 : Cardinality({i \in a : d - i \in b}) % 2 = 1}
Multiples == {Product(q, {0, 1, 3, 4, 8}) : q \in SUBSET (0..6)}

(* gf_mul (payload.rs:150-169) is the product modulo x^8 + x^4 + x^3 + x + 1  *)
(* for every two bytes, and gf_inv (payload.rs:171-179) finds the one inverse *)
(* of every byte but zero, so that it never reaches its panic.  No state       *)
(* matters to it: it is looked at where a set begins.                          *)
GfIsField ==
    /\ \A a, b \in Byte : gf_add(Product(a, b), gf_mul(a, b)) \in Multiples
    /\ \A x \in Byte \ {Zero} : Inverses[x] = {gf_inv(x)}
FieldArithmetic == sent = 0 => GfIsField

(* The reference for the elimination: rows are independent in their first     *)
(* Len(rows) coefficients when that determinant is not zero.                  *)
Perms(n) == {f \in [1..n -> 1..n] : \A i, j \in 1..n : f[i] = f[j] => i = j}
Term(rows, f) == LET upto[i \in 0..Len(rows)] == IF i = 0 THEN One
                     ELSE gf_mul(upto[i - 1], rows[i].coeffs[f[i]]) IN upto[Len(rows)]
Determinant(rows) == GfSum([f \in Perms(Len(rows)) |-> Term(rows, f)])
Regular(rows) == rows # <<>> /\ Determinant(rows) # Zero

(* gaussian_elimination (payload.rs:78-124), with the rows it swaps and those  *)
(* above the pivot it clears, returns the solution of a system that has one:   *)
(* what is handed up reproduces the data of every packet that was kept.        *)
Solves(result, rows) == \A k \in 1..Len(rows) :
    GfSum([j \in 1..Len(rows) |-> gf_mul(rows[k].coeffs[j], result[j])]) = rows[k].data
EliminationSolves == Regular(used) => \A result \in {handed} : Solves(result, used)

(* handle_incoming (engine.rs:39-49) rebuilds a set from one packet less than  *)
(* the payload has chunks: what it hands up is the payload without its last    *)
(* chunk when no packet it kept held anything of that chunk, and otherwise it  *)
(* is not even that.                                                           *)
RebuildsAllButLast == Regular(used) =>
    (handed = SubSeq(payload, 1, Chunks - 1) <=> payload[Chunks] = Zero
        \/ \A k \in 1..Len(used) : used[k].coeffs[Chunks] = Zero)

(* "The receiver reconstructs once it has enough linearly independent          *)
(* packets" (README.md:48), and the payload compared in the line engine.rs:84  *)
(* leaves out: what handle_incoming hands up is what was sent.                 *)
Decodes == used # <<>> => handed = payload
=============================================================================
