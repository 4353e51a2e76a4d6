------------------------------- MODULE Codec -------------------------------
(***************************************************************************)
(* The byte cursor that every hand-written encoding of the node shares.    *)
(*                                                                         *)
(* A message is described by a layout, once as its writer lays it out and  *)
(* once as its reader takes it; Encode and Decode interpret a layout.  The *)
(* integers, hashes, keys and signatures keep their place and their order  *)
(* and have fewer bytes than in the code (the constants below).            *)
(***************************************************************************)
EXTENDS Integers, Sequences, SequencesExt, FiniteSets, FiniteSetsExt

CONSTANTS U64, U32, U16,        \* bytes of the integers: 8, 4 and 2 in the code
          HashLen, KeyLen,      \* 32
          SigLen,               \* 64
          BlsKeyLen, BlsSigLen, \* 48 and 96
          UuidLen,              \* 16
          Ipv4Len, Ipv6Len      \* 4 and 16

ASSUME WidthsPositive ==
    {U64, U32, U16, HashLen, KeyLen, SigLen, BlsKeyLen, BlsSigLen, UuidLen, Ipv4Len, Ipv6Len}
        \subseteq Nat \ {0}

------------------------------------------------------------------------------
\* Layouts.  A value is a sequence of bytes (Raw, Blob, Flag), a tuple (Struct),
\* a sequence (Many, Rest), <<>> or <<v>> (Option), <<tag, v>> (Choice) or, of a
\* Table, the set of its entries, whose first field is the key.
Raw(n) == [as |-> "raw", size |-> n]

Blob(limit) == [as |-> "blob", limit |-> limit]

Flag == [as |-> "flag"]

Option(L) == [as |-> "option", of |-> L]

Struct(Ls) == [as |-> "struct", of |-> Ls]

Choice(arms) == [as |-> "choice", of |-> arms]

\* A count of some width, checked against a range and, if "least" is not 0,
\* against the bytes that are left once "after" are set aside.
Many(L, width, range, least, after) ==
    [as |-> "many", of |-> L, width |-> width, range |-> range, least |-> least, after |-> after]

Framed(L) == [as |-> "framed", of |-> L]

Rest(L) == [as |-> "rest", of |-> L]

\* Entries by key: strict if they must be in ascending order of it.
Table(L, strict) == [as |-> "table", of |-> L, strict |-> strict]

\* A field that records of an earlier format lack at the end.
Trailing(L) == [as |-> "trailing", of |-> L]

Absent == [as |-> "absent"]

\* A reader that tries one layout on all that is left before it takes another.
Else(L, legacy) == [as |-> "else", of |-> L, legacy |-> legacy]

Such(L, test) == [as |-> "such", of |-> L, test |-> test]

\* The field at "hash" is the digest of the field "at" as "by" lays it out.
Anchored(L, hash, at, by) == [as |-> "anchored", of |-> L, hash |-> hash, at |-> at, by |-> by]

AnyCount == Nat
NoLimit == 10000
List(L) == Many(L, U32, AnyCount, 0, 0)
Fits(L, least) == Many(L, U32, AnyCount, least, 0)

------------------------------------------------------------------------------
\* from_be_bytes and to_be_bytes.
Number(bytes) == FoldLeft(LAMBDA n, b : 256 * n + b, 0, bytes)

BytesOf(n, width) == [i \in 1..width |-> (n \div 256 ^ (width - i)) % 256]

\* The order of Rust's byte slices.
Below(a, b) ==
    \/ IsStrictPrefix(a, b)
    \/ \E i \in 1..Min({Len(a), Len(b)}) : a[i] < b[i] /\ \A j \in 1..i - 1 : a[j] = b[j]

KeyOf(entry) == entry[1]

InOrder(S) == SetToSortSeq(S, LAMBDA e, f : Below(KeyOf(e), KeyOf(f)))

\* What inserting a list of entries one after the other leaves in a map.
Collect(list) ==
    {list[i] : i \in {i \in DOMAIN list :
                        \A j \in DOMAIN list : j > i => KeyOf(list[j]) # KeyOf(list[i])}}

\* A hash: any function of the bytes.
Digest(bytes) == BytesOf(FoldLeft(LAMBDA n, b : (7 * n + b + 1) % 251, 0, bytes), HashLen)

\* The tests readers make on a field: a curve point, UTF-8 without a colon (one
\* byte a character here), a key without a reserved prefix, a u31, a document
\* with a signing method.
Holds(test, v) ==
    CASE test = "point" -> v[1] # 255
      [] test = "text" -> \A i \in DOMAIN v : v[i] < 128 /\ v[i] # 58
      [] test = "unreserved" -> v = <<>> \/ v[1] \notin {209, 161}
      [] test = "u31" -> v[1] < 128
      [] test = "sub" -> v[1] = 1
      [] test = "signing" -> \E i \in DOMAIN v[3] : v[3][i][1] = 1

RECURSIVE Encode(_, _)
Encode(L, v) ==
    CASE L.as \in {"raw", "flag"} -> v
      [] L.as = "blob" -> BytesOf(Len(v), U32) \o v
      [] L.as = "option" -> IF v = <<>> THEN <<0>> ELSE <<1>> \o Encode(L.of, v[1])
      [] L.as = "struct" -> FlattenSeq([i \in DOMAIN v |-> Encode(L.of[i], v[i])])
      [] L.as = "choice" -> <<v[1]>> \o Encode(L.of[v[1]], v[2])
      [] L.as = "many" -> BytesOf(Len(v), L.width) \o FlattenSeq([i \in DOMAIN v |-> Encode(L.of, v[i])])
      [] L.as = "rest" -> FlattenSeq([i \in DOMAIN v |-> Encode(L.of, v[i])])
      [] L.as = "framed" -> LET body == Encode(L.of, v) IN BytesOf(Len(body), U32) \o body
      [] L.as = "table" -> Encode(L.of, InOrder(v))
      [] L.as = "absent" -> <<>>
      [] L.as \in {"trailing", "such", "anchored", "else"} -> Encode(L.of, v)

\* Decode yields no pair if the reader fails, else the value and what is left.
RECURSIVE Decode(_, _), DecodeEach(_, _), DecodeRest(_, _)
Decode(L, b) ==
    CASE L.as = "raw" ->
           IF Len(b) < L.size THEN {} ELSE {<<SubSeq(b, 1, L.size), SubSeq(b, L.size + 1, Len(b))>>}
      [] L.as = "blob" ->
           UNION {IF Number(n[1]) > L.limit THEN {} ELSE Decode(Raw(Number(n[1])), n[2]) :
                    n \in Decode(Raw(U32), b)}
      [] L.as = "flag" ->
           {<<IF x[1] = <<0>> THEN <<0>> ELSE <<1>>, x[2]>> : x \in Decode(Raw(1), b)}
      [] L.as = "option" ->
           UNION {CASE t[1] = <<0>> -> {<< <<>>, t[2]>>}
                    [] t[1] = <<1>> -> {<< <<x[1]>>, x[2]>> : x \in Decode(L.of, t[2])}
                    [] OTHER -> {} : t \in Decode(Raw(1), b)}
      [] L.as = "struct" -> DecodeEach(L.of, b)
      [] L.as = "choice" ->
           UNION {IF t[1][1] \notin DOMAIN L.of THEN {}
                  ELSE {<< <<t[1][1], x[1]>>, x[2]>> : x \in Decode(L.of[t[1][1]], t[2])} :
                    t \in Decode(Raw(1), b)}
      [] L.as = "many" ->
           UNION {LET count == Number(n[1]) IN
                  IF \/ count \notin L.range
                     \/ L.least > 0 /\ count > Max({0, Len(n[2]) - L.after}) \div L.least
                  THEN {} ELSE DecodeEach([i \in 1..count |-> L.of], n[2]) :
                    n \in Decode(Raw(L.width), b)}
      [] L.as = "framed" ->
           UNION {{<<x[1], f[2]>> : x \in {x \in Decode(L.of, f[1]) : x[2] = <<>>}} :
                    f \in Decode(Blob(NoLimit), b)}
      [] L.as = "rest" -> DecodeRest(L.of, b)
      [] L.as = "table" ->
           {<<Collect(x[1]), x[2]>> :
              x \in {x \in Decode(L.of, b) :
                       L.strict => \A i \in 1..Len(x[1]) - 1 : Below(KeyOf(x[1][i]), KeyOf(x[1][i + 1]))}}
      [] L.as = "trailing" -> IF b = <<>> THEN {<< <<>>, <<>> >>} ELSE Decode(L.of, b)
      [] L.as = "absent" -> {<< <<>>, b>>}
      [] L.as = "else" ->
           LET first == {x \in Decode(L.of, b) : x[2] = <<>>}
           IN IF first # {} THEN first ELSE Decode(L.legacy, b)
      [] L.as = "such" -> {x \in Decode(L.of, b) : Holds(L.test, x[1])}
      [] L.as = "anchored" ->
           {x \in Decode(L.of, b) : x[1][L.hash] = Digest(Encode(L.by, x[1][L.at]))}

DecodeEach(Ls, b) ==
    IF Ls = <<>> THEN {<< <<>>, b>>}
    ELSE UNION {{<< <<x[1]>> \o y[1], y[2]>> : y \in DecodeEach(Tail(Ls), x[2])} :
                  x \in Decode(Head(Ls), b)}

DecodeRest(L, b) ==
    IF b = <<>> THEN {<< <<>>, <<>> >>}
    ELSE UNION {{<< <<x[1]>> \o y[1], y[2]>> : y \in DecodeRest(L, x[2])} : x \in Decode(L, b)}

\* A variant that leaves trailing bytes alone.
WholePrefix(L, b) == {x[1] : x \in Decode(L, b)}

\* A reader of a whole message: finish, reject_trailing.
Whole(L, b) == {x[1] : x \in {x \in Decode(L, b) : x[2] = <<>>}}
=============================================================================
