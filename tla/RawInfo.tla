------------------------------ MODULE RawInfo ------------------------------
(***************************************************************************)
(* The walk over the bencoded bytes of a .torrent that finds the span of   *)
(* its `info` value (src/src/metainfo.rs), next to the encoding it has to  *)
(* undo.  A byte is a one-character string; the key `info` is "n".         *)
(***************************************************************************)
EXTENDS Integers, Sequences, SequencesExt, FiniteSetsExt

CONSTANTS
    Metas,          \* top-level dictionaries, as sequences of <<key, value>>
    Garbage         \* byte sequences that are no dictionary

VARIABLES
    source,         \* the dictionary the file was written from
    buf,            \* the file
    i,              \* where the walk over the top-level dictionary is
    result          \* Running, Err, or the span [after_key, val_end) of `info`

walkVars == <<source, buf, i, result>>

Info == "n"
Numerals == <<"0", "1", "2", "3", "4", "5", "6", "7", "8", "9">>
Digits == [d \in ToSet(Numerals) |-> (CHOOSE k \in DOMAIN Numerals : Numerals[k] = d) - 1]
digit(n) == Numerals[n + 1]

---------------------------------------------------------------------------
\* Bencode.  A value is an integer (its digits), a byte string, a list of values
\* or a dictionary; lengths stay below 100.
decimal(n) == IF n < 10 THEN <<digit(n)>> ELSE <<digit(n \div 10), digit(n % 10)>>
byte_string(s) == decimal(Len(s)) \o <<":">> \o s

RECURSIVE bencode(_)
bencode(v) ==
    CASE v.kind = "int" -> <<"i">> \o v.digits \o <<"e">>
      [] v.kind = "bytes" -> byte_string(v.bytes)
      [] v.kind = "list" ->
             <<"l">> \o FlattenSeq([k \in DOMAIN v.items |-> bencode(v.items[k])]) \o <<"e">>
      [] v.kind = "dict" ->
             <<"d">> \o FlattenSeq([k \in DOMAIN v.entries |->
                 byte_string(v.entries[k][1]) \o bencode(v.entries[k][2])]) \o <<"e">>
---------------------------------------------------------------------------
\* Offsets are those of the code, from 0; `past` is where the file ends.
past == Len(buf)
at(k) == buf[k + 1]
slice(a, b) == SubSeq(buf, a + 1, b)        \* &buf[a..b]

Running == [kind |-> "running"]
Err == [kind |-> "err"]

\* An offset past the file stands for the code's Err.
None == 0 - 1
first_of(c, k) ==
    LET found == {j \in k .. past - 1 : at(j) = c}
    IN  IF found = {} THEN None ELSE Min(found)

\* str::parse::<usize>: digits only, at least one, or a sign before them.
number(s) == FoldLeft(LAMBDA n, d : n * 10 + Digits[d], 0, s)
parses(s) == s # <<>> /\ \A k \in DOMAIN s : s[k] \in DOMAIN Digits
unsigned(s) == IF s # <<>> /\ Head(s) = "+" THEN Tail(s) ELSE s

\* read_byte_string at k: <<start, end>> of the bytes, or Err.
read_byte_string(k) ==
    LET colon == first_of(":", k)
        len == unsigned(slice(k, colon))
        start == colon + 1
    IN  IF colon = None \/ ~ parses(len) \/ start + number(len) > past THEN <<None, None>>
        ELSE <<start, start + number(len)>>

\* skip_value: the offset just past the value at k, None for Err.
skip_items_short(j) == IF first_of("e", j) = None THEN None ELSE first_of("e", j) + 1

RECURSIVE skip_value(_), skip_items(_)
skip_items(j) ==
    IF j >= past THEN None
    ELSE IF at(j) = "e" THEN j + 1
    ELSE LET next == skip_value(j) IN IF next = None THEN None ELSE skip_items(next)
skip_value(k) ==
    IF k >= past THEN None
    ELSE CASE at(k) = "i" -> IF first_of("e", k) = None THEN None ELSE first_of("e", k) + 1
           [] at(k) \in {"l", "d"} -> skip_items(k + 1)
           [] at(k) \in DOMAIN Digits -> read_byte_string(k)[2]
           [] OTHER -> None
---------------------------------------------------------------------------
\* Files cut short at every length, whole files, files with something after the
\* dictionary, and bytes that are no dictionary at all.
Dict(entries) == [kind |-> "dict", entries |-> entries]
WalkInit ==
    /\ source \in Metas
    /\ \/ \E n \in 0 .. Len(bencode(Dict(source))) :
              buf = SubSeq(bencode(Dict(source)), 1, n)
       \/ \E g \in Garbage : buf = bencode(Dict(source)) \o g
       \/ buf \in Garbage
    /\ i = 1
    /\ result = Running

Stop(r) == result' = r /\ UNCHANGED <<source, buf, i>>

Walking == buf # <<>> /\ buf[1] = "d"

NotADictionary == ~ Walking /\ Stop(Err)

\* The walk is at a key, not at the end of the dictionary or of the file.
AtKey == i < past /\ at(i) # "e"

\* The dictionary ends without the key, or the file does.
NoInfo ==
    /\ Walking
    /\ ~ AtKey
    /\ Stop(Err)

\* One turn of the loop of extract_raw_info.
key_is(key) == slice(key[1], key[2]) = <<Info>>

Entry ==
    /\ Walking /\ AtKey
    /\ LET key == read_byte_string(i)
           val_end == skip_value(key[2])
       IN  IF key[2] = None \/ val_end = None THEN Stop(Err)
           ELSE IF key_is(key) THEN Stop([kind |-> "span", from |-> key[2], to |-> val_end])
           ELSE i' = val_end /\ UNCHANGED <<source, buf, result>>

WalkNext == result = Running /\ (NotADictionary \/ NoInfo \/ Entry)

WalkSpec == WalkInit /\ [][WalkNext]_walkVars
-----------------------------------------------------------------------------
\* The entries of a dictionary up to its first `info`, and that entry.
FirstInfo(m) == {k \in DOMAIN m : m[k][1] = <<Info>> /\ \A j \in 1 .. k - 1 : m[j][1] # <<Info>>}

\* The span is the value of the top-level `info` key and nothing else, byte for
\* byte as the file has it: a key of that name further down, a byte string that
\* holds the bytes of one, and what comes after the dictionary do not count.
SpanIsInfo ==
    LET whole == bencode(Dict(source))
    IN  /\ result.kind = "span" /\ (IsPrefix(buf, whole) \/ IsPrefix(whole, buf)) =>
               \E k \in FirstInfo(source) :
                   slice(result.from, result.to) = bencode(source[k][2])
        /\ result.kind = "err" /\ IsPrefix(whole, buf) => FirstInfo(source) = {}
=============================================================================
