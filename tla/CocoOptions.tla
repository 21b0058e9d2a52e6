---------------------------- MODULE CocoOptions ----------------------------
(***************************************************************************)
(* Option strings of CoCO (src/native/coco.c:1217-2441), "key: value       *)
(* key: value ...".                                                        *)
(*                                                                         *)
(* A string is the sequence of its options [key, ranges, text, words]:     *)
(*   ranges  the value as ranges "1-3,7,9-", read from left to right, each *)
(*           [lo, hi, dashes] with Open for a bound that is left out;      *)
(*   text    the value as one word, or as the number it starts with;       *)
(*   words   the option names that occur inside the value.                 *)
(***************************************************************************)
EXTENDS Integers, Sequences, SequencesExt, FiniteSets

Open == -1
\* The end of a range that is not an allowed character, for instance "1 2;".
Garbled == -2
Unread == "unread"                 \* a scanf that read nothing
NoItems == << >>                   \* NULL from coco_string_parse_ranges

Span(lo, hi) == [lo |-> lo, hi |-> hi, dashes |-> 1]
Single(k) == [lo |-> k, hi |-> k, dashes |-> 0]
Ranges(key, ranges) == [key |-> key, ranges |-> ranges, text |-> Unread, words |-> {}]
Word(key, text, words) == [key |-> key, ranges |-> << >>, text |-> text, words |-> words]

----------------------------------------------------------------------------
\* The number of the option where a name first occurs; 0 if nowhere.
coco_strfind(options, name) ==
  LET at == {k \in DOMAIN options : options[k].key = name \/ name \in options[k].words}
  IN IF at = {} THEN 0 ELSE CHOOSE k \in at : \A j \in at : k <= j

\* TRUE where the code asks for a position above 0: a name the string starts
\* with is not counted.
FoundAfterStart(options, name) ==
  LET k == coco_strfind(options, name)
  IN k > 1 \/ (k = 1 /\ options[1].key # name)

\* The option whose value is read for a name: what follows the next colon,
\* which for a name inside a value is that of the next option.
coco_options_read(options, name) ==
  LET k == coco_strfind(options, name)
  IN IF k = 0 THEN << >>
     ELSE IF options[k].key = name THEN <<options[k]>>
     ELSE IF k < Len(options) THEN <<options[k + 1]>>
     ELSE << >>

coco_options_read_values(options, name) ==
  LET o == coco_options_read(options, name)
  IN IF o = << >> THEN << >> ELSE o[1].ranges

\* %s takes any value, %i and %lu the number it starts with.
coco_options_read_string(options, name, default) ==
  LET o == coco_options_read(options, name)
  IN IF o = << >> THEN default
     ELSE IF o[1].ranges # << >> THEN o[1].ranges[1].lo ELSE o[1].text
coco_options_read_int(options, name, default) ==
  LET o == coco_options_read(options, name)
  IN IF o # << >> /\ o[1].ranges # << >> /\ o[1].ranges[1].lo >= 0 THEN o[1].ranges[1].lo ELSE default
coco_options_read_size_t(options, name, default) == coco_options_read_int(options, name, default)

----------------------------------------------------------------------------
(* Ranges.  min and max are 0 where there is no bound. *)

\* The bounds of a range, or << >> where the code gives up.
Bounded(r, min, max) ==
  LET lo == IF r.lo = Open THEN min ELSE r.lo
      hi == IF r.hi = Open THEN max ELSE r.hi
      num1 == IF min > 0 /\ lo < min THEN min ELSE lo
      num2 == IF max > 0 /\ hi > max THEN max ELSE hi
  IN IF \/ r.dashes > 1
        \/ r.lo = Open /\ min = 0
        \/ r.hi = Open /\ max = 0
        \/ num1 > num2
     THEN << >> ELSE <<num1, num2>>

Upto(a, b) == [i \in 1 .. b - a + 1 |-> a + i - 1]

\* What was read before the first range that cannot be, at most max_count.
coco_string_parse_ranges(ranges, min, max, max_count) ==
  LET Take(acc, r) ==
        LET b == Bounded(r, min, max)
        IN IF acc.stop \/ b = << >> THEN [acc EXCEPT !.stop = TRUE]
           ELSE [acc EXCEPT !.items = SubSeq(@ \o Upto(b[1], b[2]), 1,
                                             IF Len(@) + b[2] - b[1] + 1 < max_count
                                             THEN Len(@) + b[2] - b[1] + 1 ELSE max_count)]
  IN IF \/ ranges = << >>
        \/ \E i \in DOMAIN ranges : Garbled \in {ranges[i].lo, ranges[i].hi}
        \/ max > 0 /\ min > max
     THEN NoItems
     ELSE FoldLeft(Take, [items |-> << >>, stop |-> FALSE], ranges).items

\* The count of numbers before the first 0; -1 (an error) where there are too many.
coco_count_numbers(numbers, max_count) ==
  LET n == Cardinality({k \in DOMAIN numbers : \A j \in 1 .. k : numbers[j] # 0})
  IN IF n >= max_count THEN -1 ELSE n

----------------------------------------------------------------------------
(* Warnings about keys nobody reads. *)

\* The last option has no colon after it, hence the keys are all there.
coco_option_keys(options) == [k \in DOMAIN options |-> options[k].key]
coco_option_keys_get_redundant(known_option_keys, given_option_keys) ==
  SelectSeq(given_option_keys, LAMBDA key : key \notin ToSet(known_option_keys))
coco_option_keys_add(basic_option_keys, additional_option_keys) ==
  basic_option_keys \o additional_option_keys

LogLevels == {"error", "warning", "info", "debug"}
coco_set_log_level(coco_log_level, log_level) ==
  IF log_level \in LogLevels THEN log_level ELSE coco_log_level

=============================================================================
