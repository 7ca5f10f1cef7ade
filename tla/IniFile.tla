------------------------------ MODULE IniFile -------------------------------
(***************************************************************************)
(* The search in an initialization file, as the programs use it.           *)
(*                                                                         *)
(* A file is the sequence of its key lines, each with the section it       *)
(* stands in; comments, blank lines and the characters around a line do    *)
(* not change what is found.  A name is the sequence of its parts, so that *)
(* ClientInstance12 is <<"Client", "Instance", "1", "2">>, and being a     *)
(* prefix means the same for names and for character strings.  Section and *)
(* key names are not empty.                                                *)
(***************************************************************************)
EXTENDS Integers, SequencesExt

CONSTANT Radix          \* base of the numbers in names, 10 in the code

Digits == <<"0", "1", "2", "3", "4", "5", "6", "7", "8", "9">>

ASSUME IniAssumption == Radix \in 2 .. Len(Digits)

\* std::to_string of a number with at most two digits.
Numeral(n) ==
    (IF n < Radix THEN <<>> ELSE <<Digits[(n \div Radix) + 1]>>) \o <<Digits[(n % Radix) + 1]>>

Missing == 0            \* the default value the programs pass for a number

\* strncmp over as many characters as the name in the file has.
Matches(inFile, name) == IsPrefix(inFile, name)

\* Mutant: the line search begins in any section.
parse_file_anywhere(file, section, key) ==
    SelectInSeq(file, LAMBDA line : Matches(line.key, key))

\* The first line with the key, in any of the sections that match.
parse_file(file, section, key) ==
    SelectInSeq(file, LAMBDA line : Matches(line.sec, section) /\ Matches(line.key, key))

\* Abstracted: a string and the number that atoi makes of it are one value.
read_profile(file, section, key) ==
    LET k == parse_file(file, section, key)
    IN  IF k = 0 THEN Missing ELSE file[k].val

\* What the file says of exactly this key in exactly this section.
Said(file, section, key) ==
    LET k == SelectInSeq(file, LAMBDA line : line.sec = section /\ line.key = key)
    IN  IF k = 0 THEN Missing ELSE file[k].val
=============================================================================
