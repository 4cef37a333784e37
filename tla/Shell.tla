--------------------------------- MODULE Shell ---------------------------------
(***************************************************************************)
(* The text functions of the console, without state: parse_args, strcmp,     *)
(* textohex and execute_command (src/shell.c) and the number printers of     *)
(* src/vga.c.  A character is its ASCII code and a C string the sequence of  *)
(* the characters before its NUL.                                            *)
(***************************************************************************)
EXTENDS Integers, Sequences, FiniteSets, FiniteSetsExt, SequencesExt

CONSTANTS
  MAX_ARGS,     \* words kept of a command: 16
  HexDigits,    \* hex digits of a uint32_t: 8
  CLEAR, HELP, ECHO, PEEK,   \* the names of the commands
  HelpText, UsageText, DataText, UnknownText,   \* what they print
  Readable(_),  \* the page of this address is mapped
  Memory(_)     \* the word found there

NUL == 0
BS == 8
TAB == 9
NL == 10
SPACE == 32
Blank == {SPACE, TAB, NL}

Power16[n \in 0 .. HexDigits] == IF n = 0 THEN 1 ELSE 16 * Power16[n - 1]
Uint == Power16[HexDigits]            \* 2^32: numbers are kept below it

ASSUME ShellAssumption ==
  /\ MAX_ARGS \in Nat /\ 2 <= MAX_ARGS /\ HexDigits \in Nat
  /\ {CLEAR, HELP, ECHO, PEEK} \subseteq Seq(Nat \ {NUL})
  /\ CLEAR \notin {HELP, ECHO, PEEK} /\ HELP \notin {ECHO, PEEK} /\ ECHO # PEEK
  /\ {HelpText, UsageText, DataText, UnknownText} \subseteq Seq(Nat)
  /\ \A a \in 0 .. Uint - 1 : Memory(a) \in 0 .. Uint - 1

(* The C string that starts at position i of a buffer.                      *)
StringAt(buffer, i) ==
  LET ends == {j \in i .. Len(buffer) : buffer[j] = NUL}
  IN  SubSeq(buffer, i, IF ends = {} THEN Len(buffer) ELSE Min(ends) - 1)

(***************************************************************************)
(* parse_args: blanks become NULs, and the position where a word starts is  *)
(* kept while there is room.  A word that finds no room leaves in_word at 0.*)
(***************************************************************************)
(* A blank that does not end the word.                                      *)
ParseOneWord(s, i) ==
  IF s.input[i] \in Blank THEN [s EXCEPT !.input[i] = NUL]
  ELSE IF ~s.in_word /\ Len(s.args) < MAX_ARGS
       THEN [s EXCEPT !.args = Append(@, i), !.in_word = TRUE]
       ELSE s

ParseStep(s, i) ==
  IF s.input[i] \in Blank THEN [s EXCEPT !.in_word = FALSE, !.input[i] = NUL]
  ELSE IF ~s.in_word /\ Len(s.args) < MAX_ARGS
       THEN [s EXCEPT !.args = Append(@, i), !.in_word = TRUE]
       ELSE s

parse_args(input) ==
  LET after[i \in 0 .. Len(input)] ==
        IF i = 0 THEN [input |-> input, args |-> <<>>, in_word |-> FALSE]
        ELSE ParseStep(after[i - 1], i)
      end == after[Len(input)]
  IN  [k \in DOMAIN end.args |-> StringAt(end.input, end.args[k])]

(* strcmp: the difference at the first place the strings differ or both end.*)
(* A comparison that is content when the second string ends.                *)
ComparePrefix(str1, str2) == IF IsPrefix(str2, str1) THEN 0 ELSE 1
strcmp(str1, str2) ==
  LET a == Append(str1, NUL)
      b == Append(str2, NUL)
      i == CHOOSE j \in DOMAIN a :
             /\ a[j] # b[j] \/ a[j] = NUL
             /\ \A k \in 1 .. j - 1 : a[k] = b[k] /\ a[k] # NUL
  IN  a[i] - b[i]

(***************************************************************************)
(* textohex: an optional 0x, then digits up to the first character that is  *)
(* none; result << 4 drops what leaves the 32 bits.                         *)
(***************************************************************************)
HexVal(c) == CASE c \in 48 .. 57 -> c - 48
               [] c \in 65 .. 70 -> c - 55
               [] c \in 97 .. 102 -> c - 87
               [] OTHER -> -1
SkipNothing(s) == 1
SkipPrefix(s) == IF Len(s) >= 2 /\ s[1] = 48 /\ s[2] \in {88, 120} THEN 3 ELSE 1

textohex(s) ==
  LET start == SkipPrefix(s) - 1
      after[i \in start .. Len(s)] ==
        IF i = start THEN [result |-> 0, done |-> FALSE]
        ELSE LET r == after[i - 1]
                 digit == HexVal(s[i])
             IN  IF r.done \/ digit = -1 THEN [r EXCEPT !.done = TRUE]
                 ELSE [r EXCEPT !.result = (@ * 16 + digit) % Uint]
  IN  after[Len(s)].result

(* vga_hex_print: 0x and every digit, filled in from the last to the first. *)
HexCharOff(d) == IF d <= 10 THEN 48 + d ELSE 55 + d
HexChar(d) == IF d < 10 THEN 48 + d ELSE 55 + d
vga_hex_print(num) ==
  <<48, 120>> \o [i \in 1 .. HexDigits |-> HexChar((num \div Power16[HexDigits - i]) % 16)]

(* vga_print_hex_64: the upper half, then the lower half.                   *)
vga_print_hex_64(num) == vga_hex_print(num \div Uint) \o vga_hex_print(num % Uint)

(* vga_print_dec: the digits come out last first and are printed reversed.  *)
vga_print_dec(num) ==
  LET digits[n \in 0 .. num] ==
        IF n = 0 THEN <<>> ELSE <<48 + (n % 10)>> \o digits[n \div 10]
  IN  IF num = 0 THEN <<48>> ELSE Reverse(digits[num])

(***************************************************************************)
(* execute_command: what the command in the buffer makes the console do.    *)
(* peek reads before it prints, so a page fault comes first.                *)
(***************************************************************************)
Nothing == [clear |-> FALSE, print |-> <<>>, fault |-> FALSE]
Says(text) == [Nothing EXCEPT !.print = text]

Echoed(args) == FlattenSeq([k \in 1 .. Len(args) - 1 |-> Append(args[k + 1], SPACE)])

Peek(args) ==
  LET target == textohex(args[2])
  IN  CASE Len(args) < 2 -> Says(UsageText)
        [] Len(args) >= 2 /\ ~Readable(target) -> [Nothing EXCEPT !.fault = TRUE]
        [] OTHER -> Says(DataText \o args[2] \o <<58, SPACE>>
                           \o vga_hex_print(Memory(target)) \o <<NL>>)

execute_command(input) ==
  LET args == parse_args(input)
      Is(name) == strcmp(args[1], name) = 0
  IN  IF args = <<>> THEN Nothing
      ELSE CASE Is(CLEAR) -> [Nothing EXCEPT !.clear = TRUE]
             [] Is(HELP) -> Says(HelpText)
             [] Is(ECHO) -> Says(Echoed(args))
             [] Is(PEEK) -> Peek(args)
             [] OTHER -> Says(UnknownText \o args[1])
================================================================================
