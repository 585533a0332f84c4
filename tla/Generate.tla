------------------------------ MODULE Generate ------------------------------
(***************************************************************************)
(* Minting passwords, passphrases and PINs, and saying what they are worth *)
(* (generate.rs).  A value is drawn symbol by symbol, each uniformly by    *)
(* masking and redrawing, and drawn again as a whole until every class     *)
(* that was asked for appears; the figure shown is worked out from the     *)
(* request alone, by inclusion and exclusion over the classes.             *)
(*                                                                         *)
(* The figure is kept as the number of values rather than its logarithm.   *)
(***************************************************************************)
EXTENDS Integers, Sequences, FiniteSets, FiniteSetsExt

CONSTANTS
    Width,       \* bits of a draw (u32)
    Class,       \* the character classes, each a set of symbols
    Words,       \* the word list
    Digits,      \* the class a PIN is drawn from
    Ambiguous,   \* AMBIGUOUS
    MaxLength,   \* MAX_PASSWORD_LEN, MAX_PASSPHRASE_WORDS, MAX_PIN_DIGITS
    MaxTries     \* MAX_DRAWS and MAX_CONSTRAINT_ATTEMPTS

VARIABLES
    request,     \* what is asked for: the kind, the classes and the length
    drawn,       \* the symbols drawn so far
    tries,       \* redraws of a symbol, and of the whole value
    outcome      \* "drawing", "minted", "refused" or "failed"

vars == <<request, drawn, tries, outcome>>

----------------------------------------------------------------------------
(* What is asked for.                                                      *)

Request == [kind : {"password"}, classes : SUBSET Class, length : 0 .. MaxLength + 1,
            clear : BOOLEAN]
    \cup [kind : {"pin"}, classes : {{Digits}}, length : 0 .. MaxLength + 1, clear : {FALSE}]
    \cup [kind : {"passphrase"}, classes : {{Words}}, length : 0 .. MaxLength + 1, clear : {FALSE}]

\* Charset::build: the classes, without what is easily misread if so asked.
Sets(r) == {IF r.clear THEN c \ Ambiguous ELSE c : c \in r.classes}
Charset(r) == UNION Sets(r)

\* The errors of Charset::build, PassphraseSpec::validate and check_pin_digits.
Valid(r) ==
    /\ r.length \in 1 .. MaxLength
    /\ r.classes # {} /\ {} \notin Sets(r)
    /\ r.length >= Cardinality(r.classes)

AllClassesPresent(r, value) ==
    r.kind # "password" \/ \A c \in Sets(r) : \E i \in DOMAIN value : value[i] \in c

----------------------------------------------------------------------------
(* A draw.                                                                 *)

\* The bits of n, as 32 less the leading zeros: the mask is the next power of two.
Bits(n) == CHOOSE b \in 0 .. Width : 2 ^ b > n /\ \A a \in 0 .. b - 1 : 2 ^ a <= n

\* Mutant: the remainder, and nothing to redraw.
CandidateModulo(word, n) == word % n

\* uniform_below: what a word of the generator comes to; n or more is drawn again.
Candidate(word, n) == IF n = 1 THEN 0 ELSE word % 2 ^ Bits(n - 1)

\* The alphabet in a fixed order.
Order(set) == CHOOSE s \in [1 .. Cardinality(set) -> set] : {s[i] : i \in DOMAIN s} = set

----------------------------------------------------------------------------
(* What it is worth.                                                       *)

\* strength_of_spec, strength_of_passphrase and strength_of_pin: all strings, less
\* those that miss a class, by inclusion and exclusion over the sets of classes.
Figure(r) ==
    LET all == Cardinality(Charset(r))
        Term(missed) == LET left == all - MapThenSumSet(Cardinality, missed) IN
                        IF Cardinality(missed) % 2 = 0 THEN left ^ r.length ELSE -(left ^ r.length)
    IN IF Cardinality(r.classes) < 2 THEN all ^ r.length
       ELSE MapThenSumSet(Term, SUBSET Sets(r))

----------------------------------------------------------------------------
Init ==
    /\ request \in Request
    /\ drawn = <<>> /\ tries = [symbol |-> 0, value |-> 0]
    /\ outcome = IF Valid(request) THEN "drawing" ELSE "refused"

\* One call of the random number generator.
Draw(word) ==
    LET n == Cardinality(Charset(request))
        c == Candidate(word, n)
    IN /\ outcome = "drawing" /\ Len(drawn) < request.length
       /\ IF c < n
          THEN /\ drawn' = Append(drawn, Order(Charset(request))[c + 1])
               /\ tries' = [tries EXCEPT !.symbol = 0] /\ UNCHANGED outcome
          ELSE /\ tries' = [tries EXCEPT !.symbol = @ + 1]
               /\ outcome' = IF tries'.symbol < MaxTries THEN "drawing" ELSE "failed"
               /\ UNCHANGED drawn
       /\ UNCHANGED request

\* All symbols are there: keep the value, or draw it again.
Settle ==
    /\ outcome = "drawing" /\ Len(drawn) = request.length
    /\ IF AllClassesPresent(request, drawn)
       THEN outcome' = "minted" /\ UNCHANGED <<drawn, tries>>
       ELSE /\ drawn' = <<>> /\ tries' = [tries EXCEPT !.value = @ + 1]
            /\ outcome' = IF tries'.value < MaxTries THEN "drawing" ELSE "failed"
    /\ UNCHANGED request

Next == (\E word \in 0 .. 2 ^ Width - 1 : Draw(word)) \/ Settle

----------------------------------------------------------------------------
Values(r) == {v \in [1 .. r.length -> Charset(r)] : AllClassesPresent(r, v)}
Chances(v, n) == Cardinality({w \in 0 .. 2 ^ Width - 1 : Candidate(w, n) = v})

\* The figure shown for a request is the number of values it can mint, no more, and
\* each of them is as likely as any other: every symbol comes of equally many words,
\* and the redraws keep exactly the values the figure counts.
FigureIsExact ==
    LET n == Cardinality(Charset(request)) IN
    outcome # "refused" =>
        /\ drawn = <<>> => /\ Figure(request) = Cardinality(Values(request))
                           /\ \A v \in 0 .. n - 1 : Chances(v, n) = Chances(0, n) /\ Chances(v, n) > 0
        /\ outcome = "minted" => drawn \in Values(request)

============================================================================
