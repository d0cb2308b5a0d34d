------------------------------ MODULE MCBackends ------------------------------
(* A small instance of Backends: integers of two and of three bits.          *)
EXTENDS Backends

MCDigits(n) == Numeral("", FALSE, n)
MCMinus(n)  == Numeral("-", FALSE, n)

\* In byte order: "", "+1", "-0", "-1", ... "8", "abc", "false", "true".
MCStrings ==
  <<Empty, Numeral("+", FALSE, 1), MCMinus(0), MCMinus(1), MCMinus(2), MCMinus(4), MCMinus(5),
    MCDigits(0), Numeral("", TRUE, 3), MCDigits(1), MCDigits(3), MCDigits(4), MCDigits(7),
    MCDigits(8), Word("abc"), Word("false"), Word("true")>>

MCRoleTexts == [name : {"ro", "readwrite", "admin", "root"}, plain : {TRUE}]
                 \cup {[name |-> "admin", plain |-> FALSE]}
==============================================================================
