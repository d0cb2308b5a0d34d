------------------------------ MODULE Vocabulary ------------------------------
(* The names the ways into the database use for comparison operators and for *)
(* roles, and how each is turned into the next: the command line             *)
(* (cmd/KoraDB), the Go SDK (sdk/go/koradb), the C library                   *)
(* (sdk/native/cshared), the wire (api/gen) and the server                   *)
(* (internal/server).                                                        *)
EXTENDS Integers

Unknown == "unknown"
------------------------------------------------------------------------------
(* Comparison operators.                                                     *)

Ops == {"eq", "ne", "gt", "gte", "lt", "lte"}

parseOp(s) ==
  CASE s \in {"==", "eq"} -> "eq" [] s \in {"!=", "ne"} -> "ne"
    [] s \in {">", "gt"} -> "gt"  [] s \in {">=", "gte"} -> "gte"
    [] s \in {"<", "lt"} -> "lt"  [] s \in {"<=", "lte"} -> "lte"
    [] OTHER -> Unknown

toEngineOp(s) == IF s \in Ops THEN s ELSE Unknown

nativeQueryOp(s) == IF s \in Ops THEN s ELSE Unknown

toWireOp(op) ==
  CASE op = "eq" -> "OP_EQ" [] op = "ne" -> "OP_NE" [] op = "gt" -> "OP_GT"
    [] op = "gte" -> "OP_GTE" [] op = "lt" -> "OP_LT" [] op = "lte" -> "OP_LTE"
    [] OTHER -> "OP_UNSPECIFIED"

\* Plausible bug: two cases of the switch are swapped.
toOpSwapped(op) ==
  CASE op = "OP_EQ" -> "eq" [] op = "OP_NE" -> "ne" [] op = "OP_GT" -> "gte"
    [] op = "OP_GTE" -> "gt" [] op = "OP_LT" -> "lt" [] op = "OP_LTE" -> "lte"
    [] OTHER -> Unknown

toOp(op) ==
  CASE op = "OP_EQ" -> "eq" [] op = "OP_NE" -> "ne" [] op = "OP_GT" -> "gt"
    [] op = "OP_GTE" -> "gte" [] op = "OP_LT" -> "lt" [] op = "OP_LTE" -> "lte"
    [] OTHER -> Unknown

cmp(a, b) == IF a < b THEN -1 ELSE IF a > b THEN 1 ELSE 0

\* What an operator makes of the outcome of a comparison.
Holds(op, c) ==
  CASE op = "eq" -> c = 0 [] op = "ne" -> c # 0 [] op = "gt" -> c > 0
    [] op = "gte" -> c >= 0 [] op = "lt" -> c < 0 [] op = "lte" -> c <= 0
------------------------------------------------------------------------------
(* Roles.  The text of a role is its name in lower case without blanks, and  *)
(* whether it was written so.                                                *)

Role == {"readonly", "readwrite", "admin"}

RoleNamed(name) ==
  CASE name \in {"readonly", "ro"} -> "readonly"
    [] name \in {"readwrite", "rw"} -> "readwrite"
    [] name = "admin" -> "admin"
    [] OTHER -> Unknown

\* Trimmed and lowered before it is looked up.
ParseRole(text) == RoleNamed(text.name)

\* Looked up as it is.
roleToWire(text) ==
  LET role == IF text.plain THEN RoleNamed(text.name) ELSE Unknown
  IN  CASE role = "readonly" -> "ROLE_READONLY" [] role = "readwrite" -> "ROLE_READWRITE"
        [] role = "admin" -> "ROLE_ADMIN" [] OTHER -> Unknown

fromPBRole(wire) ==
  CASE wire = "ROLE_READONLY" -> "readonly" [] wire = "ROLE_READWRITE" -> "readwrite"
    [] wire = "ROLE_ADMIN" -> "admin" [] OTHER -> Unknown

toPBRole(role) ==
  CASE role = "readonly" -> "ROLE_READONLY" [] role = "readwrite" -> "ROLE_READWRITE"
    [] role = "admin" -> "ROLE_ADMIN" [] OTHER -> "ROLE_UNSPECIFIED"

\* How a key list shows a role: embedded, and by the wire.
RoleString(role) == IF role \in Role THEN role ELSE "none"

roleFromWire(wire) ==
  CASE wire = "ROLE_READONLY" -> "readonly" [] wire = "ROLE_READWRITE" -> "readwrite"
    [] wire = "ROLE_ADMIN" -> "admin" [] OTHER -> "none"
------------------------------------------------------------------------------
(* Errors, and the status codes they become.                                 *)

toStatus(err) ==
  CASE err = "ErrNotFound" -> "NotFound"
    [] err \in {"ErrExists", "ErrDuplicateKey"} -> "AlreadyExists"
    [] err = "ResultLimitError" -> "ResourceExhausted"
    [] err = "ErrInvalidPageToken" -> "InvalidArgument"
    [] err = "Canceled" -> "Canceled"
    [] err = "DeadlineExceeded" -> "DeadlineExceeded"
    [] OTHER -> "InvalidArgument"
==============================================================================
