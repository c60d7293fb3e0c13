------------------------------- MODULE Masking -------------------------------
(* What is kept of a value that is logged: DataMaskingUtil.redactSensitiveKeys. *)
(*                                                                            *)
(* The parameters and the result of a request go into operation_logs through    *)
(* it, and again through it when an administrator opens the row; so does what   *)
(* LoggerService writes.  A value is what is at each of its paths, the          *)
(* sequences of keys that lead into it, <<>> to the whole; the positions in an  *)
(* array are keys too.  The function calls itself on what is inside a value:    *)
(* `todo` holds the paths of the calls that remain, and a step is one of them.  *)
EXTENDS Naturals, Sequences

CONSTANTS
    Keys,       \* keys of objects and positions in arrays
    KindOf,     \* what DataMaskingUtil takes each of them for
    SizeKey,    \* _size
    Given       \* the values on their way to a log

VARIABLE record    \* a value on its way: where it goes, how it was and is, the calls that remain

\* A sensitive word in it, IP_KEY_PATTERN, EMAIL_KEY_PATTERN, neither.
KeyKinds == {"secret", "ip", "email", "plain"}

\* text has nothing to hide; a token, as in "Bearer eyJ...", is what redactSecrets recognises in a
\* text; a number, a Boolean or null is no string.
Texts == {"text", "token", "address", "mail"}
Strings == Texts \cup {"***REDACTED***", "[REDACTED]", "masked address", "***", "masked mail"}
Containers == {"object", "array"}

Holder(path) == SubSeq(path, 1, Len(path) - 1)
LastKind(path) == KindOf[path[Len(path)]]
Inside(path, p) == Len(p) < Len(path) /\ \A i \in 1 .. Len(p) : path[i] = p[i]

\* What JSON.parse may return: whatever is inside is inside an object or an array, and no position
\* in an array is a word.
IsValue(v) ==
    /\ DOMAIN v \subseteq Seq(Keys) /\ <<>> \in DOMAIN v /\ v[<<>>] \in Containers
    /\ \A p \in DOMAIN v :
          /\ v[p] \in Containers \cup Strings \cup {"number"}
          /\ \A n \in 0 .. Len(p) - 1 : SubSeq(p, 1, n) \in DOMAIN v /\ v[SubSeq(p, 1, n)] \in Containers
          /\ p # <<>> /\ v[Holder(p)] = "array" => LastKind(p) = "plain"

ASSUME MaskingConstants ==
    /\ KindOf \in [Keys -> KeyKinds] /\ SizeKey \in Keys /\ KindOf[SizeKey] = "plain"
    /\ \A v \in Given : IsValue(v)

------------------------------------------------------------------------------
\* redactSecrets: of a text with a token, the token is replaced.
RedactSecrets(text) == IF text = "token" THEN "[REDACTED]" ELSE text

\* maskIp: whatever is no address becomes '***' altogether.
MaskIp(text) == IF text = "address" THEN "masked address" ELSE "***"

\* maskEmail: whatever has no @ stays as it is.
MaskEmail(text) == IF text = "mail" THEN "masked mail" ELSE text

\* The branches for a key that replace what it has, in their order.
RedactValue(kind, value) ==
    CASE kind = "secret" -> "***REDACTED***"
      [] kind = "ip" /\ value \in Strings -> MaskIp(value)
      [] kind = "email" /\ value \in Strings -> MaskEmail(value)
      [] kind = "plain" /\ value \in Strings -> RedactSecrets(value)
      [] OTHER -> value

Entries(v, p) == {q \in DOMAIN v : q # <<>> /\ Holder(q) = p}

\* Mutant: arrays are left as they are.
ObjectCalls(v, p) == {q \in Entries(v, p) : LastKind(q) # "secret" /\ v[q] = "object"}

\* The paths it calls itself on: objects among the items, and of arrays among them the objects and
\* arrays.
Calls(v, p) ==
    {q \in Entries(v, p) : LastKind(q) # "secret" /\ v[q] = "object"} \cup
    {q \in DOMAIN v : /\ v[q] \in Containers
                      /\ \E a \in Entries(v, p) : LastKind(a) # "secret" /\ v[a] = "array" /\ q \in Entries(v, a)}

\* What one call makes of the value: { ...data }, an object also of an array, and each key's branch.
Redacted(v, p) ==
    [q \in {q \in DOMAIN v : \A s \in Entries(v, p) : LastKind(s) = "secret" => ~Inside(q, s)} |->
        IF q = p THEN "object"
        ELSE IF q \in Entries(v, p) THEN RedactValue(LastKind(q), v[q])
        ELSE v[q]]

RedactSensitiveKeys(p) ==
    record' = [record EXCEPT !.value = Redacted(record.value, p),
                             !.todo = (@ \ {p}) \cup Calls(record.value, p)]

------------------------------------------------------------------------------
Nothing == [p \in {<<>>} |-> "object"]

\* A body, a query, a result, the parameters of a line of the log.
MaskingInit == record = [step |-> "given", to |-> "none", value |-> Nothing, given |-> Nothing, todo |-> {}]

Receives ==
    /\ record.step = "given" /\ record.to = "none"
    /\ \E to \in {"params", "result", "manual", "log", "error"}, v \in Given :
          record' = [record EXCEPT !.to = to, !.value = v, !.given = v]

StartsMasking(to, step, next) ==
    /\ record.step = step /\ record.to \in to /\ record.todo = {}
    /\ record' = [record EXCEPT !.step = next, !.todo = {<<>>}]

\* A result of more than 2000 characters is kept as its size.
Truncated == [p \in {<<>>, <<SizeKey>>} |-> IF p = <<>> THEN "object" ELSE "number"]

Truncates ==
    /\ record.step = "given" /\ record.to = "result"
    /\ record' = [record EXCEPT !.step = "kept", !.value = Truncated]

\* sanitizeResult.
SanitizesResult == Truncates \/ StartsMasking({"result"}, "given", "kept")

\* sanitizeParams: body, query and params.
SanitizesParams == StartsMasking({"params"}, "given", "kept")

\* createWithContext, OperationLogService.maskJson: an SSO login.
MasksJson == StartsMasking({"manual"}, "given", "kept")

\* createLogObject; error() puts the value in after it and redacts the whole once more.
Logs == StartsMasking({"log", "error"}, "given", "kept")

\* toDetailVo, OperationLogMapper.maskJson.
Shows == StartsMasking({"params", "result", "manual"}, "kept", "shown")

MaskingNext ==
    \/ Receives \/ SanitizesResult \/ SanitizesParams \/ MasksJson \/ Shows \/ Logs
    \/ \E p \in record.todo : RedactSensitiveKeys(p)

------------------------------------------------------------------------------
Harmless(v, p) ==
    v[p] \in {"text", "number"} /\ \A i \in 1 .. Len(p) : KindOf[p[i]] \notin {"secret", "ip"}

\* At whatever depth, in objects and in arrays, nothing is kept under a key with a sensitive word
\* but the placeholder, a key for addresses or mails has masked ones, and no text that has a key of
\* its own has a token in it; and what has nothing to hide stays where it is, unless a long result
\* is kept as its size (redactSensitiveKeys).
NoSecretIsKept ==
    record.step # "given" /\ record.todo = {} =>
        LET v == record.value IN
        /\ \A p \in DOMAIN v \ {<<>>} :
              /\ \A i \in 1 .. Len(p) : KindOf[p[i]] = "secret" => i = Len(p) /\ v[p] = "***REDACTED***"
              /\ LastKind(p) = "ip" => v[p] \notin Texts
              /\ LastKind(p) = "email" => v[p] # "mail"
              /\ LastKind(p) = "plain" /\ v[Holder(p)] = "object" => v[p] # "token"
        /\ v # Truncated =>
              \A p \in DOMAIN record.given :
                  Harmless(record.given, p) => p \in DOMAIN v /\ v[p] = record.given[p]
==============================================================================
