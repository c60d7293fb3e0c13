------------------------------- MODULE Answers -------------------------------
(* What a client is told: TransformInterceptor and AllExceptionsFilter.         *)
(*                                                                            *)
(* BusinessException takes the HTTP status of an error code from a registry     *)
(* that each library adds to when its module is loaded, in the order in which   *)
(* the application imports them, and a code that no library has registered by   *)
(* then is a 400.  The filter tells the exceptions apart that a request ends    *)
(* in; OperationLogInterceptor names them for the operation log.                *)
EXTENDS Naturals

VARIABLES registry,  \* ErrorCodeHttpStatus: pairs of a status and a code
          loaded,    \* the libraries whose module has been loaded
          outcome    \* how a request has ended, and what it has been answered

answerVars == <<registry, loaded, outcome>>

------------------------------------------------------------------------------
(* The libraries' codes, each with its status                                  *)

BaseCodes ==
    {400} \X {"REQ_VALIDATION_FAILED", "REQ_INVALID_BODY", "REQ_MISSING_PARAM",
        "REQ_INVALID_PARAM_TYPE", "REQ_PARAM_INVALID", "AUTH_CODE_EXPIRED",
        "AUTH_CODE_INVALID"}
    \cup {401} \X {"AUTH_UNAUTHORIZED", "AUTH_LOGIN_FAILED", "AUTH_PASSWORD_INCORRECT",
        "AUTH_TOKEN_EXPIRED", "AUTH_TOKEN_INVALID"}
    \cup {403} \X {"OP_NOT_ALLOWED", "AUTH_USER_DISABLED", "AUTH_IP_BLOCKED"}
    \cup {404} \X {"RES_NOT_FOUND"}
    \cup {409} \X {"RES_ALREADY_EXISTS", "RES_CONFLICT", "RES_IN_USE"}
    \cup {410} \X {"RES_DELETED", "OP_EXPIRED"}
    \cup {500} \X {"SYS_UNKNOWN", "SYS_INTERNAL", "SYS_DB_ERROR", "OP_FAILED"}
    \cup {503} \X {"SYS_UNAVAILABLE"}
    \cup {504} \X {"SYS_TIMEOUT"}

CommonCodes ==
    {403} \X {"OPERATION_NOT_ALLOWED"}

AuthCodes ==
    {400} \X {"PWD_TOO_WEAK", "PWD_SAME_AS_OLD"}
    \cup {401} \X {"AUTH_UNAUTHORIZED", "AUTH_INVALID_CREDENTIALS", "TOKEN_ACCESS_EXPIRED",
        "TOKEN_ACCESS_INVALID", "TOKEN_REFRESH_EXPIRED", "TOKEN_REFRESH_INVALID",
        "TOKEN_MALFORMED", "TOKEN_SIGNATURE_INVALID", "SESSION_NOT_FOUND",
        "SESSION_EXPIRED", "SESSION_REVOKED", "PWD_INCORRECT", "PWD_VERSION_MISMATCH"}
    \cup {403} \X {"AUTH_ACCOUNT_DISABLED", "AUTH_ACCOUNT_LOCKED", "AUTH_ACCOUNT_INACTIVE",
        "SESSION_DEVICE_LIMIT", "PWD_EXPIRED", "PERM_DENIED"}
    \cup {404} \X {"PERM_ROLE_NOT_FOUND", "PERM_NOT_FOUND"}
    \cup {409} \X {"PERM_ROLE_EXISTS", "PERM_CODE_EXISTS", "PERM_ROLE_IN_USE"}

SecurityCodes ==
    {400} \X {"IP_INVALID", "SEC_XSS_DETECTED", "SEC_SQL_INJECTION", "SEC_PASSWORD_TOO_WEAK",
        "CAPTCHA_INVALID", "CAPTCHA_EXPIRED"}
    \cup {401} \X {"SEC_SIGNATURE_INVALID", "SEC_TIMESTAMP_EXPIRED"}
    \cup {403} \X {"IP_BLACKLISTED", "IP_NOT_WHITELISTED", "IP_SUSPICIOUS", "SEC_CSRF_INVALID",
        "SEC_CORS_BLOCKED", "SEC_REPLAY_ATTACK", "RISK_ABNORMAL_LOGIN",
        "RISK_ABNORMAL_TRANSACTION", "RISK_ACCOUNT_AT_RISK", "RISK_UNTRUSTED_DEVICE",
        "RISK_LOCATION_ANOMALY"}
    \cup {428} \X {"CAPTCHA_REQUIRED"}
    \cup {429} \X {"RATE_LIMIT_EXCEEDED", "RATE_QUOTA_EXHAUSTED", "RATE_LOGIN_ATTEMPTS",
        "RATE_CODE_REQUEST"}

IdentityCodes ==
    {400} \X {"EXTERNAL_LINK_MUST_USE_OAUTH"}
    \cup {401} \X {"INVALID_CREDENTIALS", "USER_PASSWORD_INCORRECT", "SESSION_INVALID",
        "SESSION_EXPIRED", "REFRESH_REUSE_DETECTED", "TOKEN_INVALID",
        "PASSWORD_VERSION_MISMATCH"}
    \cup {403} \X {"USER_DISABLED", "USER_LOCKED", "ACCOUNT_DISABLED"}
    \cup {404} \X {"USER_NOT_FOUND", "ADMIN_NOT_FOUND", "END_USER_NOT_FOUND",
        "USER_CREDENTIAL_NOT_FOUND", "USER_PROFILE_NOT_FOUND", "USER_SESSION_NOT_FOUND",
        "USER_EXTERNAL_IDENTITY_NOT_FOUND"}
    \cup {409} \X {"USER_USERNAME_TAKEN", "USER_EMAIL_TAKEN", "USER_PHONE_TAKEN",
        "USER_EXTERNAL_IDENTITY_LINKED", "CANNOT_UNLINK_LAST_LOGIN_METHOD"}

AccessCodes ==
    {403} \X {"RBAC_ROLE_IS_SYSTEM"}
    \cup {404} \X {"RBAC_ROLE_NOT_FOUND", "RBAC_PERMISSION_NOT_FOUND", "RBAC_MENU_NOT_FOUND",
        "RBAC_USER_ROLE_NOT_FOUND"}
    \cup {409} \X {"RBAC_ROLE_CODE_TAKEN", "RBAC_PERMISSION_CODE_TAKEN", "RBAC_MENU_HAS_CHILDREN"}

SsoCodes ==
    {400} \X {"SSO_PROVIDER_NOT_SUPPORTED", "SSO_STATE_INVALID", "SSO_PROFILE_INVALID"}
    \cup {401} \X {"SSO_STATE_MISMATCH", "SSO_CODE_INVALID"}
    \cup {403} \X {"SSO_AUTO_REGISTER_DISABLED", "SSO_EMAIL_DOMAIN_NOT_ALLOWED"}
    \cup {404} \X {"SSO_PROVIDER_NOT_FOUND", "SSO_ACCOUNT_NOT_LINKED", "SSO_ACCOUNT_NOT_FOUND"}
    \cup {502} \X {"SSO_CODE_EXCHANGE_FAILED", "SSO_USERINFO_FAILED", "SSO_IDENTITY_LINK_FAILED"}

SystemCodes ==
    {400} \X {"SYS_CFG_TYPE_MISMATCH"}
    \cup {403} \X {"SYS_CFG_NOT_EDITABLE"}
    \cup {404} \X {"SYS_CFG_NOT_FOUND", "SYS_DICT_NOT_FOUND", "SYS_DICT_ITEM_NOT_FOUND"}
    \cup {409} \X {"SYS_CFG_KEY_TAKEN", "SYS_DICT_CODE_TAKEN", "SYS_DICT_ITEM_VALUE_TAKEN"}

TaskCodes ==
    {404} \X {"TASK_NOT_FOUND"}
    \cup {409} \X {"TASK_INVALID_STATE", "TASK_MAX_ATTEMPTS"}
    \cup {500} \X {"TASK_ENQUEUE_FAILED", "TASK_STALE_TIMEOUT", "TASK_STALE_RECOVERED"}

AuditCodes ==
    {404} \X {"OP_LOG_NOT_FOUND"}
    \cup {500} \X {"OP_LOG_CREATE_FAILED"}

\* Those that register on loading.
Libraries == {"auth", "security", "identity", "access", "sso", "system", "task", "audit"}

CodesOf(lib) ==
    CASE lib = "auth" -> AuthCodes [] lib = "security" -> SecurityCodes
      [] lib = "identity" -> IdentityCodes [] lib = "access" -> AccessCodes
      [] lib = "sso" -> SsoCodes [] lib = "system" -> SystemCodes
      [] lib = "task" -> TaskCodes [] lib = "audit" -> AuditCodes

AllOf(table) == {entry[2] : entry \in table}

\* The tables that the registry is made of.
Tables == {BaseCodes, CommonCodes} \cup {CodesOf(lib) : lib \in Libraries}

\* Object.assign(registry, mapping): what it says of a code replaces what was there.
Assigned(old, mapping) == {entry \in old : entry[2] \notin AllOf(mapping)} \cup mapping

NoOutcome == [step |-> "none"]

AnswersInit ==
    /\ registry = Assigned(BaseCodes, CommonCodes)
    /\ loaded = {}
    /\ outcome = NoOutcome

\* registerErrorCodeHttpStatus.
LoadsLibrary(lib) ==
    /\ lib \notin loaded /\ outcome = NoOutcome
    /\ loaded' = loaded \cup {lib}
    /\ registry' = Assigned(registry, CodesOf(lib))
    /\ UNCHANGED outcome

------------------------------------------------------------------------------
(* The exceptions                                                              *)

\* ErrorCodeHttpStatus[code] || BAD_REQUEST.
StatusOf(code) ==
    LET known == {entry \in registry : entry[2] = code} IN
    IF known = {} THEN 400 ELSE (CHOOSE entry \in known : TRUE)[1]

\* A library's code is thrown by one that has loaded it.
Thrown == AllOf(BaseCodes) \cup AllOf(CommonCodes) \cup UNION {AllOf(CodesOf(lib)) : lib \in loaded}

\* response: what an HttpException holds: a text, the messages of ValidationPipe, an object that has
\* a message and perhaps an errorCode.
BusinessExceptions ==
    {[class |-> "business", status |-> StatusOf(code), code |-> code, response |-> "coded"] : code \in Thrown}

HttpExceptions ==
    {[class |-> "http", status |-> s, code |-> "none", response |-> r] :
        s \in {400, 401, 404, 413, 500, 503}, r \in {"text", "messages", "object"}}

DatabaseErrors ==
    {[class |-> "database", status |-> 0, code |-> "none", response |-> r] :
        r \in {"EntityNotFoundError", "ER_DUP_ENTRY", "other"}}

Errors == {[class |-> c, status |-> 0, code |-> "none", response |-> "none"] : c \in {"error", "no error"}}

------------------------------------------------------------------------------
(* AllExceptionsFilter                                                         *)

Answer(status, code, details) == [status |-> status, code |-> code, details |-> details]

AnswerBusiness(e) == Answer(e.status, e.code, "its own")

\* From 500 on, nothing of the exception is told.
AnswerHttp(e) ==
    CASE e.status >= 500 -> Answer(e.status, "SYS_UNKNOWN", "none")
      [] e.status < 500 /\ e.response = "messages" -> Answer(e.status, "REQ_VALIDATION_FAILED", "messages")
      [] e.status < 500 /\ e.response = "coded" -> Answer(e.status, e.code, "none")
      [] OTHER -> Answer(e.status, "SYS_UNKNOWN", "none")

\* mapTypeOrmError.
AnswerDatabase(e) ==
    CASE e.response = "EntityNotFoundError" -> Answer(404, "RES_NOT_FOUND", "none")
      [] e.response = "ER_DUP_ENTRY" -> Answer(409, "RES_ALREADY_EXISTS", "none")
      [] OTHER -> Answer(500, "SYS_DB_ERROR", "none")

\* Mutant: HttpException, which BusinessException extends, is asked for first.
CaughtAsHttp(e) ==
    CASE e.class \in {"business", "http"} -> AnswerHttp(e)
      [] e.class = "database" -> AnswerDatabase(e)
      [] OTHER -> Answer(500, "SYS_UNKNOWN", "none")

\* catch: the branches in their order.
Caught(e) ==
    CASE e.class = "business" -> AnswerBusiness(e)
      [] e.class = "http" -> AnswerHttp(e)
      [] e.class = "database" -> AnswerDatabase(e)
      [] OTHER -> Answer(500, "SYS_UNKNOWN", "none")

\* extractErrorCode: the code, else the error's own code or its name.
AuditedCode(e) == IF e.class = "business" THEN e.code ELSE e.response

\* The handler throws.
EndsIn(e) ==
    /\ outcome = NoOutcome
    /\ outcome' = [step |-> "answered", exception |-> e, answer |-> Caught(e), audited |-> AuditedCode(e)]
    /\ UNCHANGED <<registry, loaded>>

\* TransformInterceptor: an answer that has success, code and timestamp is left as it is, and any
\* other is data.
Succeeds ==
    /\ outcome = NoOutcome
    /\ \E code \in {"OK", "the handler's"} :
          outcome' = [step |-> "succeeded", answer |-> Answer(200, code, "data")]
    /\ UNCHANGED <<registry, loaded>>

AnswersNext ==
    \/ \E lib \in Libraries : LoadsLibrary(lib)
    \/ \E e \in BusinessExceptions \cup HttpExceptions \cup DatabaseErrors \cup Errors : EndsIn(e)
    \/ Succeeds

------------------------------------------------------------------------------
\* The code and the status of an answer agree, whatever the libraries that are loaded and their
\* order: the status is the one that every library with that code declares, unless Nest or Fastify
\* has ended the request with a status of its own.  The operation log has the same code as the
\* answer to a business exception, and a 5xx that is none has no details (AllExceptionsFilter,
\* BusinessException, registerErrorCodeHttpStatus).
CodeTellsStatus ==
    outcome.step = "answered" =>
        LET a == outcome.answer  e == outcome.exception IN
        /\ \A entry \in UNION Tables : a.code = entry[2] /\ e.class # "http" => a.status = entry[1]
        /\ e.class = "business" => outcome.audited = a.code /\ a.details = "its own"
        /\ a.status >= 500 /\ e.class # "business" => a.details = "none"
==============================================================================
