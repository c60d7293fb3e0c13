------------------------------ MODULE Providers ------------------------------
(* A callback and the provider: from an authorization code to a profile.        *)
(*                                                                            *)
(* SsoProviderService registers the providers that are configured,              *)
(* SsoAuthorizeService starts a flow at one of them and SsoCallbackService ends *)
(* it: the code is exchanged, the id_token verified, the claims of the account  *)
(* are fetched and brought into one form.  The module Sso takes the outcome for *)
(* granted (its Redeems and Verified); here it is what the adapters make of the *)
(* provider's answers.  One flow is followed; the code that comes back may be   *)
(* its own or that of another one.                                             *)
EXTENDS Naturals

VARIABLES app,      \* what SsoProviderService has made of the configuration
          exchange  \* the flow: what is kept under its state, the locals of its callback

providerVars == <<app, exchange>>

Names == {"oidc", "microsoft", "krafton"}

\* instanceof OidcSsoProvider: KraftonSsoProvider extends it.
OidcNames == {"oidc", "krafton"}

\* The redirectUri in the configuration; "off": there is no clientId.
Callbacks == {"off", "https", "http"}

Undefined == "absent"

NoToken == [sound |-> FALSE, sub |-> Undefined, nonce |-> Undefined, iat |-> Undefined]
NoClaims == [sub |-> Undefined, id |-> Undefined, user_id |-> Undefined, email |-> Undefined, email_verified |-> Undefined]
NoProfile == [user |-> Undefined, email |-> Undefined, verified |-> FALSE]

NoExchange == [step |-> "none", provider |-> "oidc", verifier |-> FALSE, code |-> "own",
               idToken |-> NoToken, claims |-> NoClaims, profile |-> NoProfile]

ProvidersInit ==
    /\ app = [started |-> "no", env |-> "development", callback |-> [p \in Names |-> "off"],
              scope |-> {}, pkce |-> FALSE]
    /\ exchange = NoExchange

------------------------------------------------------------------------------
(* SsoProviderService                                                          *)

\* assertSecureCallback: a provider without a redirectUri passes too.
InsecureAt(env, callback) == env = "production" /\ \E p \in Names : callback[p] = "http"

\* onModuleInit, with usePkce of the one provider that has it.
Boots ==
    /\ app.started = "no"
    /\ \E env \in {"production", "development"}, callback \in [Names -> Callbacks],
          scope \in SUBSET {"openid", "email"}, pkce \in BOOLEAN :
          app' = [started |-> IF InsecureAt(env, callback) THEN "failed" ELSE "yes",
                  env |-> env, callback |-> callback, scope |-> scope, pkce |-> pkce]
    /\ UNCHANGED exchange

Registered == {p \in Names : app.started = "yes" /\ app.callback[p] # "off"}

------------------------------------------------------------------------------
(* The provider                                                                *)

\* isPkceEnabled.
UsesPkce(p) == p = "krafton" /\ app.pkce

\* Mutant: the configured scope is all that is asked for.
ScopeAsConfigured(p) == app.scope

\* resolveScope.
Scope(p) == app.scope \cup {"openid"}

\* The id_tokens for a code: signed by the provider for this client or not, issued by a clock that
\* may be ahead of ours.
IdTokens(code) ==
    [sound : BOOLEAN, sub : {"subject", ""}, nonce : {code}, iat : {Undefined, "past", "soon", "future"}]

\* What an account can look like at the userinfo endpoint, and at Microsoft's /me: id, mail and
\* userPrincipalName.
Userinfo ==
    [sub : {Undefined, "", "subject"}, id : {Undefined, "subject"}, user_id : {Undefined, "subject"},
     email : {Undefined, "", "mail"}, email_verified : {Undefined, "true", "false", "'true'", "'false'"}]

Me == [id : {"subject"}, mail : {Undefined, "mail"}, userPrincipalName : {Undefined, "principal name"}]

------------------------------------------------------------------------------
(* SsoAuthorizeService and the provider's token endpoint                       *)

\* buildAuthorizeRedirect: a verifier and a nonce are kept under the state, the provider is told
\* the challenge and the nonce.
Authorizes ==
    /\ app.started = "yes" /\ exchange.step = "none"
    /\ \E p \in Registered :
          exchange' = [exchange EXCEPT !.step = "sent", !.provider = p, !.verifier = UsesPkce(p)]
    /\ UNCHANGED app

\* resolve: SSO_PROVIDER_NOT_SUPPORTED.
IsUnknown ==
    /\ app.started = "yes" /\ exchange.step = "none"
    /\ \E p \in Names \ Registered : exchange' = [exchange EXCEPT !.step = "refused", !.provider = p]
    /\ UNCHANGED app

\* exchangeCodeForTokens or exchangeCode.  The provider wants the verifier of the flow that the
\* code is from, and issues an id_token where the scope has openid.
TradesCode ==
    /\ exchange.step = "sent"
    /\ \E code \in {"own", "other"} :
          /\ exchange.verifier => code = "own"
          /\ \E token \in IF exchange.provider \in OidcNames /\ "openid" \in Scope(exchange.provider)
                          THEN IdTokens(code) ELSE {NoToken} :
                exchange' = [exchange EXCEPT !.step = "redeemed", !.code = code, !.idToken = token]
    /\ UNCHANGED app

\* httpPost, httpGet, jwtVerify: no answer within 15 s, or none that is ok.
Fails ==
    /\ exchange.step \in {"sent", "redeemed", "verified"}
    /\ exchange' = [exchange EXCEPT !.step = "refused"]
    /\ UNCHANGED app

------------------------------------------------------------------------------
(* SsoCallbackService.handleCallback                                           *)

\* verifyIdToken: what is signed must have a sub, this flow's nonce and an iat that is at most
\* 300 s ahead.
Verifies(token) ==
    /\ token.sound
    /\ token.sub # ""
    /\ token.nonce = "own"
    /\ token.iat # "future"

\* tokenSet.idToken && statePayload.nonce: every state has one.
ChecksToken ==
    /\ exchange.step = "redeemed"
    /\ exchange' = [exchange EXCEPT !.step =
           IF exchange.idToken # NoToken /\ ~Verifies(exchange.idToken) THEN "refused" ELSE "verified"]
    /\ UNCHANGED app

\* a ?? b
Or(a, b) == IF a # Undefined THEN a ELSE b

\* MicrosoftSsoProvider.fetchUserInfo.
FromMe(me) ==
    [sub |-> me.id, id |-> me.id, user_id |-> Undefined, email |-> Or(me.mail, me.userPrincipalName),
     email_verified |-> Undefined]

\* fetchUserInfo; KraftonSsoProvider repeats sub and email.
FetchesUserInfo ==
    /\ exchange.step = "verified"
    /\ \E claims \in IF exchange.provider = "microsoft" THEN {FromMe(me) : me \in Me} ELSE Userinfo :
          exchange' = [exchange EXCEPT !.step = "fetched", !.claims = claims]
    /\ UNCHANGED app

\* asString: nothing but a text with something in it.
AsString(value) == IF value = "" THEN Undefined ELSE value

\* normalize: an empty sub is an error, and the id is not asked for.
Normalizes ==
    LET claims == exchange.claims
        user == Or(claims.sub, Or(claims.id, claims.user_id)) IN
    /\ exchange.step = "fetched"
    /\ exchange' =
          IF user \in {Undefined, ""}
          THEN [exchange EXCEPT !.step = "refused"]
          ELSE [exchange EXCEPT !.step = "profile",
                                !.profile = [user |-> user, email |-> AsString(claims.email),
                                             verified |-> claims.email_verified \in {"true", "'true'"}]]
    /\ UNCHANGED app

ProvidersNext ==
    \/ Boots \/ Authorizes \/ IsUnknown \/ TradesCode \/ Fails
    \/ ChecksToken \/ FetchesUserInfo \/ Normalizes

------------------------------------------------------------------------------
\* A profile names somebody, and comes from a provider that may be called back; from an OIDC
\* provider only for a code of this very flow, by the verifier or by the nonce, with or without
\* PKCE and whatever scope is configured; and its e-mail counts as verified only where the provider
\* has said so, as a Boolean or as a text (OidcSsoProvider, ProviderProfileNormalizerService).
ProfileIsOfTheFlow ==
    exchange.step = "profile" =>
        LET profile == exchange.profile  p == exchange.provider IN
        /\ profile.user = "subject"
        /\ app.env = "production" => app.callback[p] = "https"
        /\ p \in OidcNames => exchange.code = "own"
        /\ profile.verified => p \in OidcNames /\ exchange.claims.email_verified \notin {"'false'", "false"}
==============================================================================
