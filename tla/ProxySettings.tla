---------------------------- MODULE ProxySettings ----------------------------
(***************************************************************************)
(* The proxy section of the settings page: the validation of what the user *)
(* typed (proxy_config_builder.cc) and the page's message handler          *)
(* (roamux_proxy_handler.cc) over the layers of the proxy preference.      *)
(*                                                                         *)
(* The page's messages wait in an inbox while policy, extensions and the   *)
(* override rules change under it.  A host, a PAC address or a list entry  *)
(* is one of the kinds the checks tell apart.                              *)
(***************************************************************************)
EXTENDS Integers, Sequences

CONSTANTS
    Requests,         \* what the page may send
    UserValues,       \* configurations an earlier run may have left in the user layer
    OtherValues,      \* configurations the other layers may hold
    MaxInbox          \* bound on the messages under way

(* The kinds of a mode, a scheme, a host and a PAC address the checks tell apart, *)
(* and what a message of the page and a layer of the preference may hold.         *)
Host == {"plain", "ipv6", "empty", "userinfo", "escapedUserinfo", "list", "escapedList",
         "space", "escapedSpace", "path", "escapedPath", "malformed"}
Mode == {"system", "direct", "auto_detect", "manual", "pac", "typo"}
Scheme == {"http", "https", "socks5", "socks4"}
kMaxPort == 65535
Ports == 1..kMaxPort
PacUrl == {"http", "data", "invalid", "ftp", "badData"}
Mandatory == {"yes", "no", "absent"}   \* a key that need not be there

Fields == [mode : Mode, scheme : Scheme, host : Host, port : Int,
           bypass : SUBSET {"good", "bad"}, pac : PacUrl, mandatory : Mandatory]

Messages == [kind : {"getState", "reset", "malformed"}] \cup [kind : {"set"}, fields : Fields]

Config ==
    [mode : {"system", "direct", "auto_detect"}]
      \cup [mode : {"pac"}, pac : PacUrl, mandatory : Mandatory]
      \cup [mode : {"manual"}, bypass : SUBSET {"good", "bad"},
            server : [scheme : Scheme, host : Host, port : Ports]]

ASSUME ProxySettingsAssumption ==
    /\ Requests \subseteq Messages
    /\ UserValues \subseteq Config /\ OtherValues \subseteq Config
    /\ MaxInbox \in Nat

VARIABLES
    otr,       \* an off-the-record profile
    layer,     \* the value of each layer of the preference
    rules,     \* the override rules: configured, eligible, owner
    page,      \* allowed (javascript), shown (the last state it got), waiting (promises)
    inbox      \* the messages under way to the handler

vars == <<otr, layer, rules, page, inbox>>

Layer == {"policy", "extension", "commandLine", "user", "recommended"}
None == [mode |-> "none"]
Kind(v) == v.mode
-----------------------------------------------------------------------------
(* The preference service (external). *)
IsSet(l) == Kind(layer[l]) # "none"

(* The layer that decides, "default" when there is none. *)
Effective ==
    IF IsSet("policy") THEN "policy" ELSE IF IsSet("extension") THEN "extension"
    ELSE IF IsSet("commandLine") THEN "commandLine" ELSE IF IsSet("user") THEN "user"
    ELSE IF IsSet("recommended") THEN "recommended" ELSE "default"

Value == IF Effective = "default" THEN [mode |-> "system"] ELSE layer[Effective]
IsUserModifiable == Effective \in {"user", "recommended", "default"}
-----------------------------------------------------------------------------
(* proxy_config_builder.cc.  Hosts: "plain" and "ipv6" are endpoints; the others are *)
(* what a check is for.  UnescapeBinaryURLComponent turns %3B, %20, %2F and %40 into *)
(* text.                                                                             *)
Unescape(h) == CASE h = "escapedList" -> "list" [] h = "escapedSpace" -> "space"
                 [] h = "escapedPath" -> "path" [] h = "escapedUserinfo" -> "userinfo"
                 [] OTHER -> h

HasListSyntax(h) == h = "list"
HasCredentials(h) == h = "userinfo"
LeftToTheParser(h) == FALSE
HasSpaceOrControl(h) == h = "space"
HasPath(h) == h = "path"

ParseScheme(s) == s \in {"http", "https", "socks5"}

(* net::ProxyServer (external) unescapes the host and trims it: what was typed with  *)
(* a trailing newline becomes a plain host.                                          *)
Canonical(h) == IF Unescape(h) = "space" THEN "plain" ELSE Unescape(h)

ProxyServer(s, h, p) == [scheme |-> s, host |-> Canonical(h), port |-> p % (kMaxPort + 1)]
IsValid(server) == server.host \notin {"empty", "malformed", "path", "userinfo"}

(* ParseFromString on the canonical URI: list syntax makes more than one endpoint. *)
SurvivesAsSingleEndpoint(server) == ~HasListSyntax(server.host)

PortOk(p) == p \in Ports

(* A list of checks answers with the first that fails, or accepts the value. *)
Check(fails, field, reason) == [fails |-> fails, field |-> field, reason |-> reason]

Outcome(checks, v) ==
    IF \A k \in DOMAIN checks : ~checks[k].fails THEN [ok |-> TRUE, value |-> v]
    ELSE LET k == CHOOSE k \in DOMAIN checks :
                    checks[k].fails /\ \A j \in 1..(k - 1) : ~checks[j].fails
         IN  [ok |-> FALSE, field |-> checks[k].field, reason |-> checks[k].reason]

Error(field, reason) == [ok |-> FALSE, field |-> field, reason |-> reason]

BuildManual(i) ==
    LET server == ProxyServer(i.scheme, i.host, i.port)
        hosts == {i.host, Unescape(i.host)}
    IN  Outcome(
          <<Check(~ParseScheme(i.scheme), "scheme", "scheme"),
            Check(HasCredentials(i.host), "host",
                  IF i.scheme = "socks5" THEN "socks5_no_auth" ELSE "userinfo"),
            Check(\E h \in hosts : HasListSyntax(h), "host", "list_syntax"),
            Check(i.host = "empty", "host", "host"),
            Check(\E h \in hosts : HasPath(h) \/ HasSpaceOrControl(h), "host", "not_an_endpoint"),
            Check(~PortOk(i.port), "port", "port"),
            Check(~IsValid(server), "host", "host"),
            Check(~SurvivesAsSingleEndpoint(server), "host", "list_syntax"),
            Check("bad" \in i.bypass, "bypass", "bad")>>,
          [mode |-> "manual", server |-> server, bypass |-> i.bypass])

(* A message without the key asks for a mandatory script. *)
AskedMandatory(i) == IF i.mandatory = "absent" THEN "yes" ELSE i.mandatory

BuildPac(i) ==
    Outcome(<<Check(i.pac = "invalid", "pac_url", "pac_url"),
              Check(i.pac = "ftp", "pac_url", "pac_scheme"),
              Check(i.pac = "badData", "pac_url", "pac_data_url")>>,
            [mode |-> "pac", pac |-> i.pac, mandatory |-> AskedMandatory(i)])

(* Following the system clears the user layer instead of writing to it. *)
Build(i) == CASE i.mode = "system" -> [ok |-> TRUE, value |-> None]
              [] i.mode = "direct" -> [ok |-> TRUE, value |-> [mode |-> "direct"]]
              [] i.mode = "manual" -> BuildManual(i)
              [] i.mode = "pac"    -> BuildPac(i)
-----------------------------------------------------------------------------
(* What the page is shown. *)
BaseOwner ==
    IF IsSet("policy") THEN "policy"
    ELSE IF Effective = "extension" THEN "extension"
    ELSE IF ~IsUserModifiable THEN "command_line"
    ELSE IF ~IsSet("user") /\ IsSet("recommended") THEN "recommended"
    ELSE IF IsSet("user") /\ Value.mode # "system" THEN "roamux"
    ELSE "system"

CanEdit == IsUserModifiable /\ ~otr

(* The form's fields: one endpoint if the value has one, as "http" when its scheme  *)
(* is none the form has, and "mandatory" as the network layer reads it, where an    *)
(* absent key is no.                                                                *)
PacMandatory(v) == v.mode = "pac" /\ v.mandatory = "yes"

ShownScheme(server) == IF server.scheme \in {"https", "socks5"} THEN server.scheme ELSE "http"

Shown(v) ==
    [mode |-> v.mode,
     server |-> IF v.mode = "manual" /\ IsValid(v.server) /\ SurvivesAsSingleEndpoint(v.server)
                THEN [v.server EXCEPT !.scheme = ShownScheme(v.server)] ELSE None,
     bypass |-> IF v.mode = "manual" THEN v.bypass ELSE {},
     pac |-> IF v.mode = "pac" THEN v.pac ELSE "invalid",
     mandatory |-> PacMandatory(v)]

(* The rules apply when the engine's own reader says so. *)
RulesActive == rules.configured /\ rules.eligible

BuildState ==
    [form |-> Shown(Value), owner |-> BaseOwner,
     configured |-> rules.configured, active |-> RulesActive, rulesOwner |-> rules.owner,
     canEdit |-> CanEdit, canReset |-> ~otr, hasOurValue |-> IsSet("user")]

(* OnJavascriptAllowed: the preferences whose changes reach the page. *)
WatchesTheRulesOnly == {"proxy", "configured"}
Watched == {"proxy", "configured", "eligible"}

(* OnProxyPrefsChanged, after the change of preference p. *)
Notify(p) == IF page.allowed /\ p \in Watched
             THEN page' = [page EXCEPT !.shown = BuildState']
             ELSE UNCHANGED page
-----------------------------------------------------------------------------
(* Commit: the answer to a set of fields, and the user layer it leaves behind. *)
RejectedBy == IF otr THEN "incognito"
              ELSE IF IsSet("policy") THEN "policy"
              ELSE IF Effective = "extension" THEN "extension" ELSE "command_line"

ToOutcome(i) == IF i.mode \in {"system", "direct", "manual", "pac"} THEN Build(i)
                ELSE Error("mode", "mode")

Commit(i) == IF ~CanEdit THEN Error("mode", RejectedBy) ELSE ToOutcome(i)

ResetToSystem == IF otr THEN Error("mode", "incognito") ELSE [ok |-> TRUE, value |-> None]

(* AllowJavascript comes first, so a change of the preference notifies the page; the *)
(* answer then resolves its promise.                                                 *)
Answered(pg) == [pg EXCEPT !.waiting = @ - 1]

Reply(outcome) ==
    /\ layer' = IF outcome.ok THEN [layer EXCEPT !["user"] = outcome.value] ELSE layer
    /\ page' = Answered([page EXCEPT !.allowed = TRUE,
                           !.shown = IF layer' # layer THEN BuildState' ELSE @])

HandleGetState ==
    /\ inbox # <<>> /\ Head(inbox).kind = "getState"
    /\ inbox' = Tail(inbox)
    /\ page' = Answered([page EXCEPT !.allowed = TRUE, !.shown = BuildState])
    /\ UNCHANGED <<otr, layer, rules>>

(* A payload that is not a dictionary is answered with an error too. *)
SetReply(m) ==
    IF m.kind = "malformed" THEN Reply(Error("mode", "mode")) ELSE Reply(Commit(m.fields))

HandleSet ==
    /\ inbox # <<>> /\ Head(inbox).kind \in {"set", "malformed"}
    /\ inbox' = Tail(inbox)
    /\ UNCHANGED <<otr, rules>>
    /\ SetReply(Head(inbox))

HandleReset ==
    /\ inbox # <<>> /\ Head(inbox).kind = "reset"
    /\ inbox' = Tail(inbox)
    /\ UNCHANGED <<otr, rules>>
    /\ Reply(ResetToSystem)
-----------------------------------------------------------------------------
(* The page, and the world around the preference. *)
NoPage == [allowed |-> FALSE, shown |-> None, waiting |-> 0]

PageSends(m) ==
    /\ Len(inbox) < MaxInbox
    /\ inbox' = Append(inbox, m)
    /\ page' = [page EXCEPT !.waiting = @ + 1]
    /\ UNCHANGED <<otr, layer, rules>>

(* OnJavascriptDisallowed: a reload forgets the page and what it had sent. *)
PageReloads ==
    /\ page # NoPage
    /\ page' = NoPage /\ inbox' = <<>>
    /\ UNCHANGED <<otr, layer, rules>>

LayerChanges(l, v) ==
    /\ layer[l] # v
    /\ layer' = [layer EXCEPT ![l] = v]
    /\ UNCHANGED <<otr, rules, inbox>>
    /\ Notify("proxy")

RulesChange(configured, owner) ==
    /\ rules' = [rules EXCEPT !.configured = configured, !.owner = owner] /\ rules' # rules
    /\ UNCHANGED <<otr, layer, inbox>>
    /\ Notify("configured")

EligibilityChanges ==
    /\ rules' = [rules EXCEPT !.eligible = ~@]
    /\ UNCHANGED <<otr, layer, inbox>>
    /\ Notify("eligible")

Init ==
    /\ otr \in BOOLEAN
    /\ layer \in [Layer -> {None} \cup UserValues \cup OtherValues]
    /\ layer["user"] \in {None} \cup UserValues
    /\ \A l \in Layer \ {"user", "commandLine"} : layer[l] = None
    /\ layer["commandLine"] \in {None} \cup OtherValues
    /\ rules = [configured |-> FALSE, eligible |-> FALSE, owner |-> "user"]
    /\ page = NoPage /\ inbox = <<>>

Next ==
    \/ \E m \in Requests : PageSends(m)
    \/ HandleGetState \/ HandleSet \/ HandleReset \/ PageReloads
    \/ \E l \in {"policy", "extension", "recommended"}, v \in {None} \cup OtherValues :
          LayerChanges(l, v)
    \/ \E configured \in BOOLEAN, owner \in {"policy", "extension", "user"} :
          RulesChange(configured, owner)
    \/ EligibilityChanges

Spec == Init /\ [][Next]_vars
-----------------------------------------------------------------------------
(* Every variable has its type. *)
TypeOK ==
    /\ otr \in BOOLEAN /\ DOMAIN layer = Layer
    /\ rules \in [configured : BOOLEAN, eligible : BOOLEAN, owner : {"policy", "extension", "user"}]
    /\ page.allowed \in BOOLEAN /\ page.waiting \in 0..MaxInbox
    /\ inbox \in Seq(Requests) /\ Len(inbox) <= MaxInbox
    /\ layer["user"].mode = "manual" => layer["user"].server.port \in Ports

(* A page that has been shown a state is always looking at the present one, whatever *)
(* layer or rule changed and whoever changed it.                                     *)
ShownIsCurrent == page.shown # None => page.shown = BuildState

(* Every message that was handled has been answered, malformed ones included.        *)
PromisesAreKept == page.waiting = Len(inbox)

(* The form is editable exactly when a valid edit would be accepted, and the reason  *)
(* of a refusal names the owner the page shows.                                      *)
RefusalMatchesAttribution ==
    LET answer == Commit([mode |-> "direct"])
    IN  /\ answer.ok <=> BuildState.canEdit
        /\ ~answer.ok /\ ~otr => answer.reason = BaseOwner

(* What the text of a message asks for, read without the builder: the endpoint as     *)
(* typed, every bypass entry, the PAC address.                                        *)
Asked(m) ==
    IF m.kind = "reset" \/ m.fields.mode = "system" THEN None
    ELSE LET f == m.fields IN
         CASE f.mode = "direct" -> [mode |-> "direct"]
           [] f.mode = "manual" -> [mode |-> "manual", bypass |-> f.bypass,
                server |-> [scheme |-> f.scheme, host |-> f.host, port |-> f.port]]
           [] f.mode = "pac" -> [mode |-> "pac", pac |-> f.pac,
                                 mandatory |-> IF f.mandatory = "no" THEN "no" ELSE "yes"]

(* The user layer changes only when a message of a regular profile is handled, and    *)
(* then to exactly what that message asked for: never to something trimmed, wrapped   *)
(* around, dropped from or read into the fields.                                      *)
ValueIsAsAsked ==
    [][layer'["user"] # layer["user"]
         => /\ ~otr /\ inbox # <<>> /\ inbox' = Tail(inbox)
            /\ Head(inbox).kind \in {"set", "reset"}
            /\ Head(inbox).kind = "set"
                 => Head(inbox).fields.mode \in {"system", "direct", "manual", "pac"}
            /\ layer'["user"] = Asked(Head(inbox))]_vars

(* What the network layer does with a value: an absent "mandatory" allows fallback.   *)
Effect(v) == IF v.mode = "pac" THEN [v EXCEPT !.mandatory = IF @ = "yes" THEN @ ELSE "no"]
             ELSE IF v.mode = "system" THEN None ELSE v

(* What the page sends when the form is saved as it was filled in. *)
FormOf(f) ==
    [mode |-> f.mode, bypass |-> f.bypass, pac |-> f.pac,
     mandatory |-> IF f.mandatory THEN "yes" ELSE "no",
     scheme |-> IF f.server = None THEN "http" ELSE f.server.scheme,
     host   |-> IF f.server = None THEN "empty" ELSE f.server.host,
     port   |-> IF f.server = None THEN -1 ELSE f.server.port]

(* The schemes the form has (proxy_config_builder.cc:57). *)
Offered == {s \in Scheme : ParseScheme(s)}

(* Saving the form exactly as it is shown changes nothing the network layer can tell: *)
(* the same endpoint, list and fallback are stored, or the save is refused and a      *)
(* value the form cannot show stays.  The exception is an endpoint of a scheme the    *)
(* form does not have: it is shown, and saved, as an HTTP proxy at the same address.  *)
SavingTheShownFormKeepsIt ==
    LET v == layer["user"]
        saved == Commit(FormOf(Shown(v)))
    IN  Effective = "user" /\ saved.ok =>
            IF v.mode = "manual" /\ v.server.scheme \notin Offered
            THEN saved.value = [v EXCEPT !.server.scheme = "http"]
            ELSE Effect(saved.value) = Effect(v)

(* Between any two messages the page sees the present state, is owed no answer but    *)
(* those of the inbox, and can trust what it shows: who owns the setting, and that    *)
(* saving the form as it is changes nothing but a scheme the form does not have.      *)
PageInv ==
    /\ TypeOK
    /\ ShownIsCurrent
    /\ PromisesAreKept
    /\ RefusalMatchesAttribution
    /\ SavingTheShownFormKeepsIt
=============================================================================
