------------------------ MODULE ProxySettings_proofs ------------------------
(***************************************************************************)
(* What the proxy section of the settings page promises, for any set of    *)
(* requests, stored values and override rules and any number of messages   *)
(* under way.                                                              *)
(***************************************************************************)
EXTENDS ProxySettings, TLAPS

(* The value an answer stores. *)
UserValue == {None} \cup Config
-----------------------------------------------------------------------------
(* The builder. *)
LEMMA AcceptedIsChecked ==
    ASSUME NEW checks, NEW v, Outcome(checks, v).ok = TRUE
    PROVE  Outcome(checks, v).value = v /\ \A k \in DOMAIN checks : ~checks[k].fails
<1>1. CASE \A k \in DOMAIN checks : ~checks[k].fails
  BY <1>1 DEF Outcome
<1>2. CASE ~\A k \in DOMAIN checks : ~checks[k].fails
  <2>1. Outcome(checks, v).ok = FALSE
    BY <1>2 DEF Outcome
  <2> QED
    BY <2>1
<1> QED
  BY <1>1, <1>2

LEMMA CheckFails ==
    ASSUME NEW b \in BOOLEAN, NEW field, NEW reason
    PROVE  Check(b, field, reason).fails = b
BY DEF Check

LEMMA PortFits == Ports \subseteq Int /\ \A p \in Ports : p % (kMaxPort + 1) = p
BY DEF Ports, kMaxPort

(* A valid endpoint whose host has no list syntax, path, space or control     *)
(* characters, escaped or not, and whose port is in range is the one typed.   *)
LEMMA EndpointIsAsTyped ==
    ASSUME NEW scheme, NEW host \in Host, NEW port \in Int, PortOk(port),
           IsValid(ProxyServer(scheme, host, port)),
           \A h \in {host, Unescape(host)} :
              ~HasListSyntax(h) /\ ~HasPath(h) /\ ~HasSpaceOrControl(h)
    PROVE  /\ ProxyServer(scheme, host, port) = [scheme |-> scheme, host |-> host, port |-> port]
           /\ port \in Ports
<1>1. port \in Ports /\ port % (kMaxPort + 1) = port
  BY PortFits DEF PortOk
<1>2. /\ host # "escapedList" /\ host # "escapedSpace" /\ host # "space"
      /\ host # "escapedPath"
  BY DEF Unescape, HasListSyntax, HasPath, HasSpaceOrControl
<1>3. Canonical(host) = host
  <2>1. host # "escapedUserinfo"
    <3>1. ProxyServer(scheme, host, port).host = Canonical(host)
      BY DEF ProxyServer
    <3>2. Canonical(host) # "userinfo"
      BY <3>1 DEF IsValid
    <3> QED
      BY <3>2 DEF Canonical, Unescape
  <2> QED
    BY <1>2, <2>1 DEF Canonical, Unescape
<1>4. ProxyServer(scheme, host, port) =
        [scheme |-> scheme, host |-> Canonical(host), port |-> port % (kMaxPort + 1)]
  BY DEF ProxyServer
<1>5. ProxyServer(scheme, host, port) = [scheme |-> scheme, host |-> host, port |-> port]
  <2>1. ASSUME NEW q, NEW c, q = port, c = host
        PROVE  [scheme |-> scheme, host |-> c, port |-> q]
                 = [scheme |-> scheme, host |-> host, port |-> port]
    BY <2>1, Zenon
  <2>2. port % (kMaxPort + 1) = port
    BY <1>1
  <2> QED
    BY <1>3, <1>4, <2>1, <2>2, Zenon
<1> QED
  BY <1>1, <1>5

(* What BuildManual accepts is one endpoint, stored as typed. *)
LEMMA ManualIsAsTyped ==
    ASSUME NEW i \in Fields, BuildManual(i).ok = TRUE
    PROVE  /\ BuildManual(i).value =
                [mode |-> "manual", bypass |-> i.bypass,
                 server |-> [scheme |-> i.scheme, host |-> i.host, port |-> i.port]]
           /\ i.port \in Ports
<1> DEFINE scheme == i.scheme
           host == i.host
           port == i.port
           bypass == i.bypass
           server == ProxyServer(scheme, host, port)
           hosts == {host, Unescape(host)}
           list == \E h \in hosts : HasListSyntax(h)
           other == \E h \in hosts : HasPath(h) \/ HasSpaceOrControl(h)
           range == ~PortOk(port)
           invalid == ~IsValid(server)
           checks ==
             <<Check(~ParseScheme(scheme), "scheme", "scheme"),
               Check(HasCredentials(host), "host",
                     IF scheme = "socks5" THEN "socks5_no_auth" ELSE "userinfo"),
               Check(list, "host", "list_syntax"),
               Check(host = "empty", "host", "host"),
               Check(other, "host", "not_an_endpoint"),
               Check(range, "port", "port"),
               Check(invalid, "host", "host"),
               Check(~SurvivesAsSingleEndpoint(server), "host", "list_syntax"),
               Check("bad" \in bypass, "bypass", "bad")>>
           v == [mode |-> "manual", server |-> server, bypass |-> bypass]
<1>1. BuildManual(i) = Outcome(checks, v)
  BY DEF BuildManual
<1>2. list \in BOOLEAN /\ other \in BOOLEAN /\ range \in BOOLEAN /\ invalid \in BOOLEAN
  OBVIOUS
<1>3. host \in Host /\ port \in Int
  BY DEF Fields
<1> HIDE DEF list, other, range, invalid, scheme, host, port, bypass
<1>4. /\ checks[3] = Check(list, "host", "list_syntax")
      /\ checks[5] = Check(other, "host", "not_an_endpoint")
      /\ checks[6] = Check(range, "port", "port")
      /\ checks[7] = Check(invalid, "host", "host")
      /\ {3, 5, 6, 7} \subseteq DOMAIN checks
  OBVIOUS
<1> HIDE DEF checks, v
<1>5. Outcome(checks, v).value = v /\ \A k \in DOMAIN checks : ~checks[k].fails
  BY <1>1, AcceptedIsChecked
<1>6. ~checks[3].fails /\ ~checks[5].fails /\ ~checks[6].fails /\ ~checks[7].fails
  BY <1>4, <1>5
<1>7. /\ checks[3].fails = list /\ checks[5].fails = other /\ checks[6].fails = range
      /\ checks[7].fails = invalid
  BY <1>2, <1>4, CheckFails
<1>8. ~list /\ ~other /\ ~range /\ ~invalid
  BY <1>2, <1>6, <1>7
<1>9. /\ PortOk(port) /\ IsValid(server)
      /\ \A h \in hosts : ~HasListSyntax(h) /\ ~HasPath(h) /\ ~HasSpaceOrControl(h)
  BY <1>8, Zenon DEF list, other, range, invalid
<1>10. server = [scheme |-> scheme, host |-> host, port |-> port] /\ port \in Ports
  <2>1. \A h \in {host, Unescape(host)} :
           ~HasListSyntax(h) /\ ~HasPath(h) /\ ~HasSpaceOrControl(h)
    BY <1>9
  <2>2. ProxyServer(scheme, host, port) = [scheme |-> scheme, host |-> host, port |-> port]
    BY <1>3, <1>9, <2>1, EndpointIsAsTyped, Zenon
  <2>3. port \in Ports
    BY <1>3, <1>9, <2>1, EndpointIsAsTyped, Zenon
  <2> QED
    BY <2>2, <2>3, Zenon
<1>11. BuildManual(i).value = [mode |-> "manual", bypass |-> bypass,
                               server |-> [scheme |-> scheme, host |-> host, port |-> port]]
  BY <1>1, <1>5, <1>10 DEF v
<1>12. port \in Ports
  BY <1>10
<1>13. i.port \in Ports
  BY <1>12, Zenon DEF port
<1>14. BuildManual(i).value = [mode |-> "manual", bypass |-> i.bypass,
         server |-> [scheme |-> i.scheme, host |-> i.host, port |-> i.port]]
  BY <1>11, Zenon DEF scheme, host, port, bypass
<1> QED
  BY <1>13, <1>14

(* The same of a PAC address. *)
LEMMA PacIsAsTyped ==
    ASSUME NEW i \in Fields, BuildPac(i).ok = TRUE
    PROVE  BuildPac(i).value = [mode |-> "pac", pac |-> i.pac,
                                mandatory |-> AskedMandatory(i)]
<1> DEFINE checks == <<Check(i.pac = "invalid", "pac_url", "pac_url"),
                       Check(i.pac = "ftp", "pac_url", "pac_scheme"),
                       Check(i.pac = "badData", "pac_url", "pac_data_url")>>
           v == [mode |-> "pac", pac |-> i.pac, mandatory |-> AskedMandatory(i)]
<1>1. BuildPac(i) = Outcome(checks, v)
  BY DEF BuildPac
<1> HIDE DEF checks, v
<1>2. Outcome(checks, v).value = v
  BY <1>1, AcceptedIsChecked
<1> QED
  BY <1>1, <1>2 DEF v

(* An answer that accepts stores what the fields ask for. *)
Read(f) == Asked([kind |-> "set", fields |-> f])

LEMMA BuildIsAsAsked ==
    ASSUME NEW f \in Fields, f.mode \in {"system", "direct", "manual", "pac"},
           Build(f).ok = TRUE
    PROVE  Build(f).value = Read(f) /\ Build(f).value \in UserValue
<1>1. CASE f.mode = "system"
  BY <1>1 DEF Build, Read, Asked, UserValue
<1>2. CASE f.mode = "direct"
  BY <1>2 DEF Build, Read, Asked, UserValue, Config
<1>3. CASE f.mode = "manual"
  <2> DEFINE v == [mode |-> "manual", bypass |-> f.bypass,
                   server |-> [scheme |-> f.scheme, host |-> f.host, port |-> f.port]]
  <2>1. Build(f) = BuildManual(f)
    BY <1>3 DEF Build
  <2>2. BuildManual(f).value = v /\ f.port \in Ports
    BY <2>1, ManualIsAsTyped
  <2>3. Read(f) = v
    BY <1>3 DEF Read, Asked
  <2>4. v \in Config
    <3>1. f.scheme \in Scheme /\ f.host \in Host /\ f.bypass \in SUBSET {"good", "bad"}
      BY DEF Fields
    <3> QED
      BY <2>2, <3>1 DEF Config
  <2> QED
    BY <2>1, <2>2, <2>3, <2>4 DEF UserValue
<1>4. CASE f.mode = "pac"
  <2> DEFINE v == [mode |-> "pac", pac |-> f.pac,
                   mandatory |-> AskedMandatory(f)]
  <2>1. Build(f) = BuildPac(f)
    BY <1>4 DEF Build
  <2>2. BuildPac(f).value = v
    BY <2>1, PacIsAsTyped
  <2>3. Read(f) = v
    <3>1. f.mandatory \in {"yes", "no", "absent"}
      BY DEF Fields, Mandatory
    <3> QED
      BY <1>4, <3>1 DEF Read, Asked, AskedMandatory
  <2>4. v \in Config
    <3>1. f.pac \in PacUrl /\ f.mandatory \in Mandatory
      BY DEF Fields
    <3>2. AskedMandatory(f) \in Mandatory
      BY <3>1 DEF AskedMandatory, Mandatory
    <3> QED
      BY <3>1, <3>2 DEF Config
  <2> QED
    BY <2>1, <2>2, <2>3, <2>4 DEF UserValue
<1> QED
  BY <1>1, <1>2, <1>3, <1>4

LEMMA CommitIsAsAsked ==
    ASSUME NEW f \in Fields, Commit(f).ok = TRUE
    PROVE  /\ ~otr /\ f.mode \in {"system", "direct", "manual", "pac"}
           /\ Commit(f) = Build(f)
           /\ Commit(f).value = Read(f) /\ Commit(f).value \in UserValue
<1>1. CanEdit
  <2>1. ~CanEdit => Commit(f).ok = FALSE
    BY DEF Commit, Error
  <2> QED
    BY <2>1
<1>2. f.mode \in {"system", "direct", "manual", "pac"}
  <2>1. f.mode \notin {"system", "direct", "manual", "pac"} => Commit(f).ok = FALSE
    BY <1>1 DEF Commit, ToOutcome, Error
  <2> QED
    BY <2>1
<1>3. Commit(f) = Build(f)
  BY <1>1, <1>2 DEF Commit, ToOutcome
<1> QED
  BY <1>1, <1>2, <1>3, BuildIsAsAsked DEF CanEdit

LEMMA OkIsBoolean == \A f \in Fields : Commit(f).ok \in BOOLEAN
<1> SUFFICES ASSUME NEW f \in Fields PROVE Commit(f).ok \in BOOLEAN
  OBVIOUS
<1>1. \A checks, v : Outcome(checks, v).ok \in BOOLEAN
  BY DEF Outcome
<1>2. \A field, reason : Error(field, reason).ok \in BOOLEAN
  BY DEF Error
<1>3. CASE CanEdit /\ f.mode = "manual"
  BY <1>1, <1>3 DEF Commit, ToOutcome, Build, BuildManual
<1>4. CASE CanEdit /\ f.mode = "pac"
  BY <1>1, <1>4 DEF Commit, ToOutcome, Build, BuildPac
<1>5. CASE CanEdit /\ f.mode \in {"system", "direct"}
  BY <1>5 DEF Commit, ToOutcome, Build
<1>6. CASE ~CanEdit \/ f.mode \notin {"system", "direct", "manual", "pac"}
  BY <1>2, <1>6 DEF Commit, ToOutcome
<1> QED
  BY <1>3, <1>4, <1>5, <1>6
-----------------------------------------------------------------------------
(* What every reachable state satisfies: a page that was shown a state listens *)
(* and is looking at the present one, and the user layer holds a configuration.*)
PInv ==
    /\ otr \in BOOLEAN /\ DOMAIN layer = Layer /\ layer["user"] \in UserValue
    /\ rules \in [configured : BOOLEAN, eligible : BOOLEAN,
                  owner : {"policy", "extension", "user"}]
    /\ page \in [allowed : BOOLEAN, shown : {None, BuildState}, waiting : Nat]
    /\ page.shown # None => page.allowed
    /\ inbox \in Seq(Requests) /\ Len(inbox) <= MaxInbox /\ page.waiting = Len(inbox)

LEMMA FieldsOf ==
    ASSUME NEW m \in Mode, NEW b \in SUBSET {"good", "bad"}, NEW p \in PacUrl,
           NEW md \in Mandatory, NEW s \in Scheme, NEW h \in Host, NEW n \in Int
    PROVE  [mode |-> m, bypass |-> b, pac |-> p, mandatory |-> md, scheme |-> s,
            host |-> h, port |-> n] \in Fields
BY DEF Fields

(* The form as shown is saved as it was, or refused; an endpoint of a scheme  *)
(* the form does not have is saved as an HTTP proxy at the same address.      *)
LEMMA SavingIsSafe == PInv => SavingTheShownFormKeepsIt
<1> SUFFICES ASSUME PInv PROVE SavingTheShownFormKeepsIt
  OBVIOUS
<1> DEFINE v == layer["user"]
           f == Shown(v)
           i == FormOf(f)
<1>1. v \in UserValue
  BY DEF PInv
<1> DEFINE exempt == v.mode = "manual" /\ v.server.scheme \notin Offered
<1> SUFFICES ASSUME Effective = "user", Commit(i).ok
             PROVE  /\ exempt => Commit(i).value = [v EXCEPT !.server.scheme = "http"]
                    /\ ~exempt => Effect(Commit(i).value) = Effect(v)
  BY DEF SavingTheShownFormKeepsIt
<1>2. v.mode # "none"
  BY DEF Effective, IsSet, Kind
<1>3. v \in Config
  BY <1>1, <1>2 DEF UserValue, None
<1>4. CASE v.mode \in {"system", "direct", "auto_detect"}
  <2>1. v \in [mode : {"system", "direct", "auto_detect"}]
    BY <1>3, <1>4 DEF Config
  <2>2. /\ f.mode = v.mode /\ f.server = None /\ f.bypass = {} /\ f.pac = "invalid"
        /\ f.mandatory = FALSE
    BY <1>4 DEF Shown, PacMandatory
  <2>3. i \in Fields /\ i.mode = v.mode
    <3>1. i = [mode |-> v.mode, bypass |-> {}, pac |-> "invalid", mandatory |-> "no",
               scheme |-> "http", host |-> "empty", port |-> -1]
      BY <2>2 DEF FormOf
    <3>2. /\ v.mode \in Mode /\ "invalid" \in PacUrl /\ "http" \in Scheme /\ "no" \in Mandatory
          /\ "empty" \in Host /\ -1 \in Int /\ {} \in SUBSET {"good", "bad"}
      BY <2>1 DEF PacUrl, Host, Mode, Scheme, Mandatory
    <3> HIDE DEF i
    <3> QED
      BY <3>1, <3>2, FieldsOf
  <2> HIDE DEF i
  <2>4. Commit(i).ok = TRUE
    BY <2>3, OkIsBoolean
  <2>5. i.mode \in {"system", "direct"} /\ Commit(i).value = Read(i)
    BY <1>4, <2>3, <2>4, CommitIsAsAsked
  <2>6. CASE i.mode = "system"
    BY <2>3, <2>5, <2>6 DEF Read, Asked, Effect, None
  <2>7. CASE i.mode = "direct"
    <3>1. v = [mode |-> "direct"]
      BY <2>1, <2>3, <2>7
    <3>2. Read(i) = [mode |-> "direct"]
      BY <2>7 DEF Read, Asked
    <3> QED
      BY <2>5, <3>1, <3>2
  <2> QED
    BY <2>5, <2>6, <2>7
<1>5. CASE v.mode = "pac"
  <2>1. v \in [mode : {"pac"}, pac : PacUrl, mandatory : Mandatory]
    BY <1>3, <1>5 DEF Config
  <2> DEFINE md == IF v.mandatory = "yes" THEN "yes" ELSE "no"
  <2>2. /\ f.mode = "pac" /\ f.server = None /\ f.bypass = {} /\ f.pac = v.pac
        /\ f.mandatory = (v.mandatory = "yes")
    BY <1>5 DEF Shown, PacMandatory
  <2>3. i \in Fields /\ i.mode = "pac" /\ i.pac = v.pac /\ i.mandatory = md
    <3>1. i = [mode |-> "pac", bypass |-> {}, pac |-> v.pac, mandatory |-> md,
               scheme |-> "http", host |-> "empty", port |-> -1]
      BY <2>2 DEF FormOf
    <3>2. /\ "pac" \in Mode /\ v.pac \in PacUrl /\ "http" \in Scheme /\ md \in Mandatory
          /\ "empty" \in Host /\ -1 \in Int /\ {} \in SUBSET {"good", "bad"}
      BY <2>1 DEF Host, Mode, Scheme, Mandatory
    <3> HIDE DEF i, md
    <3> QED
      BY <3>1, <3>2, FieldsOf
  <2> HIDE DEF i
  <2>4. Commit(i).ok = TRUE
    BY <2>3, OkIsBoolean
  <2>5. Commit(i).value = Read(i)
    BY <2>3, <2>4, CommitIsAsAsked
  <2>6. Read(i) = [mode |-> "pac", pac |-> v.pac, mandatory |-> md]
    BY <2>3 DEF Read, Asked
  <2>7. Effect(v) = [mode |-> "pac", pac |-> v.pac, mandatory |-> md]
    BY <2>1 DEF Effect
  <2>8. Effect(Read(i)) = Read(i)
    BY <2>6 DEF Effect
  <2> QED
    BY <1>5, <2>5, <2>6, <2>7, <2>8
<1>6. CASE v.mode = "manual"
  <2>1. v \in [mode : {"manual"}, bypass : SUBSET {"good", "bad"},
               server : [scheme : Scheme, host : Host, port : Ports]]
    BY <1>3, <1>6 DEF Config
  <2> DEFINE s == v.server
             sc == ShownScheme(s)
  <2>2. /\ f.mode = "manual" /\ f.bypass = v.bypass /\ f.pac = "invalid"
        /\ f.mandatory = FALSE /\ f.server \in {None, [s EXCEPT !.scheme = sc]}
    BY <1>6 DEF Shown, PacMandatory
  <2>3. CASE f.server = None
    <3>1. i \in Fields /\ i.mode = "manual" /\ i.port = -1
      <4>1. i = [mode |-> "manual", bypass |-> v.bypass, pac |-> "invalid",
                 mandatory |-> "no", scheme |-> "http", host |-> "empty", port |-> -1]
        BY <2>2, <2>3 DEF FormOf
      <4>2. /\ "manual" \in Mode /\ "invalid" \in PacUrl /\ "http" \in Scheme
            /\ "no" \in Mandatory
            /\ "empty" \in Host /\ -1 \in Int /\ v.bypass \in SUBSET {"good", "bad"}
        BY <2>1 DEF Host, PacUrl, Mode, Scheme, Mandatory
      <4> HIDE DEF i
      <4> QED
        BY <4>1, <4>2, FieldsOf
    <3> HIDE DEF i
    <3>2. Commit(i).ok = TRUE
      BY <3>1, OkIsBoolean
    <3>3. Commit(i) = Build(i) /\ Build(i) = BuildManual(i)
      BY <3>1, <3>2, CommitIsAsAsked DEF Build
    <3>4. i.port \in Ports
      BY <3>1, <3>2, <3>3, ManualIsAsTyped
    <3>5. \A p \in Ports : p > 0
      BY DEF Ports, kMaxPort
    <3> QED
      BY <3>1, <3>4, <3>5
  <2>4. CASE f.server # None
    <3>1. /\ s.scheme \in Scheme /\ s.host \in Host /\ s.port \in Int
          /\ v.bypass \in SUBSET {"good", "bad"} /\ sc \in {"http", "https", "socks5"}
      BY <2>1, PortFits DEF ShownScheme
    <3>2. f.server = [scheme |-> sc, host |-> s.host, port |-> s.port]
      BY <2>1, <2>2, <2>4
    <3>3. i = [mode |-> "manual", bypass |-> v.bypass, pac |-> "invalid", mandatory |-> "no",
               scheme |-> sc, host |-> s.host, port |-> s.port]
      BY <2>2, <2>4, <3>2 DEF FormOf
    <3> HIDE DEF i, sc
    <3>4. i \in Fields
      <4>1. "manual" \in Mode /\ "invalid" \in PacUrl /\ "no" \in Mandatory /\ sc \in Scheme
        BY <3>1 DEF PacUrl, Mode, Mandatory, Scheme
      <4> QED
        BY <3>1, <3>3, <4>1, FieldsOf
    <3>5. Commit(i).ok = TRUE
      BY <3>4, OkIsBoolean
    <3>6. Commit(i).value = Read(i)
      BY <3>4, <3>5, CommitIsAsAsked
    <3>7. Read(i) = [mode |-> "manual", bypass |-> v.bypass,
                     server |-> [scheme |-> sc, host |-> s.host, port |-> s.port]]
      BY <3>3 DEF Read, Asked
    <3>8. v = [mode |-> "manual", bypass |-> v.bypass,
               server |-> [scheme |-> s.scheme, host |-> s.host, port |-> s.port]]
      BY <2>1
    <3>9. CASE exempt
      <4>1. sc = "http"
        BY <3>1, <3>9 DEF sc, ShownScheme, Offered, ParseScheme
      <4>2. [v EXCEPT !.server.scheme = "http"] =
              [mode |-> "manual", bypass |-> v.bypass,
               server |-> [scheme |-> "http", host |-> s.host, port |-> s.port]]
        BY <2>1
      <4> QED
        BY <3>6, <3>7, <3>9, <4>1, <4>2
    <3>10. CASE ~exempt
      <4>1. sc = s.scheme
        BY <1>6, <3>1, <3>10 DEF sc, ShownScheme, Offered, ParseScheme
      <4> QED
        BY <3>6, <3>7, <3>8, <3>10, <4>1
    <3> QED
      BY <3>9, <3>10
  <2> QED
    BY <2>3, <2>4
<1> QED
  BY <1>3, <1>4, <1>5, <1>6 DEF Config

(* The form is editable exactly when an edit would be accepted, and a refusal *)
(* names the owner that is shown.                                             *)
LEMMA RefusalIsAttributed == otr \in BOOLEAN => RefusalMatchesAttribution
<1> SUFFICES ASSUME otr \in BOOLEAN PROVE RefusalMatchesAttribution
  OBVIOUS
<1> DEFINE answer == Commit([mode |-> "direct"])
<1>1. BuildState.canEdit = CanEdit
  BY DEF BuildState
<1>2. CASE CanEdit
  <2>1. answer.ok = TRUE
    BY <1>2 DEF Commit, ToOutcome, Build
  <2> QED
    BY <1>1, <1>2, <2>1 DEF RefusalMatchesAttribution
<1>3. CASE ~CanEdit
  <2>1. answer.ok = FALSE /\ answer.reason = RejectedBy
    BY <1>3 DEF Commit, Error
  <2>2. ~otr => RejectedBy = BaseOwner
    <3> HAVE ~otr
    <3>1. Effective \in {"policy", "extension", "commandLine"}
      BY <1>3 DEF CanEdit, IsUserModifiable, Effective
    <3>2. CASE Effective = "policy"
      <4>1. IsSet("policy")
        BY <3>2 DEF Effective
      <4> QED
        BY <4>1 DEF RejectedBy, BaseOwner
    <3>3. CASE Effective \in {"extension", "commandLine"}
      <4>1. ~IsSet("policy") /\ ~IsUserModifiable
        BY <3>3 DEF Effective, IsUserModifiable
      <4> QED
        BY <3>3, <4>1 DEF RejectedBy, BaseOwner
    <3> QED
      BY <3>1, <3>2, <3>3
  <2> QED
    BY <1>1, <1>3, <2>1, <2>2 DEF RefusalMatchesAttribution
<1> QED
  BY <1>2, <1>3

LEMMA PInvIsEnough == PInv => PageInv
<1> SUFFICES ASSUME PInv PROVE PageInv
  OBVIOUS
<1>1. TypeOK
  <2>1. layer["user"].mode = "manual" => layer["user"].server.port \in Ports
    BY DEF PInv, UserValue, None, Config
  <2>2. page.allowed \in BOOLEAN /\ page.waiting \in 0..MaxInbox
    BY ProxySettingsAssumption DEF PInv
  <2> QED
    BY <2>1, <2>2 DEF PInv, TypeOK
<1>2. ShownIsCurrent /\ PromisesAreKept
  BY DEF PInv, ShownIsCurrent, PromisesAreKept
<1> QED
  BY <1>1, <1>2, SavingIsSafe, RefusalIsAttributed DEF PageInv, PInv

LEMMA InitPInv == Init => PInv
<1> SUFFICES ASSUME Init PROVE PInv
  OBVIOUS
<1>1. DOMAIN layer = Layer /\ layer["user"] \in UserValue
  BY ProxySettingsAssumption DEF Init, UserValue
<1>2. page \in [allowed : BOOLEAN, shown : {None, BuildState}, waiting : Nat]
      /\ page.shown = None /\ page.waiting = 0
  BY DEF Init, NoPage
<1>3. inbox \in Seq(Requests) /\ Len(inbox) = 0
  BY DEF Init
<1> QED
  BY <1>1, <1>2, <1>3, ProxySettingsAssumption DEF Init, PInv
-----------------------------------------------------------------------------
(* The pages that PInv allows, as a set of the present state. *)
Pages(state) == [allowed : BOOLEAN, shown : {None, state}, waiting : Nat]

(* A message leaves the inbox and its promise is resolved. *)
LEMMA MessageTaken ==
    ASSUME PInv, inbox # <<>>
    PROVE  /\ Head(inbox) \in Messages /\ Tail(inbox) \in Seq(Requests)
           /\ Len(Tail(inbox)) = Len(inbox) - 1
           /\ page.waiting - 1 \in Nat /\ page.waiting - 1 = Len(Tail(inbox))
           /\ Len(Tail(inbox)) <= MaxInbox
<1>1. inbox \in Seq(Requests) /\ Len(inbox) <= MaxInbox /\ page.waiting = Len(inbox)
      /\ MaxInbox \in Nat
  BY ProxySettingsAssumption DEF PInv
<1>2. /\ Head(inbox) \in Requests /\ Tail(inbox) \in Seq(Requests)
      /\ Len(Tail(inbox)) = Len(inbox) - 1 /\ Len(inbox) \in Nat \ {0}
  BY <1>1
<1> QED
  BY <1>1, <1>2, ProxySettingsAssumption

(* A message is handled: the answer resolves its promise, and a change of the *)
(* user layer is shown.                                                       *)
LEMMA ReplyKeeps ==
    ASSUME PInv, inbox # <<>>, inbox' = Tail(inbox), UNCHANGED <<otr, rules>>, NEW outcome,
           Reply(outcome), outcome.ok \in BOOLEAN,
           outcome.ok = TRUE => outcome.value \in UserValue
    PROVE  PInv'
<1>1. DOMAIN layer' = Layer /\ layer'["user"] \in UserValue
  <2>1. DOMAIN layer = Layer /\ layer["user"] \in UserValue /\ "user" \in Layer
    BY DEF PInv, Layer
  <2>2. CASE outcome.ok = TRUE
    <3>1. layer' = [layer EXCEPT !["user"] = outcome.value]
      BY <2>2 DEF Reply
    <3> QED
      BY <2>1, <2>2, <3>1
  <2>3. CASE outcome.ok = FALSE
    <3>1. layer' = layer
      BY <2>3 DEF Reply
    <3> QED
      BY <2>1, <3>1
  <2> QED
    BY <2>2, <2>3
<1>2. page \in Pages(BuildState)
  BY DEF PInv, Pages
<1> DEFINE told == IF layer' # layer THEN BuildState' ELSE page.shown
<1>3. page' = [allowed |-> TRUE, shown |-> told, waiting |-> page.waiting - 1]
  BY <1>2 DEF Reply, Answered, Pages
<1>4. layer' = layer => BuildState' = BuildState
  BY DEF BuildState, Shown, Value, Effective, IsSet, BaseOwner, IsUserModifiable, RulesActive,
     CanEdit, PacMandatory, ShownScheme
<1>5. told \in {None, BuildState'}
  BY <1>2, <1>4 DEF Pages
<1> HIDE DEF told
<1>6. page' \in Pages(BuildState') /\ page'.allowed = TRUE /\ page'.waiting = page.waiting - 1
  BY <1>3, <1>5, MessageTaken DEF Pages
<1> QED
  BY <1>1, <1>6, MessageTaken DEF PInv, Pages

(* OnProxyPrefsChanged after a change of a watched preference.                *)
LEMMA NotifyKeeps ==
    ASSUME PInv, NEW p \in Watched, Notify(p), UNCHANGED <<otr, inbox>>,
           DOMAIN layer' = Layer, layer'["user"] \in UserValue,
           rules' \in [configured : BOOLEAN, eligible : BOOLEAN,
                       owner : {"policy", "extension", "user"}]
    PROVE  PInv'
<1>1. page \in Pages(BuildState) /\ (page.shown # None => page.allowed)
  BY DEF PInv, Pages
<1>2. CASE page.allowed
  <2>1. page' = [allowed |-> page.allowed, shown |-> BuildState', waiting |-> page.waiting]
    BY <1>1, <1>2 DEF Notify, Pages
  <2>2. page' \in Pages(BuildState') /\ page'.allowed = page.allowed
        /\ page'.waiting = page.waiting
    BY <1>1, <2>1 DEF Pages
  <2> QED
    BY <1>2, <2>2 DEF PInv, Pages
<1>3. CASE ~page.allowed
  <2>1. page' = page /\ page.shown = None
    BY <1>1, <1>3 DEF Notify
  <2>2. page' \in Pages(BuildState')
    BY <1>1, <2>1 DEF Pages
  <2> QED
    BY <2>1, <2>2 DEF PInv, Pages
<1> QED
  BY <1>2, <1>3

(* The page's messages, one by one. *)
LEMMA HandlersKeep ==
    ASSUME PInv, HandleGetState \/ HandleSet \/ HandleReset
    PROVE  PInv'
<1>1. CASE HandleGetState
  <2>1. page \in Pages(BuildState) /\ inbox # <<>>
    BY <1>1 DEF PInv, Pages, HandleGetState
  <2>2. page' = [allowed |-> TRUE, shown |-> BuildState, waiting |-> page.waiting - 1]
    BY <1>1, <2>1 DEF HandleGetState, Answered, Pages
  <2>3. BuildState' = BuildState
    BY <1>1 DEF HandleGetState, BuildState, Shown, Value, Effective, IsSet, BaseOwner,
       IsUserModifiable, RulesActive, CanEdit, PacMandatory, ShownScheme
  <2>4. page' \in Pages(BuildState') /\ page'.allowed = TRUE /\ page'.waiting = page.waiting - 1
    BY <2>1, <2>2, <2>3, MessageTaken DEF Pages
  <2> QED
    BY <1>1, <2>1, <2>4, MessageTaken DEF HandleGetState, PInv, Pages
<1>2. CASE HandleSet
  <2>1. /\ inbox # <<>> /\ Head(inbox).kind \in {"set", "malformed"} /\ inbox' = Tail(inbox)
        /\ UNCHANGED <<otr, rules>> /\ SetReply(Head(inbox))
    BY <1>2 DEF HandleSet
  <2>2. CASE Head(inbox).kind = "malformed"
    <3>1. Reply(Error("mode", "mode")) /\ Error("mode", "mode").ok = FALSE
      BY <2>1, <2>2 DEF SetReply, Error
    <3> QED
      BY <2>1, <3>1, ReplyKeeps
  <2>3. CASE Head(inbox).kind = "set"
    <3>1. Head(inbox).fields \in Fields
      BY <2>1, <2>3, MessageTaken DEF Messages
    <3>2. Reply(Commit(Head(inbox).fields))
      BY <2>1, <2>3 DEF SetReply
    <3> DEFINE outcome == Commit(Head(inbox).fields)
    <3>3. outcome.ok \in BOOLEAN /\ (outcome.ok = TRUE => outcome.value \in UserValue)
      BY <3>1, OkIsBoolean, CommitIsAsAsked
    <3> HIDE DEF outcome
    <3>4. Reply(outcome)
      BY <3>2 DEF outcome
    <3> QED
      BY <2>1, <3>3, <3>4, ReplyKeeps
  <2> QED
    BY <2>1, <2>2, <2>3
<1>3. CASE HandleReset
  <2>1. /\ inbox # <<>> /\ inbox' = Tail(inbox) /\ UNCHANGED <<otr, rules>>
        /\ Reply(ResetToSystem)
    BY <1>3 DEF HandleReset
  <2>2. /\ ResetToSystem.ok \in BOOLEAN
        /\ ResetToSystem.ok = TRUE => ResetToSystem.value \in UserValue
    BY DEF ResetToSystem, Error, UserValue
  <2> QED
    BY <2>1, <2>2, ReplyKeeps
<1> QED
  BY <1>1, <1>2, <1>3

(* Every step preserves the invariant. *)
LEMMA NextPInv == PInv /\ [Next]_vars => PInv'
<1> SUFFICES ASSUME PInv, [Next]_vars PROVE PInv'
  OBVIOUS
<1>1. UNCHANGED <<otr, layer, rules>> => BuildState' = BuildState
  BY DEF BuildState, Shown, Value, Effective, IsSet, BaseOwner, IsUserModifiable, RulesActive,
     CanEdit, PacMandatory, ShownScheme
<1>2. CASE UNCHANGED vars
  BY <1>1, <1>2 DEF PInv, vars
<1>3. ASSUME NEW m \in Requests, PageSends(m) PROVE PInv'
  <2>1. /\ inbox' \in Seq(Requests) /\ Len(inbox') = Len(inbox) + 1 /\ Len(inbox) \in Nat
        /\ Len(inbox') <= MaxInbox
    BY <1>3, ProxySettingsAssumption DEF PageSends, PInv
  <2>2. page \in Pages(BuildState) /\ BuildState' = BuildState
    BY <1>1, <1>3 DEF PInv, Pages, PageSends
  <2>3. page' = [allowed |-> page.allowed, shown |-> page.shown, waiting |-> page.waiting + 1]
    BY <1>3, <2>2 DEF PageSends, Pages
  <2>4. page' \in Pages(BuildState') /\ page'.waiting = page.waiting + 1
        /\ page'.shown = page.shown /\ page'.allowed = page.allowed
    BY <2>2, <2>3 DEF Pages
  <2> QED
    BY <1>3, <2>1, <2>4 DEF PInv, Pages, PageSends
<1>4. CASE PageReloads
  <2>1. /\ page' \in Pages(BuildState') /\ page'.shown = None /\ page'.waiting = 0
        /\ inbox' = <<>>
    BY <1>4 DEF PageReloads, NoPage, Pages
  <2> QED
    BY <1>4, <2>1, ProxySettingsAssumption DEF PageReloads, PInv, Pages
<1>5. ASSUME NEW l \in {"policy", "extension", "recommended"}, NEW v, LayerChanges(l, v)
      PROVE  PInv'
  <2>1. DOMAIN layer' = Layer /\ layer'["user"] = layer["user"] /\ "proxy" \in Watched
    BY <1>5 DEF LayerChanges, PInv, Watched, Layer
  <2> QED
    BY <1>5, <2>1, NotifyKeeps DEF LayerChanges, PInv
<1>6. ASSUME NEW configured \in BOOLEAN, NEW owner \in {"policy", "extension", "user"},
             RulesChange(configured, owner)
      PROVE  PInv'
  <2>1. rules' \in [configured : BOOLEAN, eligible : BOOLEAN,
                    owner : {"policy", "extension", "user"}]
    <3>1. rules' = [configured |-> configured, eligible |-> rules.eligible, owner |-> owner]
      BY <1>6 DEF RulesChange, PInv
    <3>2. rules.eligible \in BOOLEAN
      BY DEF PInv
    <3> QED
      BY <3>1, <3>2
  <2>2. "configured" \in Watched
    BY DEF Watched
  <2> QED
    BY <1>6, <2>1, <2>2, NotifyKeeps DEF RulesChange, PInv
<1>7. CASE EligibilityChanges
  <2>1. rules' \in [configured : BOOLEAN, eligible : BOOLEAN,
                    owner : {"policy", "extension", "user"}]
    BY <1>7 DEF EligibilityChanges, PInv
  <2>2. "eligible" \in Watched
    BY DEF Watched
  <2> QED
    BY <1>7, <2>1, <2>2, NotifyKeeps DEF EligibilityChanges, PInv
<1> QED
  BY <1>2, <1>3, <1>4, <1>5, <1>6, <1>7, HandlersKeep DEF Next

LEMMA PInvAlways == Spec => []PInv
BY InitPInv, NextPInv, PTL DEF Spec

(* Whatever the page sends and whoever changes a layer or a rule, the page    *)
(* sees the present state (OnProxyPrefsChanged), every handled message was    *)
(* answered, refusals name the owner that BuildState shows, and committing    *)
(* the form as shown changes nothing, except that an endpoint of a scheme     *)
(* outside the form's three, which BuildState shows as "http", becomes that.  *)
THEOREM PageIsSound == Spec => []PageInv
BY PInvAlways, PInvIsEnough, PTL

(* The user layer changes only when Commit or ResetToSystem accepts a message *)
(* of a regular profile, and then to exactly what the message asked for.      *)
THEOREM OnlyWhatWasAskedIsStored == Spec => ValueIsAsAsked
<1> DEFINE Asks == layer'["user"] # layer["user"]
                     => /\ ~otr /\ inbox # <<>> /\ inbox' = Tail(inbox)
                        /\ Head(inbox).kind \in {"set", "reset"}
                        /\ Head(inbox).kind = "set"
                             => Head(inbox).fields.mode \in {"system", "direct", "manual", "pac"}
                        /\ layer'["user"] = Asked(Head(inbox))
<1>1. PInv /\ [Next]_vars => Asks
  <2> SUFFICES ASSUME PInv, [Next]_vars, layer'["user"] # layer["user"]
               PROVE  /\ ~otr /\ inbox # <<>> /\ inbox' = Tail(inbox)
                      /\ Head(inbox).kind \in {"set", "reset"}
                      /\ Head(inbox).kind = "set"
                           => Head(inbox).fields.mode \in {"system", "direct", "manual", "pac"}
                      /\ layer'["user"] = Asked(Head(inbox))
    OBVIOUS
  <2>1. HandleSet \/ HandleReset
    <3>1. ASSUME NEW l \in {"policy", "extension", "recommended"}, NEW v, LayerChanges(l, v)
          PROVE  FALSE
      <4>1. layer'["user"] = layer["user"]
        BY <3>1 DEF LayerChanges, PInv, Layer
      <4> QED
        BY <4>1
    <3> QED
      BY <3>1 DEF Next, vars, PageSends, HandleGetState, PageReloads, RulesChange,
         EligibilityChanges
  <2>2. ASSUME NEW outcome, Reply(outcome), outcome.ok \in BOOLEAN
        PROVE  outcome.ok = TRUE /\ layer'["user"] = outcome.value
    <3>1. outcome.ok = TRUE
      BY <2>2 DEF Reply
    <3>2. layer' = [layer EXCEPT !["user"] = outcome.value] /\ "user" \in DOMAIN layer
      BY <2>2, <3>1 DEF Reply, PInv, Layer
    <3> QED
      BY <3>1, <3>2
  <2>3. CASE HandleReset
    <3>1. /\ inbox # <<>> /\ inbox' = Tail(inbox) /\ Head(inbox).kind = "reset"
          /\ Reply(ResetToSystem)
      BY <2>3 DEF HandleReset
    <3>2. ResetToSystem.ok \in BOOLEAN /\ (otr => ResetToSystem.ok = FALSE)
          /\ (~otr => ResetToSystem.value = None)
      BY DEF ResetToSystem, Error
    <3>3. ~otr /\ layer'["user"] = None
      BY <2>2, <3>1, <3>2
    <3>4. Asked(Head(inbox)) = None
      BY <3>1 DEF Asked
    <3> QED
      BY <3>1, <3>3, <3>4
  <2>4. CASE HandleSet
    <3> DEFINE m == Head(inbox)
               f == m.fields
    <3>1. /\ inbox # <<>> /\ inbox' = Tail(inbox) /\ m.kind \in {"set", "malformed"}
          /\ SetReply(m)
      BY <2>4 DEF HandleSet
    <3>2. m.kind # "malformed"
      <4>1. Error("mode", "mode").ok = FALSE
        BY DEF Error
      <4> QED
        BY <2>2, <3>1, <4>1 DEF SetReply
    <3>3. m.kind = "set" /\ Reply(Commit(f))
      BY <3>1, <3>2 DEF SetReply
    <3>4. m \in [kind : {"set"}, fields : Fields]
      BY <3>1, <3>3, MessageTaken DEF Messages
    <3>5. f \in Fields /\ m = [kind |-> "set", fields |-> f]
      BY <3>4
    <3>6. Commit(f).ok = TRUE /\ layer'["user"] = Commit(f).value
      BY <2>2, <3>3, <3>5, OkIsBoolean
    <3>7. ~otr /\ f.mode \in {"system", "direct", "manual", "pac"}
          /\ Commit(f).value = Asked(m)
      BY <3>5, <3>6, CommitIsAsAsked DEF Read
    <3> QED
      BY <3>1, <3>3, <3>6, <3>7
  <2> QED
    BY <2>1, <2>3, <2>4
<1>2. PInv /\ [Next]_vars =>
        [layer'["user"] # layer["user"]
         => /\ ~otr /\ inbox # <<>> /\ inbox' = Tail(inbox)
            /\ Head(inbox).kind \in {"set", "reset"}
            /\ Head(inbox).kind = "set"
                 => Head(inbox).fields.mode \in {"system", "direct", "manual", "pac"}
            /\ layer'["user"] = Asked(Head(inbox))]_vars
  BY <1>1
<1> QED
  BY <1>2, PInvAlways, PTL DEF Spec, ValueIsAsAsked
=============================================================================
