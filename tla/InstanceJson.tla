----------------------------- MODULE InstanceJson -----------------------------
(***************************************************************************)
(* How an InstanceInfo becomes JSON and JSON an InstanceInfo (s11n.h,      *)
(* s11n_types.h), and the answers to queries instances                     *)
(* (eureka_connect.cpp).  Of the fields one of each kind is kept; the      *)
(* others are converted by the same functions.  A shared_ptr is a          *)
(* sequence, empty or of what it points to.                                *)
(***************************************************************************)
EXTENDS Integers, Sequences, SequencesExt

CONSTANTS
  IntLimit, LongLimit,  \* the first int and the first int64_t there is not
  DoubleLimit,          \* up to it a double is exact
  EpsLimit              \* up to it a double notices 0.0000001 added to it

Limits == {IntLimit, LongLimit, DoubleLimit, EpsLimit}
ArePowersOfTwo == \A limit \in Limits : \E k \in 1 .. 63 : limit = 2 ^ k

ASSUME LimitsAssumption ==
  /\ Limits \subseteq Nat \ {0} /\ ArePowersOfTwo
  /\ IntLimit < DoubleLimit /\ EpsLimit < DoubleLimit /\ DoubleLimit < LongLimit

Signed(limit) == -limit .. limit - 1

Ptr(S) == {<<>>} \cup {<<x>> : x \in S}
Port == [port : Signed(IntLimit), enable : BOOLEAN]
LeaseInfo == [renewalIntervalInSecs : Signed(LongLimit)]
InstanceInfo ==
  [port : Ptr(Port), leaseInfo : Ptr(LeaseInfo), lastUpdatedTimestamp : Signed(LongLimit),
   status : STRING, actionType : STRING]

getEmptyIns(port, now) ==
  [port |-> <<[port |-> port, enable |-> TRUE]>>,
   leaseInfo |-> <<[renewalIntervalInSecs |-> 30]>>,
   lastUpdatedTimestamp |-> now, status |-> "UP", actionType |-> ""]

\* A JSON value is its kind and what it holds; strings of digits are a kind of their own.
null == <<"null">>
bool(b) == <<"bool", b>>
number(d) == <<"number", d>>
string(s) == <<"string", s>>
digits(n) == <<"digits", n>>
object(o) == <<"object", o>>
kind(j) == j[1]

-----------------------------------------------------------------------------
\* static_cast<int> of an int64_t.
asInt(n) == ((n + IntLimit) % (2 * IntLimit)) - IntLimit

\* A number m that is too large for a double: the nearest one, of two as near the one
\* whose last digit is even.
Rounded(m) ==
  LET ulp == 2 ^ (CHOOSE e \in 1 .. 63 :
                    DoubleLimit * 2 ^ (e - 1) <= m /\ m < DoubleLimit * 2 ^ e)
      down == m \div ulp
      rest == 2 * (m % ulp)
      up == rest > ulp \/ (rest = ulp /\ down % 2 = 1)
  IN  ulp * (IF up THEN down + 1 ELSE down)

\* static_cast<double>.
asDouble(n) ==
  CASE n > DoubleLimit -> Rounded(n)
    [] n < -DoubleLimit -> -Rounded(-n)
    [] OTHER -> n

ptr_to_json(p, converted) == IF p = <<>> THEN null ELSE object(converted)

port_to_json(p) == [port |-> number(p.port), enable |-> bool(p.enable)]
lease_to_json(l) == [renewalIntervalInSecs |-> number(asInt(l.renewalIntervalInSecs))]

\* "server do not accept actionType==''", which is sent as null.
to_json(i) ==
  object([port |-> ptr_to_json(i.port, port_to_json(i.port[1])),
          leaseInfo |-> ptr_to_json(i.leaseInfo, lease_to_json(i.leaseInfo[1])),
          lastUpdatedTimestamp |-> number(asDouble(i.lastUpdatedTimestamp)),
          status |-> string(i.status),
          actionType |-> IF i.actionType = "" THEN null ELSE string(i.actionType)])

-----------------------------------------------------------------------------
jtoi(j) ==
  CASE kind(j) \in {"number", "digits"} -> j[2]
    [] kind(j) = "bool" -> IF j[2] THEN 1 ELSE 0
    [] OTHER -> 0

\* static_cast<int64_t>(number + 0.0000001): towards zero, so that the sum of a
\* negative number, where it is not lost in rounding, comes out one too high.
jtoll(j) ==
  IF kind(j) = "number" /\ j[2] < 0 /\ j[2] > -EpsLimit THEN j[2] + 1 ELSE jtoi(j)

\* Mutated form: strings are not looked at.
jtobNoString(j) == kind(j) = "bool" /\ j[2]

jtob(j) ==
  CASE kind(j) = "bool" -> j[2]
    [] kind(j) = "number" -> j[2] # 0
    [] kind(j) = "string" -> j[2] = "true"
    [] OTHER -> FALSE

string_value(j) == IF kind(j) = "string" THEN j[2] ELSE ""

load_ptr(j, loaded) == IF j = null THEN <<>> ELSE <<loaded>>

load_port(o) == [port |-> jtoi(o.port), enable |-> jtob(o.enable)]
load_lease(o) == [renewalIntervalInSecs |-> jtoll(o.renewalIntervalInSecs)]
load_instance(o) ==
  [port |-> load_ptr(o.port, load_port(o.port[2])),
   leaseInfo |-> load_ptr(o.leaseInfo, load_lease(o.leaseInfo[2])),
   lastUpdatedTimestamp |-> jtoll(o.lastUpdatedTimestamp),
   status |-> string_value(o.status),
   actionType |-> string_value(o.actionType)]

\* The instance of {"instance": j}, those of {"application": {"instance": [...]}} and
\* those of {"applications": {"application": [...]}}, leaving out what is null.
toInstances(j) == load_ptr(j, load_instance(j[2]))
toAppInstances(js) == FlattenSeq([k \in DOMAIN js |-> toInstances(js[k])])
toAppsInstances(apps) == FlattenSeq([k \in DOMAIN apps |-> toAppInstances(apps[k])])

-----------------------------------------------------------------------------
\* The server may answer with strings where it was sent numbers and booleans.
ScalarAsString(j) ==
  CASE kind(j) = "number" -> digits(j[2])
    [] kind(j) = "bool" -> string(IF j[2] THEN "true" ELSE "false")
    [] OTHER -> j
FieldsAsStrings(j) ==
  IF kind(j) = "object" THEN object([f \in DOMAIN j[2] |-> ScalarAsString(j[2][f])])
  ELSE ScalarAsString(j)
AsStrings(j) == object([f \in DOMAIN j[2] |-> FieldsAsStrings(j[2][f])])

\* Numbers that survive: not negative, a double has their digits, and an int the period.
Survives(i) ==
  /\ i.lastUpdatedTimestamp \in 0 .. DoubleLimit
  /\ i.leaseInfo # <<>> => i.leaseInfo[1].renewalIntervalInSecs \in 0 .. IntLimit - 1
=============================================================================
