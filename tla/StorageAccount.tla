---------------------------- MODULE StorageAccount ----------------------------
(***************************************************************************)
(* Storage accounts (azure_storageaccount.go).  EnsureStorageAccount finds *)
(* an account that has what is asked for or makes one, in a row of remote  *)
(* calls that no lock protects: callers interleave, any call may fail, and *)
(* a failed caller starts again.  The tags of an account are changed under *)
(* a lock, through a cache.                                                *)
(***************************************************************************)
EXTENDS Naturals, FiniteSets, Sequences

CONSTANTS
    Caller, Tagger,   \* who asks for accounts, who changes tags (of its own)
    Account, Named,   \* names of accounts; those that callers give
    StNil,
    StPlans,          \* the scenarios: records of type StPlan
    MaxStCalls        \* bound on the calls of all callers together

\* kind stands for all that Create sends and the list shows (type, kind,
\* location, network rules, the switches of the account), 0 for not asked.
\* soft is the data protection of blobs, multi and keep are properties of the
\* file service (SMB multichannel, retention of deleted shares).
Setting == {"unset", "on", "off"}
Option == [name : Named \cup {StNil}, create : BOOLEAN, kind : 0..2, soft : BOOLEAN,
           multi : Setting, keep : Setting, tier : BOOLEAN, endpoint : {"unset", "yes", "no"},
           matchTags : BOOLEAN, random : BOOLEAN, source : Account \cup {StNil}]
AccountRecord == [kind : 1..2, soft : BOOLEAN, multi : Setting, keep : Setting,
                  tier : BOOLEAN, endpoint : BOOLEAN, group : BOOLEAN, tags : SUBSET (Tagger \cup {"skip", "driver"})]

\* What each caller may ask, which accounts exist, how many calls fail, and
\* whether tags are changed.
StPlan == [asks : [Caller -> SUBSET Option], given : [Account -> AccountRecord \cup {StNil}],
           tagged : Account \cup {StNil}, faults : Nat]

\* Tags: one of each tagger, the one by which a search leaves an account out, and the
\* one by which a driver knows its own.
TagSets == SUBSET (Tagger \cup {"skip", "driver"})

ASSUME StNames == Named \subseteq Account
ASSUME StPlansAssumption == StPlans \subseteq StPlan /\ MaxStCalls \in Nat
ASSUME StNilAssumption ==
    /\ Tagger \cap {"skip", "driver"} = {}
    /\ StNil \notin Account \cup Tagger \cup Setting \cup AccountRecord
    /\ \A tags \in TagSets : tags # StNil

VARIABLES
    stplan,
    accounts,           \* Azure: the accounts
    zone, link,         \* Azure: the private DNS zone and its link
    fileCache,          \* fileServicePropertiesCache: the setting of multichannel
    tagCache,           \* storageAccountCache: the tags
    calls,              \* the call of each caller
    lockOf, tagging,    \* lockMap's entry of the tagged account; the taggers
    due,                \* what each tagger's last call promised of its tag
    served,             \* the options served so far, with their account
    stfaults, ncalls

stvars == <<stplan, accounts, zone, link, fileCache, tagCache, calls, lockOf, tagging, due,
            served, stfaults, ncalls>>

Waiting == [pc |-> "idle"]
CallSteps == <<"zone", "makezone", "link", "makelink", "create", "blob", "getfile", "setfile",
               "endpoint", "group", "key">>

StTypeOK ==
    /\ stplan \in StPlans
    /\ accounts \in [Account -> AccountRecord \cup {StNil}]
    /\ zone \in BOOLEAN /\ link \in BOOLEAN
    /\ fileCache \in [Account -> Setting \cup {StNil}]
    /\ tagCache \in TagSets \cup {StNil}
    /\ \A c \in Caller : calls[c].pc \in {"idle", "exists", "list", "match"} \cup {CallSteps[i] : i \in 1..Len(CallSteps)}
    /\ lockOf \in Tagger \cup {StNil}
    /\ \A t \in Tagger : tagging[t].pc \in {"idle", "read", "update"}
    /\ due \in [Tagger -> {"in", "out", "unknown"}]
    /\ stfaults \in 0..stplan.faults /\ ncalls \in 0..MaxStCalls

StInit ==
    /\ stplan \in StPlans
    /\ accounts = stplan.given
    /\ zone = FALSE /\ link = FALSE
    /\ fileCache = [a \in Account |-> StNil] /\ tagCache = StNil
    /\ calls = [c \in Caller |-> Waiting]
    /\ lockOf = StNil /\ tagging = [t \in Tagger |-> Waiting]
    /\ due = [t \in Tagger |-> "out"]
    /\ served = {} /\ stfaults = 0 /\ ncalls = 0
------------------------------------------------------------------------------
StAnswer == {"ok"} \cup IF stfaults < stplan.faults THEN {"error"} ELSE {}
StCounted(r) == stfaults' = IF r = "ok" THEN stfaults ELSE stfaults + 1

\* The conditions under which EnsureStorageAccount takes each of its steps;
\* a zone or link is made only when the look-up before finds none.
Needed(r, s) ==
    CASE s \in {"zone", "link", "endpoint", "group"} -> r.o.endpoint = "yes"
      [] s = "create"                          -> r.new
      [] s = "blob"                            -> r.new /\ r.o.soft
      [] s \in {"getfile", "setfile"}          -> r.new /\ (r.o.multi # "unset" \/ r.o.keep # "unset")
      [] s \in {"makezone", "makelink"}        -> FALSE
      [] OTHER                                 -> TRUE

Index(s) == CHOOSE i \in 1..Len(CallSteps) : CallSteps[i] = s
Later(r, i) == CHOOSE j \in (i + 1)..Len(CallSteps) :
                  Needed(r, CallSteps[j]) /\ \A k \in (i + 1)..(j - 1) : ~Needed(r, CallSteps[k])
\* r after its step i: at the next step it needs.
Advance(r, i) == [r EXCEPT !.pc = CallSteps[Later(r, i)]]

At(c, s) == calls[c].pc = s
Move(c, r) == calls' = [calls EXCEPT ![c] = r]
\* The call goes on when the remote call succeeds and fails with it.
AfterStep(c, r) == Move(c, IF r = "ok" THEN Advance(calls[c], Index(calls[c].pc)) ELSE Waiting)
Unmade == {a \in Account \ Named : accounts[a] = StNil /\ \A c \in Caller : At(c, "idle") \/ calls[c].acct # a}

Tags == <<tagCache, lockOf, tagging, due>>

\* The first lines of EnsureStorageAccount; a generated name is new.
EnsureStorageAccount(c) ==
    /\ At(c, "idle") /\ ncalls < MaxStCalls /\ ncalls' = ncalls + 1
    /\ \E o \in stplan.asks[c] :
          LET start(a, new) == [pc |-> "start", o |-> o, acct |-> a, new |-> new, known |-> {}, cand |-> {}]
          IN IF o.name # StNil
             THEN Move(c, IF o.create THEN [start(o.name, FALSE) EXCEPT !.pc = "exists"]
                          ELSE Advance(start(o.name, FALSE), 0))
             ELSE IF o.create
             THEN \E a \in Unmade : Move(c, Advance(start(a, TRUE), 0))
             ELSE Move(c, [start(StNil, FALSE) EXCEPT !.pc = "list"])
    /\ UNCHANGED <<stplan, accounts, zone, link, fileCache, served, stfaults, Tags>>

\* Any failure to read the key of a named account makes it be created.
AccountExists(c) ==
    /\ At(c, "exists")
    /\ \E r \in StAnswer :
          /\ Move(c, Advance([calls[c] EXCEPT !.new = r = "error" \/ accounts[calls[c].acct] = StNil], 0))
          /\ StCounted(r)
    /\ UNCHANGED <<stplan, accounts, zone, link, fileCache, served, ncalls, Tags>>

\* The predicates on what the list shows.
Listed(o, a) ==
    /\ o.kind \in {0, a.kind}
    /\ o.matchTags => "driver" \in a.tags
    /\ "skip" \notin a.tags
    /\ o.tier => a.tier
    /\ o.endpoint = "unset" \/ (o.endpoint = "yes") = a.endpoint

\* getStorageAccounts, the list.  known: the accounts that have served these
\* options and are not marked since.
ListAccounts(c) ==
    /\ At(c, "list")
    /\ \E r \in StAnswer :
          /\ Move(c, IF r = "error" THEN Waiting
                     ELSE [calls[c] EXCEPT !.pc = "match",
                             !.cand = {a \in Account : accounts[a] # StNil /\ Listed(calls[c].o, accounts[a])},
                             !.known = {a \in Account : [o |-> calls[c].o, a |-> a] \in served /\ "skip" \notin accounts[a].tags}])
          /\ StCounted(r)
    /\ UNCHANGED <<stplan, accounts, zone, link, fileCache, served, ncalls, Tags>>

\* A setting that was never made counts as its default.
Agrees(asked, actual, default) == asked = "unset" \/ asked = IF actual = "unset" THEN default ELSE actual

CachedMulti(a) == IF fileCache[a] = StNil THEN accounts[a].multi ELSE fileCache[a]

\* The predicates that ask the services, multichannel from the cache.
ServicesAgree(o, a) ==
    /\ Agrees(o.multi, CachedMulti(a), "off")
    /\ Agrees(o.keep, accounts[a].keep, "on")
    /\ o.soft => accounts[a].soft

\* getStorageAccounts, the rest: stops at the first match, in the order of the
\* list, or takes one of all; the source account is preferred.
MatchAccounts(c) ==
    /\ At(c, "match")
    /\ LET o == calls[c].o
           match == {a \in calls[c].cand : ServicesAgree(o, a)}
       IN \E r \in StAnswer, probed \in SUBSET calls[c].cand :
             /\ IF o.random \/ match = {} THEN probed = calls[c].cand ELSE Cardinality(probed \cap match) = 1
             /\ fileCache' = [a \in Account |-> IF a \in probed /\ o.multi # "unset" THEN CachedMulti(a) ELSE fileCache[a]]
             /\ StCounted(r)
             /\ IF r = "error" THEN Move(c, Waiting)
                ELSE IF match = {}
                THEN \E a \in Unmade : Move(c, Advance([calls[c] EXCEPT !.acct = a, !.new = TRUE], 0))
                ELSE \E a \in probed \cap match :
                        /\ o.source \in probed \cap match => a = o.source
                        /\ Move(c, Advance([calls[c] EXCEPT !.acct = a], 0))
    /\ UNCHANGED <<stplan, accounts, zone, link, served, ncalls, Tags>>

\* The private DNS zone and its link to the network: made when not found.
Find(c, s, there) ==
    /\ At(c, s)
    /\ \E r \in StAnswer :
          /\ IF r = "ok" /\ ~there THEN Move(c, [calls[c] EXCEPT !.pc = CallSteps[Index(s) + 1]]) ELSE AfterStep(c, r)
          /\ StCounted(r)
    /\ UNCHANGED <<stplan, accounts, zone, link, fileCache, served, ncalls, Tags>>
FindZone(c) == Find(c, "zone", zone)
FindLink(c) == Find(c, "link", link)

\* A zone another caller has just made "exists already": no error.
createPrivateDNSZone(c) ==
    /\ At(c, "makezone")
    /\ \E r \in StAnswer : zone' = (zone \/ r = "ok") /\ AfterStep(c, r) /\ StCounted(r)
    /\ UNCHANGED <<stplan, accounts, link, fileCache, served, ncalls, Tags>>

createVNetLink(c) ==
    /\ At(c, "makelink")
    /\ \E r \in StAnswer : link' = (link \/ r = "ok") /\ AfterStep(c, r) /\ StCounted(r)
    /\ UNCHANGED <<stplan, accounts, zone, fileCache, served, ncalls, Tags>>

\* Create: the access tier is put into the parameters only after they were
\* sent; the tags of an account that exists are replaced.
Created(o, old) ==
    LET kind == IF o.kind = 0 THEN 1 ELSE o.kind
    IN IF old # StNil THEN [old EXCEPT !.kind = kind, !.tags = {"driver"}]
       ELSE [kind |-> kind, soft |-> FALSE, multi |-> "unset", keep |-> "unset",
             tier |-> FALSE, endpoint |-> FALSE, group |-> FALSE, tags |-> {"driver"}]

Current(c) == accounts[calls[c].acct]

WriteAccount(c, step, rec) ==
    /\ At(c, step)
    /\ \E r \in StAnswer :
          /\ accounts' = IF r = "ok" THEN [accounts EXCEPT ![calls[c].acct] = rec] ELSE accounts
          /\ AfterStep(c, r) /\ StCounted(r)
    /\ UNCHANGED <<stplan, zone, link, fileCache, served, ncalls, Tags>>

CreateAccount(c) == WriteAccount(c, "create", Created(calls[c].o, Current(c)))
SetBlobProperties(c) == WriteAccount(c, "blob", [Current(c) EXCEPT !.soft = TRUE])
SetFileProperties(c) ==
    LET o == calls[c].o
    IN WriteAccount(c, "setfile",
          [Current(c) EXCEPT !.multi = IF o.multi = "unset" THEN @ ELSE o.multi,
                             !.keep = IF o.keep = "unset" THEN @ ELSE o.keep])

\* The properties read are the cached object: they are changed in the cache
\* before they are sent.
GetFileProperties(c) ==
    /\ At(c, "getfile")
    /\ \E r \in StAnswer :
          /\ fileCache' = IF r = "ok" THEN [fileCache EXCEPT ![calls[c].acct] = calls[c].o.multi] ELSE fileCache
          /\ AfterStep(c, r) /\ StCounted(r)
    /\ UNCHANGED <<stplan, accounts, zone, link, served, ncalls, Tags>>

\* GetProperties of the account, its subnet and then the endpoint; a
\* named account that does not exist ends the call.
createPrivateEndpoint(c) ==
    IF At(c, "endpoint") /\ accounts[calls[c].acct] = StNil
    THEN Move(c, Waiting) /\ UNCHANGED <<stplan, accounts, zone, link, fileCache, served, stfaults, ncalls, Tags>>
    ELSE WriteAccount(c, "endpoint", [Current(c) EXCEPT !.endpoint = TRUE])
createPrivateDNSZoneGroup(c) == WriteAccount(c, "group", [Current(c) EXCEPT !.group = TRUE])

\* GetStorageAccesskey, and the call returns.
GetStorageAccesskey(c) ==
    /\ At(c, "key")
    /\ \E r \in StAnswer :
          /\ served' = IF r = "ok" /\ accounts[calls[c].acct] # StNil
                       THEN served \cup {[o |-> calls[c].o, a |-> calls[c].acct]} ELSE served
          /\ StCounted(r)
    /\ Move(c, Waiting)
    /\ UNCHANGED <<stplan, accounts, zone, link, fileCache, ncalls, Tags>>

ExpireFile(a) ==
    /\ fileCache[a] # StNil /\ fileCache' = [fileCache EXCEPT ![a] = StNil]
    /\ UNCHANGED <<stplan, accounts, zone, link, calls, served, stfaults, ncalls, Tags>>
------------------------------------------------------------------------------
(* AddStorageAccountTags and RemoveStorageAccountTag, each tagger with a tag *)
(* of its own on one account. *)
Ensuring == <<stplan, zone, link, fileCache, calls, served>>

\* Mutant: the entry of the account is not locked.
BugLockEntry(t) == TRUE

LockEntry(t) == lockOf = StNil

AskTag(t, op) ==
    /\ stplan.tagged # StNil /\ tagging[t].pc = "idle" /\ LockEntry(t)
    /\ ncalls < MaxStCalls /\ ncalls' = ncalls + 1
    /\ lockOf' = t
    /\ tagging' = [tagging EXCEPT ![t] = [pc |-> "read", op |-> op]]
    /\ due' = [due EXCEPT ![t] = "unknown"]
    /\ UNCHANGED <<accounts, tagCache, stfaults, Ensuring>>

Release(t, promise) ==
    /\ lockOf' = StNil
    /\ tagging' = [tagging EXCEPT ![t] = Waiting]
    /\ due' = [due EXCEPT ![t] = promise]

Wanted(t) == IF tagging[t].op = "add" THEN "in" ELSE "out"
NewTags(t, tags) == IF tagging[t].op = "add" THEN tags \cup {t} ELSE tags \ {t}

\* getStorageAccountWithCache, and the comparison: no difference, no update.
\* The cache is cleaned before the update.
ReadTags(t) ==
    /\ tagging[t].pc = "read"
    /\ \E r \in IF tagCache = StNil THEN StAnswer ELSE {"ok"},
          tags \in {IF tagCache = StNil THEN accounts[stplan.tagged].tags ELSE tagCache} :
          /\ StCounted(r)
          /\ IF r = "error" THEN Release(t, "unknown") /\ UNCHANGED tagCache
             ELSE IF NewTags(t, tags) = tags THEN Release(t, Wanted(t)) /\ tagCache' = tags
             ELSE /\ tagging' = [tagging EXCEPT ![t] = [pc |-> "update", op |-> @.op, tags |-> NewTags(t, tags)]]
                  /\ tagCache' = StNil /\ UNCHANGED <<lockOf, due>>
    /\ UNCHANGED <<accounts, ncalls, Ensuring>>

\* Update replaces all tags; an update that fails may have taken effect.
UpdateTags(t) ==
    /\ tagging[t].pc = "update"
    /\ \E r \in StAnswer, done \in BOOLEAN :
          /\ r = "ok" => done
          /\ accounts' = IF done THEN [accounts EXCEPT ![stplan.tagged].tags = tagging[t].tags] ELSE accounts
          /\ Release(t, IF r = "ok" THEN Wanted(t) ELSE "unknown")
          /\ StCounted(r)
    /\ UNCHANGED <<tagCache, ncalls, Ensuring>>

ExpireTags ==
    /\ tagCache # StNil /\ tagCache' = StNil
    /\ UNCHANGED <<accounts, lockOf, tagging, due, stfaults, ncalls, Ensuring>>

StNext ==
    \/ \E c \in Caller :
          \/ EnsureStorageAccount(c) \/ AccountExists(c) \/ ListAccounts(c) \/ MatchAccounts(c)
          \/ FindZone(c) \/ createPrivateDNSZone(c) \/ FindLink(c) \/ createVNetLink(c)
          \/ CreateAccount(c) \/ SetBlobProperties(c) \/ GetFileProperties(c) \/ SetFileProperties(c)
          \/ createPrivateEndpoint(c) \/ createPrivateDNSZoneGroup(c) \/ GetStorageAccesskey(c)
    \/ \E a \in Account : ExpireFile(a)
    \/ \E t \in Tagger : AskTag(t, "add") \/ AskTag(t, "remove") \/ ReadTags(t) \/ UpdateTags(t)
    \/ ExpireTags

StSpec == StInit /\ [][StNext]_stvars
------------------------------------------------------------------------------
\* An account that was handed out has the kind, the blob protection, the
\* retention and the whole private endpoint that were asked for, though its
\* making may have failed half way before and another caller may be making it.
ReturnedAsAsked ==
    \A x \in served :
        /\ x.o.kind \in {0, accounts[x.a].kind}
        /\ x.o.soft => accounts[x.a].soft
        /\ x.o.keep = "off" => accounts[x.a].keep = "off"
        /\ x.o.endpoint = "yes" => zone /\ link /\ accounts[x.a].endpoint /\ accounts[x.a].group

\* Left out are options with an access tier, which Create does not send, or
\* with multichannel, whose cached value may be wrong.
Reusable(o) == o.name = StNil /\ ~o.create /\ ~o.tier /\ o.multi = "unset"

\* An account that served some options serves them again: no account is made
\* for each volume (EnsureStorageAccount, MatchAccounts).
NoAccountPerVolume ==
    \A c \in Caller : (At(c, "create") /\ Reusable(calls[c].o)) => calls[c].known = {}

\* A tag that was added, or removed, with success stays so until its next
\* change, whatever happens to other tags of the account meanwhile.
TagsStay ==
    stplan.tagged # StNil =>
        \A t \in Tagger : due[t] # "unknown" => (due[t] = "in") = (t \in accounts[stplan.tagged].tags)

\* What is asked for multichannel is what the account has.
MultichannelAsAsked == \A x \in served : Agrees(x.o.multi, accounts[x.a].multi, "off")

\* What callers and taggers were told of the accounts is so, and accounts are
\* used again (EnsureStorageAccount, AddStorageAccountTags).
AccountsAsAnswered == StTypeOK /\ ReturnedAsAsked /\ NoAccountPerVolume /\ TagsStay
==============================================================================
