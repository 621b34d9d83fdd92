---------------------------- MODULE RequestState ----------------------------
(***************************************************************************)
(* What one project request reads and how it is accounted for:             *)
(* RequestState, ScopeBudget and RequestFilesystemUsage of                 *)
(* request_state.rs, called by read_document_fixed_scoped,                 *)
(* read_fixed_scoped, read_fixed_from_scoped and inspect_fixed_in of       *)
(* process.rs, in any order.  Files change on disk at any time, so a call  *)
(* finds any content, or none, at a path: its parameter found.             *)
(*                                                                         *)
(* A scope is a configuration; the targets that resolve to it share its    *)
(* budget.  All files are under one authority.  A file's source ID is its  *)
(* name; Real names what its path resolves to, so two files may be one.    *)
(* A definition under "Altered:" is a plausible mistake in the one that    *)
(* follows it and not part of the specification.                           *)
(***************************************************************************)
EXTENDS Naturals, FiniteSets, FiniteSetsExt

CONSTANTS
  Files,        \* documents and what they include or refer to
  Configs,      \* configuration files
  Real,         \* Real[f]: the file the path of f resolves to
  Buffers,      \* documents held in memory by the caller
  Contents,     \* what a file may contain
  Size,         \* Size[c], in bytes
  Held,         \* Held[f]: the content of buffer f
  Invalid,      \* contents that are not UTF-8
  Scopes,
  ScopeLimits,  \* ScopeLimits[s]: files, total and resource, from the configuration
  Limits        \* the request's

Missing == "missing"
Names == Files \cup Configs

ASSUME RequestStateAssumption ==
  /\ IsFiniteSet(Names) /\ Files \cap Configs = {} /\ Buffers \subseteq Files
  /\ Missing \notin Contents /\ Invalid \subseteq Contents /\ Size \in [Contents -> Nat]
  /\ Held \in [Buffers -> Contents \ Invalid]
  /\ ScopeLimits \in [Scopes -> [files : Nat, total : Nat, resource : Nat]]
  /\ Limits \in [files : Nat, total : Nat, resource : Nat]

(* A configuration's limits are positive, and so are those of every host.  *)
ASSUME LimitsPositive ==
  Limits.resource > 0 /\ \A s \in Scopes : ScopeLimits[s].resource > 0

VARIABLES
  fixed,       \* fixed[f]: what was read of f; kind "none" if nothing is kept
  inspected,   \* inspected[f]: whether f was found to exist
  usage,       \* the request's physical operations and bytes
  budget,      \* budget[s]: the ScopeBudget of s
  answers      \* answers[s][f]: what the targets of s were told last

vars == <<fixed, inspected, usage, budget, answers>>

-----------------------------------------------------------------------------
NoLimit == <<"none", 0>>
Nothing == [kind |-> "none", content |-> Missing, limit |-> NoLimit, observed |-> 0]
Limited(limit) == [Nothing EXCEPT !.kind = "limit", !.limit = limit]
TooLarge(limit, n) == [Limited(limit) EXCEPT !.observed = n]
Absent == [Nothing EXCEPT !.kind = "missing"]
Failed(n) == [Nothing EXCEPT !.kind = "failed", !.observed = n]
Loaded(c, n) == [Nothing EXCEPT !.kind = "loaded", !.content = c, !.observed = n]

Minimum(m, n) == IF m <= n THEN m ELSE n
Left(total, used) == IF used <= total THEN total - used ELSE 0

(* What buffers take is not left for files; a request whose buffers do not *)
(* fit its limits is refused before it reads anything.                     *)
MemoryBytes == MapThenSumSet(LAMBDA f : Size[Held[f]], Buffers)

ASSUME BuffersFit ==
  /\ Cardinality(Buffers) <= Limits.files /\ MemoryBytes \in 0..Limits.total
  /\ \A f \in Buffers : Size[Held[f]] <= Limits.resource

FilesystemLimits ==
  [Limits EXCEPT !.files = Left(@, Cardinality(Buffers)), !.total = Left(@, MemoryBytes)]

(* charged: the bytes read for it count; weighed: its body counts.         *)
Unobserved == [reserved |-> FALSE, charged |-> FALSE, observed |-> 0, weighed |-> FALSE,
               body |-> 0, limit |-> NoLimit]

Init ==
  /\ fixed = [f \in Names |-> Nothing]
  /\ inspected = [f \in Files |-> "none"]
  /\ usage = [operations |-> 0, bytes |-> 0, observed |-> {}]
  /\ budget = [s \in Scopes |-> [files |-> 0, bytes |-> 0, of |-> [f \in Files |-> Unobserved]]]
  /\ answers = [s \in Scopes |-> [f \in Files |-> Nothing]]

-----------------------------------------------------------------------------
(* ScopeBudget. *)

CanReserve(s, f) == budget[s].of[f].reserved \/ budget[s].files < ScopeLimits[s].files

Noted(b, f, o) == [b EXCEPT !.of = [b.of EXCEPT ![f] = o]]
Charge(b, f, n, o) == [Noted(b, f, o) EXCEPT !.bytes = @ + n]

Reserved(s, f) ==
  IF budget[s].of[f].reserved THEN budget[s]
  ELSE [Noted(budget[s], f, [budget[s].of[f] EXCEPT !.reserved = TRUE]) EXCEPT !.files = @ + 1]

(* A charge that passes a limit is made all the same, and the limit kept.  *)
Exceeded(s, b, more, size) ==
  IF size > ScopeLimits[s].resource THEN <<"resource", ScopeLimits[s].resource>>
  ELSE IF b.bytes + more > ScopeLimits[s].total THEN <<"total", ScopeLimits[s].total>>
  ELSE NoLimit

Kept(old, limit) == IF limit = NoLimit THEN old ELSE limit

(* charge_observed_bytes                                                   *)
ChargeObserved(s, b, f, n) ==
  IF n = 0 \/ b.of[f].charged THEN b
  ELSE Charge(b, f, n, [b.of[f] EXCEPT !.charged = TRUE, !.observed = n,
                                       !.limit = Kept(@, Exceeded(s, b, n, n))])

(* Altered: what was read of the file is counted again.                    *)
ChargeBodyTwice(s, b, f, n) ==
  IF b.of[f].weighed THEN b
  ELSE Charge(b, f, n, [b.of[f] EXCEPT !.weighed = TRUE, !.body = n,
                                       !.limit = Kept(@, Exceeded(s, b, n, n))])

(* charge_body: only what the bytes read do not account for.               *)
ChargeBody(s, b, f, n) ==
  LET more == Left(n, b.of[f].observed) IN
  IF b.of[f].weighed THEN b
  ELSE Charge(b, f, more, [b.of[f] EXCEPT !.weighed = TRUE, !.body = n,
                                          !.limit = Kept(@, Exceeded(s, b, more, n))])

(* Altered: the charge is made and the body given all the same.            *)
WeighedOnly(s, b, f, answer) ==
  [budget |-> IF answer.kind # "loaded" THEN b ELSE ChargeBody(s, b, f, Size[answer.content]),
   answer |-> answer]

(* apply_body_budget: the body is refused by the call that weighs it.      *)
Weighed(s, b, f, answer) ==
  LET after == ChargeBody(s, b, f, Size[answer.content])
      over == Exceeded(s, b, Left(Size[answer.content], b.of[f].observed), Size[answer.content])
  IN  IF answer.kind # "loaded" THEN [budget |-> b, answer |-> answer]
      ELSE [budget |-> after,
            answer |-> IF b.of[f].weighed \/ over = NoLimit THEN answer ELSE Limited(over)]

(* Altered: the request's own limits are left out.                         *)
AllowanceOfScope(s, b, f) ==
  LET o == b.of[f]
      left == IF o.weighed THEN ScopeLimits[s].resource ELSE Left(ScopeLimits[s].total, b.bytes)
      resource == ScopeLimits[s].resource
  IN  [max |-> Minimum(left, resource), specific |-> TRUE,
       limit |-> IF resource <= left THEN <<"resource", resource>>
                 ELSE <<"total", ScopeLimits[s].total>>,
       refusal |-> IF o.limit # NoLimit THEN o.limit
                   ELSE IF left = 0 THEN <<"total", ScopeLimits[s].total>> ELSE NoLimit]

(* read_allowance: how much may be read, which limit is at fault if that   *)
(* is too little, and whether it is the scope's own.  (What buffers take   *)
(* is not counted here against the request's total.)                       *)
Allowance(s, b, f) ==
  LET o == b.of[f]
      resource == Minimum(ScopeLimits[s].resource, FilesystemLimits.resource)
      left == IF o.weighed THEN resource ELSE Left(ScopeLimits[s].total, b.bytes)
      request == Left(Limits.total, usage.bytes)
      specific == IF resource <= Minimum(left, request)
                  THEN ScopeLimits[s].resource < FilesystemLimits.resource ELSE left < request
  IN  [max |-> Minimum(resource, Minimum(left, request)),
       specific |-> specific,
       limit |-> IF resource <= Minimum(left, request) THEN <<"resource", resource>>
                 ELSE <<"total", IF specific THEN ScopeLimits[s].total ELSE FilesystemLimits.total>>,
       refusal |-> IF o.limit # NoLimit THEN o.limit
                   ELSE IF left = 0 THEN <<"total", ScopeLimits[s].total>> ELSE NoLimit]

(* The configuration's allowance: what is left of the request's.           *)
RequestAllowance ==
  LET left == Left(FilesystemLimits.total, usage.bytes) IN
  [max |-> Minimum(FilesystemLimits.resource, left), specific |-> FALSE,
   limit |-> IF FilesystemLimits.resource <= left THEN <<"resource", FilesystemLimits.resource>>
             ELSE <<"total", FilesystemLimits.total>>]

-----------------------------------------------------------------------------
(* RequestState. *)

CanOperate(f) == f \in usage.observed \/ usage.operations < FilesystemLimits.files

Operated(f) ==
  IF f \in usage.observed THEN usage
  ELSE [usage EXCEPT !.operations = @ + 1, !.observed = @ \cup {f}]

(* One byte more than allowed tells that a file is too large.              *)
Physical(c, max, limit) ==
  IF max = 0 THEN Limited(limit)
  ELSE IF c = Missing THEN Absent
  ELSE IF Size[c] > max THEN TooLarge(limit, max + 1)
  ELSE IF c \in Invalid THEN Failed(Size[c])
  ELSE Loaded(c, Size[c])

Alias(f) == {g \in Names : fixed[g].kind = "loaded" /\ Real[g] = Real[f]}

(* Altered: the file is read whatever is known of it.                      *)
AcquiredAgain(f, found, allowance) ==
  LET read == Physical(found, allowance.max, allowance.limit)
      mine == allowance.specific /\ read.kind = "limit"
  IN  [answer |-> read, keep |-> ~mine, usage |-> [Operated(f) EXCEPT !.bytes = @ + read.observed]]

(* read: what is kept, else what another path or an inspection showed,     *)
(* else the file; a refusal by the scope alone is not kept.                *)
Acquired(f, found, allowance) ==
  LET read == Physical(found, allowance.max, allowance.limit)
      mine == allowance.specific /\ read.kind = "limit"
  IN  IF fixed[f].kind # "none" THEN [answer |-> fixed[f], keep |-> FALSE, usage |-> usage]
      ELSE IF ~CanOperate(f)
      THEN [answer |-> Limited(<<"files", FilesystemLimits.files>>), keep |-> FALSE, usage |-> usage]
      ELSE IF found # Missing /\ Alias(f) # {}
      THEN [answer |-> Loaded(fixed[CHOOSE g \in Alias(f) : TRUE].content, 0), keep |-> TRUE,
            usage |-> Operated(f)]
      ELSE IF f \in Files /\ inspected[f] = "missing"
      THEN [answer |-> Absent, keep |-> TRUE, usage |-> Operated(f)]
      ELSE [answer |-> read, keep |-> ~mine,
            usage |-> [Operated(f) EXCEPT !.bytes = @ + read.observed]]

Keep(f, got) == fixed' = IF got.keep THEN [fixed EXCEPT ![f] = got.answer] ELSE fixed

-----------------------------------------------------------------------------
(* The calls of process.rs. *)

Tell(s, f, answer) == answers' = [answers EXCEPT ![s][f] = answer]
Budget(s, b) == budget' = [budget EXCEPT ![s] = b]

(* A document, an include or a style sheet; buffers are not style sheets.  *)
Read(s, f, found) ==
  /\ IF ~CanReserve(s, f)
     THEN /\ Tell(s, f, Limited(<<"files", ScopeLimits[s].files>>))
          /\ UNCHANGED <<fixed, usage, budget>>
     ELSE IF f \in Buffers
     THEN LET done == Weighed(s, Reserved(s, f), f, Loaded(Held[f], 0)) IN
          Budget(s, done.budget) /\ Tell(s, f, done.answer) /\ UNCHANGED <<fixed, usage>>
     ELSE LET b == Reserved(s, f)
              allowance == Allowance(s, b, f)
              got == Acquired(f, found, allowance)
              charged == ChargeObserved(s, b, f, got.answer.observed)
              refused == allowance.specific /\ got.answer.kind = "limit"
                           /\ got.answer.limit = allowance.limit
              done == Weighed(s, IF ~refused THEN charged
                                 ELSE Noted(charged, f, [charged.of[f] EXCEPT !.limit = allowance.limit]),
                              f, got.answer)
          IN  IF allowance.refusal # NoLimit
              THEN Budget(s, b) /\ Tell(s, f, Limited(allowance.refusal)) /\ UNCHANGED <<fixed, usage>>
              ELSE /\ Budget(s, done.budget) /\ Tell(s, f, done.answer)
                   /\ Keep(f, got) /\ usage' = got.usage
  /\ UNCHANGED inspected

(* resolve_config_at reads the candidates of a configuration.              *)
ReadConfig(f, found) ==
  /\ LET got == Acquired(f, found, RequestAllowance) IN Keep(f, got) /\ usage' = got.usage
  /\ UNCHANGED <<inspected, budget, answers>>

(* inspect: what is kept of an inspection, else of a read, else the file.  *)
(* The budget of inspections of a scope, which is apart, is left out: it   *)
(* only keeps this from being called.                                      *)
Inspect(f, found) ==
  /\ inspected[f] = "none"
  /\ IF fixed[f].kind \in {"loaded", "missing"}
     THEN /\ inspected' = [inspected EXCEPT ![f] =
                             IF fixed[f].kind = "loaded" THEN "present" ELSE "missing"]
          /\ UNCHANGED usage
     ELSE /\ CanOperate(f)
          /\ inspected' = [inspected EXCEPT ![f] = IF found = Missing THEN "missing" ELSE "present"]
          /\ usage' = Operated(f)
  /\ UNCHANGED <<fixed, budget, answers>>

Next ==
  \E found \in Contents \cup {Missing} :
    \/ \E s \in Scopes, f \in Files : Read(s, f, found)
    \/ \E f \in Configs : ReadConfig(f, found)
    \/ \E f \in Files : Inspect(f, found)

Spec == Init /\ [][Next]_vars
-----------------------------------------------------------------------------
(* Properties. *)

Observation ==
  [reserved : BOOLEAN, charged : BOOLEAN, observed : Nat, weighed : BOOLEAN, body : Nat,
   limit : {"none", "files", "total", "resource"} \X Nat]
Answer == [kind : {"none", "loaded", "missing", "failed", "limit"},
           content : Contents \cup {Missing},
           limit : {"none", "files", "total", "resource"} \X Nat, observed : Nat]

(* Files are charged only after they were reserved.                        *)
TypeOK ==
  /\ fixed \in [Names -> Answer]
  /\ inspected \in [Files -> {"none", "present", "missing"}]
  /\ usage \in [operations : Nat, bytes : Nat, observed : SUBSET Names]
  /\ usage.operations = Cardinality(usage.observed)
  /\ budget \in [Scopes -> [files : Nat, bytes : Nat, of : [Files -> Observation]]]
  /\ answers \in [Scopes -> [Files -> Answer]]

(* The request's limits bound what it reads from disk, the configuration   *)
(* included, but for the one byte that tells a file is too large: whatever *)
(* is read, refused, read again for a wider scope or changed meanwhile     *)
(* (architecture.adoc).                                                    *)
PhysicalReadsLimited ==
  /\ usage.operations <= Limits.files
  /\ usage.bytes <= Limits.total + 1

Larger(m, n) == IF m >= n THEN m ELSE n

(* A scope's counters are the sums of its observations: each file counts   *)
(* once, with its body or, if more, what was read of it.                   *)
ScopeAccounted ==
  /\ TypeOK
  /\ \A s \in Scopes :
       /\ budget[s].files = Cardinality({f \in Files : budget[s].of[f].reserved})
       /\ budget[s].bytes =
            SumFunction([f \in Files |-> Larger(budget[s].of[f].observed, budget[s].of[f].body)])

Given(s) == {f \in Files : answers[s][f].kind = "loaded"}
WithinLimits(s, F) ==
  /\ \A f \in F : Size[answers[s][f].content] <= ScopeLimits[s].resource
  /\ SumFunction([f \in F |-> Size[answers[s][f].content]]) <= ScopeLimits[s].total

(* The files a configuration's targets were given fit its limits, also     *)
(* those another configuration had read.                                   *)
FilesWithinScope == \A s \in Scopes : WithinLimits(s, Given(s) \ Buffers)

(* The targets of a configuration never hear two things about a file,      *)
(* whatever becomes of it: what was loaded is given again, and a file that *)
(* was missing or unreadable can only be refused later, for good.          *)
AnswersStay ==
  [][\A s \in Scopes, f \in Files \ Buffers :
       LET before == answers[s][f]  after == answers'[s][f] IN
       \/ before.kind = "none"
       \/ after.kind = before.kind /\ after.content = before.content
       \/ before.kind # "loaded" /\ after.kind = "limit"]_vars
=============================================================================
