-------------------------- MODULE RequestStateProofs --------------------------
(***************************************************************************)
(* For any files, links, buffers, configurations and limits, in whatever   *)
(* order files are read, refused and read again: the state of a request    *)
(* keeps its types, the request's limits bound what it reads from disk,    *)
(* the targets of a configuration never hear two things of one file, and   *)
(* what they were given fits its limits, whose counters add up.            *)
(***************************************************************************)
EXTENDS RequestState, TLAPS, FiniteSetTheorems, WellFoundedInduction

LimitType == {"none", "files", "total", "resource"} \X Nat
BudgetType == [files : Nat, bytes : Nat, of : [Files -> Observation]]
UsageType == [operations : Nat, bytes : Nat, observed : SUBSET Names]

(* What the request has done is counted, and within its limits.            *)
WithinRequest(u) ==
  /\ u \in UsageType
  /\ u.operations = Cardinality(u.observed)
  /\ u.operations <= Limits.files
  /\ u.bytes <= Limits.total + 1

IInv ==
  /\ TypeOK
  /\ WithinRequest(usage)
  /\ \A g \in Names : fixed[g].kind = "loaded" => fixed[g].content \in Contents

-----------------------------------------------------------------------------
(* Limits. *)

LEMMA Scope ==
  ASSUME NEW s \in Scopes
  PROVE  ScopeLimits[s].files \in Nat /\ ScopeLimits[s].total \in Nat /\ ScopeLimits[s].resource \in Nat
  BY RequestStateAssumption

LEMMA Request ==
  /\ Limits.files \in Nat /\ Limits.total \in Nat /\ Limits.resource \in Nat
  /\ FilesystemLimits.files \in Nat /\ FilesystemLimits.files <= Limits.files
  /\ FilesystemLimits.total \in Nat /\ FilesystemLimits.total <= Limits.total
  /\ FilesystemLimits.resource \in Nat
  <1>1. Limits \in [files : Nat, total : Nat, resource : Nat]
    BY RequestStateAssumption
  <1>2. Cardinality(Buffers) \in Nat /\ MemoryBytes \in Nat /\ MemoryBytes <= Limits.total
        /\ Cardinality(Buffers) <= Limits.files
    <2>1. IsFiniteSet(Buffers)
      BY RequestStateAssumption, FS_Subset DEF Names
    <2> QED
      BY <1>1, <2>1, FS_CardinalityType, BuffersFit
  <1>3. /\ FilesystemLimits.files = Limits.files - Cardinality(Buffers)
        /\ FilesystemLimits.total = Limits.total - MemoryBytes
        /\ FilesystemLimits.resource = Limits.resource
    BY <1>1, <1>2 DEF FilesystemLimits, Left
  <1> QED
    BY <1>1, <1>2, <1>3

LEMMA LimitTypes ==
  /\ NoLimit \in LimitType
  /\ \A n \in Nat : <<"files", n>> \in LimitType /\ <<"total", n>> \in LimitType /\ <<"resource", n>> \in LimitType
  BY DEF NoLimit, LimitType

LEMMA AnswerTypes ==
  /\ Nothing \in Answer /\ Absent \in Answer
  /\ \A n \in Nat : Failed(n) \in Answer
  /\ \A limit \in LimitType : Limited(limit) \in Answer
  /\ \A limit \in LimitType, n \in Nat : TooLarge(limit, n) \in Answer
  /\ \A c \in Contents, n \in Nat : Loaded(c, n) \in Answer
  BY LimitTypes DEF Nothing, Absent, Failed, Limited, TooLarge, Loaded, Answer, LimitType

LEMMA AnswerFields ==
  /\ Nothing.kind = "none"
  /\ Absent.kind = "missing" /\ Absent.observed = 0
  /\ \A n : Failed(n).kind = "failed" /\ Failed(n).observed = n
  /\ \A limit : Limited(limit).kind = "limit" /\ Limited(limit).observed = 0
  /\ \A limit, n : TooLarge(limit, n).kind = "limit" /\ TooLarge(limit, n).observed = n
  /\ \A c, n : Loaded(c, n).content = c /\ Loaded(c, n).observed = n
  BY DEF Nothing, Absent, Failed, Limited, TooLarge, Loaded

LEMMA SizeType == \A c \in Contents : Size[c] \in Nat
  BY RequestStateAssumption

LEMMA Remainder ==
  ASSUME NEW m \in Nat, NEW n \in Nat
  PROVE  /\ Left(m, n) \in Nat /\ Left(m, n) <= m
         /\ Left(m, n) = 0 \/ Left(m, n) + n = m
         /\ Minimum(m, n) \in Nat /\ Minimum(m, n) <= m /\ Minimum(m, n) <= n
  BY DEF Left, Minimum

-----------------------------------------------------------------------------
(* Budgets. *)

LEMMA NotedType ==
  ASSUME NEW b \in BudgetType, NEW f \in Files, NEW o \in Observation, NEW n \in Nat
  PROVE  Noted(b, f, o) \in BudgetType /\ Charge(b, f, n, o) \in BudgetType
  <1>1. Noted(b, f, o) \in BudgetType
    BY DEF Noted, BudgetType
  <1>2. \A c \in BudgetType : [c EXCEPT !.bytes = @ + n] \in BudgetType
    BY DEF BudgetType
  <1> QED
    BY <1>1, <1>2 DEF Charge

LEMMA ReservedType ==
  ASSUME NEW s \in Scopes, NEW f \in Files, budget[s] \in BudgetType
  PROVE  Reserved(s, f) \in BudgetType
  <1>1. [budget[s].of[f] EXCEPT !.reserved = TRUE] \in Observation
    BY ZenonT(40) DEF BudgetType, Observation
  <1>2. Noted(budget[s], f, [budget[s].of[f] EXCEPT !.reserved = TRUE]) \in BudgetType
    BY <1>1, NotedType
  <1>3. \A c \in BudgetType : [c EXCEPT !.files = @ + 1] \in BudgetType
    BY DEF BudgetType
  <1> QED
    BY <1>2, <1>3 DEF Reserved

LEMMA ExceededType ==
  ASSUME NEW s \in Scopes, NEW b, NEW more, NEW size
  PROVE  Exceeded(s, b, more, size) \in LimitType
  BY Scope, LimitTypes DEF Exceeded

LEMMA ChargeObservedType ==
  ASSUME NEW s \in Scopes, NEW b \in BudgetType, NEW f \in Files, NEW n \in Nat
  PROVE  ChargeObserved(s, b, f, n) \in BudgetType
  <1> DEFINE o == [b.of[f] EXCEPT !.charged = TRUE, !.observed = n,
                                  !.limit = Kept(@, Exceeded(s, b, n, n))]
  <1>1. b.of[f] \in Observation /\ Exceeded(s, b, n, n) \in LimitType
    BY ExceededType DEF BudgetType
  <1>2. o \in Observation
    BY <1>1 DEF Observation, Kept, LimitType
  <1>3. ChargeObserved(s, b, f, n) = IF n = 0 \/ b.of[f].charged THEN b
                                     ELSE Charge(b, f, n, o)
    BY DEF ChargeObserved
  <1> HIDE DEF o
  <1> QED
    BY <1>2, <1>3, NotedType

LEMMA ChargeBodyType ==
  ASSUME NEW s \in Scopes, NEW b \in BudgetType, NEW f \in Files, NEW n \in Nat
  PROVE  ChargeBody(s, b, f, n) \in BudgetType
  <1> DEFINE more == Left(n, b.of[f].observed)
             o == [b.of[f] EXCEPT !.weighed = TRUE, !.body = n,
                                  !.limit = Kept(@, Exceeded(s, b, more, n))]
  <1>1. b.of[f] \in Observation /\ Exceeded(s, b, more, n) \in LimitType
    BY ExceededType DEF BudgetType
  <1>2. o \in Observation
    BY <1>1 DEF Observation, Kept, LimitType
  <1>3. ChargeBody(s, b, f, n) = IF b.of[f].weighed THEN b
                                 ELSE Charge(b, f, more, o)
    BY DEF ChargeBody
  <1>4. more \in Nat
    BY <1>1, Remainder DEF Observation
  <1> HIDE DEF o, more
  <1> QED
    BY <1>2, <1>3, <1>4, NotedType

LEMMA WeighedType ==
  ASSUME NEW s \in Scopes, NEW b \in BudgetType, NEW f \in Files, NEW answer \in Answer,
         answer.kind = "loaded" => answer.content \in Contents
  PROVE  Weighed(s, b, f, answer).budget \in BudgetType /\ Weighed(s, b, f, answer).answer \in Answer
  <1>1. CASE answer.kind # "loaded"
    BY <1>1 DEF Weighed
  <1>2. CASE answer.kind = "loaded"
    <2>1. ChargeBody(s, b, f, Size[answer.content]) \in BudgetType
      BY <1>2, SizeType, ChargeBodyType
    <2>2. \A limit \in LimitType : Limited(limit) \in Answer
      BY AnswerTypes
    <2>3. Exceeded(s, b, Left(Size[answer.content], b.of[f].observed), Size[answer.content]) \in LimitType
      BY ExceededType
    <2> QED
      BY <1>2, <2>1, <2>2, <2>3 DEF Weighed
  <1> QED
    BY <1>1, <1>2

-----------------------------------------------------------------------------
(* Reading. *)

(* The most a read may take from the request, and the limit it would meet. *)
Bounded(a) ==
  /\ a.max \in Nat /\ a.max <= Left(Limits.total, usage.bytes)
  /\ a.limit \in LimitType

LEMMA UsageTypes ==
  ASSUME IInv
  PROVE  /\ usage.bytes \in Nat /\ usage.operations \in Nat /\ usage.observed \subseteq Names
         /\ IsFiniteSet(usage.observed) /\ usage = [operations |-> usage.operations,
              bytes |-> usage.bytes, observed |-> usage.observed]
  <1>1. usage \in UsageType
    BY DEF IInv, WithinRequest
  <1> QED
    BY <1>1, RequestStateAssumption, FS_Subset DEF UsageType

LEMMA AllowanceType ==
  ASSUME IInv, NEW s \in Scopes, NEW f \in Files, NEW b \in BudgetType
  PROVE  Bounded(Allowance(s, b, f)) /\ Allowance(s, b, f).refusal \in LimitType
  <1> DEFINE o == b.of[f]
             resource == Minimum(ScopeLimits[s].resource, FilesystemLimits.resource)
             left == IF o.weighed THEN resource ELSE Left(ScopeLimits[s].total, b.bytes)
             request == Left(Limits.total, usage.bytes)
             specific == IF resource <= Minimum(left, request)
                         THEN ScopeLimits[s].resource < FilesystemLimits.resource ELSE left < request
  <1>1. resource \in Nat
    BY Scope, Request, Remainder
  <1>2. left \in Nat
    BY <1>1, Scope, Remainder DEF BudgetType
  <1>3. request \in Nat
    BY Request, UsageTypes, Remainder
  <1>4. o.limit \in LimitType
    BY DEF BudgetType, Observation, LimitType
  <1>5. /\ Allowance(s, b, f).max = Minimum(resource, Minimum(left, request))
        /\ Allowance(s, b, f).limit =
             IF resource <= Minimum(left, request) THEN <<"resource", resource>>
             ELSE <<"total", IF specific THEN ScopeLimits[s].total ELSE FilesystemLimits.total>>
        /\ Allowance(s, b, f).refusal =
             IF o.limit # NoLimit THEN o.limit
             ELSE IF left = 0 THEN <<"total", ScopeLimits[s].total>> ELSE NoLimit
    BY DEF Allowance
  <1> HIDE DEF o, resource, left, request, specific
  <1>6. Minimum(left, request) \in Nat /\ Minimum(left, request) <= request
    BY <1>2, <1>3, Remainder
  <1>7. Allowance(s, b, f).max \in Nat /\ Allowance(s, b, f).max <= request
    BY <1>1, <1>3, <1>5, <1>6, Remainder
  <1>8. Allowance(s, b, f).limit \in LimitType /\ Allowance(s, b, f).refusal \in LimitType
    BY <1>1, <1>4, <1>5, Scope, Request, LimitTypes
  <1> QED
    BY <1>7, <1>8 DEF Bounded, request

LEMMA RequestAllowanceType == IInv => Bounded(RequestAllowance)
  <1> SUFFICES ASSUME IInv PROVE Bounded(RequestAllowance)
    OBVIOUS
  <1> DEFINE left == Left(FilesystemLimits.total, usage.bytes)
  <1>1. left \in Nat /\ left <= Left(Limits.total, usage.bytes)
    BY Request, UsageTypes DEF Left
  <1>2. /\ RequestAllowance.max = Minimum(FilesystemLimits.resource, left)
        /\ RequestAllowance.limit = IF FilesystemLimits.resource <= left THEN <<"resource", FilesystemLimits.resource>>
                                    ELSE <<"total", FilesystemLimits.total>>
    BY DEF RequestAllowance
  <1>3. Left(Limits.total, usage.bytes) \in Nat
    BY Request, UsageTypes, Remainder
  <1> HIDE DEF left
  <1>4. RequestAllowance.max \in Nat /\ RequestAllowance.max <= left
    BY <1>1, <1>2, Request, Remainder, ZenonT(40)
  <1>5. RequestAllowance.limit \in LimitType
    BY <1>2, Request, LimitTypes
  <1> QED
    BY <1>1, <1>3, <1>4, <1>5 DEF Bounded

LEMMA PhysicalType ==
  ASSUME NEW c \in Contents \cup {Missing}, NEW max \in Nat, NEW limit \in LimitType
  PROVE  /\ Physical(c, max, limit) \in Answer
         /\ Physical(c, max, limit).observed \in Nat
         /\ Physical(c, max, limit).observed <= IF max = 0 THEN 0 ELSE max + 1
         /\ Physical(c, max, limit).kind = "loaded" => Physical(c, max, limit).content \in Contents
  <1>1. CASE max = 0
    BY <1>1, AnswerTypes, AnswerFields DEF Physical
  <1>2. CASE max # 0 /\ c = Missing
    BY <1>2, AnswerTypes, AnswerFields DEF Physical
  <1>3. CASE max # 0 /\ c # Missing
    <2>1. Size[c] \in Nat /\ c \in Contents
      BY <1>3, SizeType
    <2>2. CASE Size[c] > max
      <3>1. Physical(c, max, limit) = TooLarge(limit, max + 1)
        BY <1>3, <2>2 DEF Physical
      <3> QED
        BY <1>3, <3>1, AnswerTypes, AnswerFields
    <2>3. CASE ~(Size[c] > max) /\ c \in Invalid
      <3>1. Physical(c, max, limit) = Failed(Size[c])
        BY <1>3, <2>3 DEF Physical
      <3> QED
        BY <1>3, <2>1, <2>3, <3>1, AnswerTypes, AnswerFields
    <2>4. CASE ~(Size[c] > max) /\ c \notin Invalid
      <3>1. Physical(c, max, limit) = Loaded(c, Size[c])
        BY <1>3, <2>4 DEF Physical
      <3> QED
        BY <1>3, <2>1, <2>4, <3>1, AnswerTypes, AnswerFields
    <2> QED
      BY <2>2, <2>3, <2>4
  <1> QED
    BY <1>1, <1>2, <1>3

LEMMA OperatedWithin ==
  ASSUME IInv, NEW f \in Names, CanOperate(f)
  PROVE  WithinRequest(Operated(f)) /\ Operated(f).bytes = usage.bytes
  <1>1. CASE f \in usage.observed
    BY <1>1 DEF Operated, IInv
  <1>2. CASE f \notin usage.observed
    <2>1. Operated(f) = [operations |-> usage.operations + 1, bytes |-> usage.bytes,
                         observed |-> usage.observed \cup {f}]
      BY <1>2, UsageTypes DEF Operated
    <2>2. Cardinality(usage.observed \cup {f}) = usage.operations + 1
      BY <1>2, UsageTypes, FS_AddElement DEF IInv, WithinRequest
    <2>3. usage.operations + 1 <= Limits.files
      BY <1>2, UsageTypes, Request DEF CanOperate
    <2> QED
      BY <2>1, <2>2, <2>3, UsageTypes DEF IInv, WithinRequest, UsageType
  <1> QED
    BY <1>1, <1>2

(* What is read once is kept and read no more: at most one byte beyond the *)
(* request's total is taken from disk.                                     *)
LEMMA AcquiredType ==
  ASSUME IInv, NEW f \in Names, NEW found \in Contents \cup {Missing}, NEW a, Bounded(a)
  PROVE  /\ Acquired(f, found, a).answer \in Answer
         /\ Acquired(f, found, a).answer.kind = "loaded" => Acquired(f, found, a).answer.content \in Contents
         /\ WithinRequest(Acquired(f, found, a).usage)
  <1> DEFINE got == Acquired(f, found, a)
             read == Physical(found, a.max, a.limit)
  <1>1. CASE fixed[f].kind # "none"
    <2>1. got.answer = fixed[f] /\ got.usage = usage
      BY <1>1 DEF Acquired
    <2> QED
      BY <2>1 DEF IInv, TypeOK
  <1>2. CASE fixed[f].kind = "none" /\ ~CanOperate(f)
    <2>1. got.answer = Limited(<<"files", FilesystemLimits.files>>) /\ got.usage = usage
      BY <1>2 DEF Acquired
    <2>2. Limited(<<"files", FilesystemLimits.files>>).kind = "limit"
      BY DEF Limited, Nothing
    <2> QED
      BY <2>1, <2>2, AnswerTypes, LimitTypes, Request DEF IInv
  <1>3. CASE fixed[f].kind = "none" /\ CanOperate(f) /\ found # Missing /\ Alias(f) # {}
    <2>1. PICK g \in Alias(f) : got.answer = Loaded(fixed[g].content, 0) /\ got.usage = Operated(f)
      BY <1>3 DEF Acquired
    <2>2. fixed[g].content \in Contents
      BY <2>1 DEF Alias, IInv
    <2>3. Loaded(fixed[g].content, 0).content = fixed[g].content
      BY DEF Loaded, Nothing
    <2> QED
      BY <1>3, <2>1, <2>2, <2>3, AnswerTypes, OperatedWithin
  <1>4. CASE /\ fixed[f].kind = "none" /\ CanOperate(f) /\ ~(found # Missing /\ Alias(f) # {})
             /\ f \in Files /\ inspected[f] = "missing"
    <2>1. got.answer = Absent /\ got.usage = Operated(f)
      BY <1>4 DEF Acquired
    <2>2. Absent.kind = "missing"
      BY AnswerFields
    <2> QED
      BY <1>4, <2>1, <2>2, AnswerTypes, OperatedWithin
  <1>5. CASE /\ fixed[f].kind = "none" /\ CanOperate(f) /\ ~(found # Missing /\ Alias(f) # {})
             /\ ~(f \in Files /\ inspected[f] = "missing")
    <2>1. got.answer = read /\ got.usage = [Operated(f) EXCEPT !.bytes = @ + read.observed]
      BY <1>5 DEF Acquired
    <2>2. /\ read \in Answer /\ read.observed \in Nat
          /\ read.observed <= IF a.max = 0 THEN 0 ELSE a.max + 1
          /\ read.kind = "loaded" => read.content \in Contents
      BY PhysicalType DEF Bounded
    <2>3. WithinRequest(Operated(f)) /\ Operated(f).bytes = usage.bytes
      BY <1>5, OperatedWithin
    <2>4. usage.bytes + read.observed <= Limits.total + 1
      <3>1. a.max \in Nat /\ a.max <= Left(Limits.total, usage.bytes)
        BY DEF Bounded
      <3>2. Left(Limits.total, usage.bytes) = 0 \/ Left(Limits.total, usage.bytes) + usage.bytes = Limits.total
        BY Remainder, Request, UsageTypes
      <3>3. usage.bytes <= Limits.total + 1 /\ Left(Limits.total, usage.bytes) \in Nat
        BY Remainder, Request, UsageTypes DEF IInv, WithinRequest
      <3> HIDE DEF read
      <3> QED
        BY <2>2, <3>1, <3>2, <3>3, Request, UsageTypes
    <2>5. \A u \in UsageType, n \in Nat :
            /\ [u EXCEPT !.bytes = @ + n] \in UsageType
            /\ [u EXCEPT !.bytes = @ + n].bytes = u.bytes + n
            /\ [u EXCEPT !.bytes = @ + n].operations = u.operations
            /\ [u EXCEPT !.bytes = @ + n].observed = u.observed
      BY DEF UsageType
    <2> HIDE DEF got, read
    <2>6. WithinRequest(got.usage)
      BY <2>1, <2>2, <2>3, <2>4, <2>5 DEF WithinRequest
    <2> QED
      BY <2>1, <2>2, <2>6 DEF got
  <1> QED
    BY <1>1, <1>2, <1>3, <1>4, <1>5

-----------------------------------------------------------------------------
(* Calls. *)

LEMMA InitIInv == Init => IInv
  <1> SUFFICES ASSUME Init PROVE IInv
    OBVIOUS
  <1>1. usage = [operations |-> 0, bytes |-> 0, observed |-> {}] /\ Cardinality({}) = 0
    BY FS_EmptySet DEF Init
  <1>2. WithinRequest(usage)
    BY <1>1, Request DEF WithinRequest, UsageType
  <1>3. Unobserved \in Observation
    BY LimitTypes DEF Unobserved, Observation, LimitType
  <1>4. TypeOK
    BY <1>1, <1>2, <1>3, AnswerTypes DEF Init, TypeOK, WithinRequest, UsageType
  <1>5. \A g \in Names : fixed[g].kind = "none"
    BY AnswerFields DEF Init
  <1> QED
    BY <1>2, <1>4, <1>5 DEF IInv

(* What a call leaves behind.                                              *)
LEMMA Called ==
  ASSUME IInv, WithinRequest(usage'),
         inspected' \in [Files -> {"none", "present", "missing"}],
         budget' = budget \/ \E s \in Scopes, b \in BudgetType : budget' = [budget EXCEPT ![s] = b],
         answers' = answers \/ \E s \in Scopes, f \in Files, a \in Answer : answers' = [answers EXCEPT ![s][f] = a],
         \/ fixed' = fixed
         \/ \E f \in Names, a \in Answer : /\ a.kind = "loaded" => a.content \in Contents
                                          /\ fixed' = [fixed EXCEPT ![f] = a]
  PROVE  IInv'
  <1>1. budget' \in [Scopes -> BudgetType]
    BY DEF IInv, TypeOK, BudgetType
  <1>2. answers' \in [Scopes -> [Files -> Answer]]
    <2>1. CASE answers' = answers
      BY <2>1 DEF IInv, TypeOK
    <2>2. ASSUME NEW s \in Scopes, NEW f \in Files, NEW a \in Answer, answers' = [answers EXCEPT ![s][f] = a]
          PROVE  answers' \in [Scopes -> [Files -> Answer]]
      <3>1. answers \in [Scopes -> [Files -> Answer]]
        BY DEF IInv, TypeOK
      <3>2. [answers[s] EXCEPT ![f] = a] \in [Files -> Answer]
        BY <3>1
      <3>3. answers' = [answers EXCEPT ![s] = [answers[s] EXCEPT ![f] = a]]
        BY <2>2
      <3> QED
        BY <3>1, <3>2, <3>3
    <2> QED
      BY <2>1, <2>2
  <1>3. fixed' \in [Names -> Answer] /\ \A g \in Names : fixed'[g].kind = "loaded" => fixed'[g].content \in Contents
    <2>1. CASE fixed' = fixed
      BY <2>1 DEF IInv, TypeOK
    <2>2. ASSUME NEW f \in Names, NEW a \in Answer, a.kind = "loaded" => a.content \in Contents,
                 fixed' = [fixed EXCEPT ![f] = a]
          PROVE  /\ fixed' \in [Names -> Answer]
                 /\ \A g \in Names : fixed'[g].kind = "loaded" => fixed'[g].content \in Contents
      <3>1. fixed \in [Names -> Answer]
        BY DEF IInv, TypeOK
      <3>2. fixed' \in [Names -> Answer] /\ \A g \in Names : fixed'[g] = IF g = f THEN a ELSE fixed[g]
        BY <2>2, <3>1
      <3> QED
        BY <2>2, <3>2 DEF IInv
    <2> QED
      BY <2>1, <2>2
  <1>4. usage' \in UsageType /\ usage'.operations = Cardinality(usage'.observed)
    BY DEF WithinRequest
  <1>5. TypeOK'
    BY <1>1, <1>2, <1>3, <1>4 DEF TypeOK, BudgetType, UsageType
  <1> QED
    BY <1>3, <1>5 DEF IInv, WithinRequest

LEMMA ReadStep ==
  ASSUME IInv, NEW s \in Scopes, NEW f \in Files, NEW found \in Contents \cup {Missing}, Read(s, f, found)
  PROVE  IInv'
  <1>1. budget[s] \in BudgetType /\ inspected' = inspected /\ f \in Names
    BY DEF IInv, TypeOK, BudgetType, Read, Names
  <1>2. Reserved(s, f) \in BudgetType
    BY <1>1, ReservedType
  <1>3. CASE ~CanReserve(s, f)
    <2>1. Tell(s, f, Limited(<<"files", ScopeLimits[s].files>>)) /\ UNCHANGED <<fixed, usage, budget>>
      BY <1>3 DEF Read
    <2>2. Limited(<<"files", ScopeLimits[s].files>>) \in Answer
      BY AnswerTypes, LimitTypes, Scope
    <2>3. IInv /\ WithinRequest(usage')
      BY <2>1 DEF IInv
    <2> QED
      BY <1>1, <2>1, <2>2, <2>3, Called DEF Tell, IInv, TypeOK
  <1>4. CASE CanReserve(s, f) /\ f \in Buffers
    <2> DEFINE done == Weighed(s, Reserved(s, f), f, Loaded(Held[f], 0))
    <2>1. Budget(s, done.budget) /\ Tell(s, f, done.answer) /\ UNCHANGED <<fixed, usage>>
      BY <1>4 DEF Read
    <2>2. Held[f] \in Contents
      BY <1>4, RequestStateAssumption
    <2>3. Loaded(Held[f], 0) \in Answer /\ Loaded(Held[f], 0).content \in Contents
      BY <2>2, AnswerTypes, AnswerFields
    <2>4. done.budget \in BudgetType /\ done.answer \in Answer
      BY <1>2, <2>3, WeighedType
    <2> HIDE DEF done
    <2>5. WithinRequest(usage')
      BY <2>1 DEF IInv
    <2> QED
      BY <1>1, <2>1, <2>4, <2>5, Called DEF Budget, Tell, IInv, TypeOK
  <1>5. CASE CanReserve(s, f) /\ f \notin Buffers
    <2> DEFINE b == Reserved(s, f)
               a == Allowance(s, b, f)
               got == Acquired(f, found, a)
               charged == ChargeObserved(s, b, f, got.answer.observed)
               refused == a.specific /\ got.answer.kind = "limit" /\ got.answer.limit = a.limit
               weighed == IF ~refused THEN charged
                          ELSE Noted(charged, f, [charged.of[f] EXCEPT !.limit = a.limit])
               done == Weighed(s, weighed, f, got.answer)
    <2>1. IF a.refusal # NoLimit
          THEN Budget(s, b) /\ Tell(s, f, Limited(a.refusal)) /\ UNCHANGED <<fixed, usage>>
          ELSE /\ Budget(s, done.budget) /\ Tell(s, f, done.answer)
               /\ Keep(f, got) /\ usage' = got.usage
      BY <1>5 DEF Read
    <2>2. Bounded(a) /\ a.refusal \in LimitType
      BY <1>2, AllowanceType
    <2>3. /\ got.answer \in Answer /\ WithinRequest(got.usage)
          /\ got.answer.kind = "loaded" => got.answer.content \in Contents
      BY <1>1, <2>2, AcquiredType
    <2>4. charged \in BudgetType
      BY <1>2, <2>3, ChargeObservedType DEF Answer
    <2>5. [charged.of[f] EXCEPT !.limit = a.limit] \in Observation
      BY <2>2, <2>4 DEF BudgetType, Observation, Bounded, LimitType
    <2>6. weighed \in BudgetType
      BY <2>4, <2>5, NotedType
    <2>7. done.budget \in BudgetType /\ done.answer \in Answer
      BY <2>3, <2>6, WeighedType
    <2> HIDE DEF b, a, got, done
    <2>8. CASE a.refusal # NoLimit
      <3>1. Limited(a.refusal) \in Answer /\ b \in BudgetType
        BY <1>2, <2>2, AnswerTypes DEF b
      <3>2. WithinRequest(usage')
        BY <2>1, <2>8 DEF IInv
      <3> QED
        BY <1>1, <2>1, <2>8, <3>1, <3>2, Called DEF Budget, Tell, IInv, TypeOK
    <2>9. CASE a.refusal = NoLimit
      BY <1>1, <2>1, <2>3, <2>7, <2>9, Called DEF Budget, Tell, Keep, IInv, TypeOK
    <2> QED
      BY <2>8, <2>9
  <1> QED
    BY <1>3, <1>4, <1>5

LEMMA ReadConfigStep ==
  ASSUME IInv, NEW f \in Configs, NEW found \in Contents \cup {Missing}, ReadConfig(f, found)
  PROVE  IInv'
  <1> DEFINE got == Acquired(f, found, RequestAllowance)
  <1>1. Keep(f, got) /\ usage' = got.usage /\ UNCHANGED <<inspected, budget, answers>>
    BY DEF ReadConfig
  <1>2. f \in Names /\ Bounded(RequestAllowance)
    BY RequestAllowanceType DEF Names
  <1>3. /\ got.answer \in Answer /\ WithinRequest(got.usage)
        /\ got.answer.kind = "loaded" => got.answer.content \in Contents
    BY <1>2, AcquiredType
  <1> HIDE DEF got
  <1> QED
    BY <1>1, <1>2, <1>3, Called DEF Keep, IInv, TypeOK

LEMMA InspectStep ==
  ASSUME IInv, NEW f \in Files, NEW found \in Contents \cup {Missing}, Inspect(f, found)
  PROVE  IInv'
  <1>1. f \in Names
    BY DEF Names
  <1>2. WithinRequest(usage')
    BY <1>1, OperatedWithin DEF Inspect, IInv
  <1>3. inspected' \in [Files -> {"none", "present", "missing"}]
    BY DEF Inspect, IInv, TypeOK
  <1> QED
    BY <1>2, <1>3, Called DEF Inspect

LEMMA StepIInv == IInv /\ [Next]_vars => IInv'
  <1> SUFFICES ASSUME IInv, [Next]_vars PROVE IInv'
    OBVIOUS
  <1>1. CASE Next
    BY <1>1, ReadStep, ReadConfigStep, InspectStep DEF Next
  <1>2. CASE UNCHANGED vars
    BY <1>2 DEF vars, IInv, TypeOK, WithinRequest
  <1> QED
    BY <1>1, <1>2

-----------------------------------------------------------------------------
(* What is kept, counted and answered has its type, also after a limit.    *)
THEOREM TypeCorrect == Spec => []TypeOK
  <1>1. IInv => TypeOK
    BY DEF IInv
  <1> QED
    BY <1>1, InitIInv, StepIInv, PTL DEF Spec

(* RequestFilesystemUsage keeps the request within its limits, whatever    *)
(* the configurations allow and however often a file is tried.             *)
THEOREM ReadsLimited == Spec => []PhysicalReadsLimited
  <1>1. IInv => PhysicalReadsLimited
    BY DEF IInv, WithinRequest, PhysicalReadsLimited
  <1> QED
    BY <1>1, InitIInv, StepIInv, PTL DEF Spec
-----------------------------------------------------------------------------
(* What is told about a file. *)

(* What is kept of a file that was loaded accounts for all its bytes or,   *)
(* if another path led to it, for none.                                    *)
WellFormed(a) ==
  /\ a.kind = "loaded" => a.observed \in {0, Size[a.content]}
  /\ a.kind # "loaded" => a.content = Missing

(* Why every further read of f for s is refused.                           *)
Refused(s, f) ==
  \/ ~CanReserve(s, f)
  \/ budget[s].of[f].limit # NoLimit
  \/ ~budget[s].of[f].weighed /\ ScopeLimits[s].total <= budget[s].bytes
  \/ fixed[f].kind = "limit"
  \/ fixed[f].kind = "none" /\ ~CanOperate(f)

(* What the targets of s were told of f is what is kept of it, or there is *)
(* a reason to refuse it that will not go away.                            *)
Explained(s, f) ==
  /\ answers[s][f].kind = "loaded" =>
       /\ budget[s].of[f].reserved /\ budget[s].of[f].weighed
       /\ budget[s].of[f].limit = NoLimit
       /\ fixed[f].kind = "loaded" /\ fixed[f].content = answers[s][f].content
  /\ answers[s][f].kind \in {"missing", "failed"} => fixed[f].kind = answers[s][f].kind
  /\ answers[s][f].kind # "loaded" => answers[s][f].content = Missing
  /\ answers[s][f].kind = "limit" => Refused(s, f)
  /\ budget[s].of[f].weighed =>
       fixed[f].kind = "loaded" /\ (budget[s].of[f].charged \/ fixed[f].observed = 0)

AInv ==
  /\ IInv
  /\ \A g \in Names : WellFormed(fixed[g])
  /\ \A s \in Scopes, f \in Files \ Buffers : Explained(s, f)

(* What is kept of a file stays, and a request that has no operations left *)
(* learns of no other.                                                     *)
Learns ==
  /\ \A g \in Names : fixed[g].kind # "none" => fixed'[g] = fixed[g]
  /\ \A g \in Names :
       fixed[g].kind = "none" /\ ~CanOperate(g) => fixed'[g] = fixed[g] /\ ~CanOperate(g)'

(* A budget after a call for f.                                            *)
Grown(b, c, f) ==
  /\ c \in BudgetType
  /\ b.files <= c.files /\ b.bytes <= c.bytes
  /\ \A g \in Files \ {f} : c.of[g] = b.of[g]

LEMMA GrownTransitive ==
  ASSUME NEW b \in BudgetType, NEW c, NEW d, NEW f, Grown(b, c, f), Grown(c, d, f)
  PROVE  Grown(b, d, f)
  BY DEF Grown, BudgetType

LEMMA NotedFields ==
  ASSUME NEW b \in BudgetType, NEW f \in Files, NEW o \in Observation, NEW n \in Nat
  PROVE  /\ Grown(b, Noted(b, f, o), f) /\ Noted(b, f, o).of[f] = o
         /\ Noted(b, f, o).bytes = b.bytes /\ Noted(b, f, o).files = b.files
         /\ Grown(b, Charge(b, f, n, o), f) /\ Charge(b, f, n, o).of[f] = o
         /\ Charge(b, f, n, o).bytes = b.bytes + n /\ Charge(b, f, n, o).files = b.files
  <1>1. Noted(b, f, o) \in BudgetType /\ Charge(b, f, n, o) \in BudgetType
    BY NotedType
  <1>2. /\ Noted(b, f, o).files = b.files /\ Noted(b, f, o).bytes = b.bytes
        /\ Noted(b, f, o).of = [b.of EXCEPT ![f] = o]
    BY DEF Noted, BudgetType
  <1>3. /\ Charge(b, f, n, o).files = b.files /\ Charge(b, f, n, o).bytes = b.bytes + n
        /\ Charge(b, f, n, o).of = [b.of EXCEPT ![f] = o]
    <2>1. \A c \in BudgetType : /\ [c EXCEPT !.bytes = @ + n].files = c.files
                               /\ [c EXCEPT !.bytes = @ + n].bytes = c.bytes + n
                               /\ [c EXCEPT !.bytes = @ + n].of = c.of
      BY DEF BudgetType
    <2> QED
      BY <1>1, <1>2, <2>1 DEF Charge
  <1>4. b.of \in [Files -> Observation] /\ b.files \in Nat /\ b.bytes \in Nat
    BY DEF BudgetType
  <1> QED
    BY <1>1, <1>2, <1>3, <1>4 DEF Grown

LEMMA ReservedFields ==
  ASSUME NEW s \in Scopes, NEW f \in Files, budget[s] \in BudgetType
  PROVE  /\ Grown(budget[s], Reserved(s, f), f)
         /\ Reserved(s, f).bytes = budget[s].bytes
         /\ Reserved(s, f).files = budget[s].files + (IF budget[s].of[f].reserved THEN 0 ELSE 1)
         /\ Reserved(s, f).of[f].reserved
         /\ Reserved(s, f).of[f].charged = budget[s].of[f].charged
         /\ Reserved(s, f).of[f].weighed = budget[s].of[f].weighed
         /\ Reserved(s, f).of[f].limit = budget[s].of[f].limit
         /\ Reserved(s, f).of[f].observed = budget[s].of[f].observed
         /\ Reserved(s, f).of[f].body = budget[s].of[f].body
  <1> DEFINE o == [budget[s].of[f] EXCEPT !.reserved = TRUE]
  <1>1. CASE budget[s].of[f].reserved
    <2>1. Reserved(s, f) = budget[s]
      BY <1>1 DEF Reserved
    <2> QED
      BY <1>1, <2>1 DEF Grown, BudgetType
  <1>2. CASE ~budget[s].of[f].reserved
    <2>1. o \in Observation
      BY ZenonT(40) DEF BudgetType, Observation
    <2>2. budget[s].of[f] \in Observation
      BY DEF BudgetType
    <2>3. /\ o.reserved /\ o.charged = budget[s].of[f].charged
          /\ o.weighed = budget[s].of[f].weighed /\ o.limit = budget[s].of[f].limit
          /\ o.observed = budget[s].of[f].observed /\ o.body = budget[s].of[f].body
      BY <2>2 DEF Observation
    <2>4. Reserved(s, f) = [Noted(budget[s], f, o) EXCEPT !.files = @ + 1]
      BY <1>2 DEF Reserved
    <2> HIDE DEF o
    <2>5. Noted(budget[s], f, o) \in BudgetType
      BY <2>1, NotedType
    <2>6. \A c \in BudgetType : /\ [c EXCEPT !.files = @ + 1].files = c.files + 1
                               /\ [c EXCEPT !.files = @ + 1].bytes = c.bytes
                               /\ [c EXCEPT !.files = @ + 1].of = c.of
      BY DEF BudgetType
    <2>7. /\ Reserved(s, f).files = Noted(budget[s], f, o).files + 1
          /\ Reserved(s, f).bytes = Noted(budget[s], f, o).bytes
          /\ Reserved(s, f).of = Noted(budget[s], f, o).of
      BY <2>4, <2>5, <2>6
    <2>8. Reserved(s, f) \in BudgetType
      BY ReservedType
    <2>9. /\ Grown(budget[s], Noted(budget[s], f, o), f) /\ Noted(budget[s], f, o).of[f] = o
          /\ Noted(budget[s], f, o).bytes = budget[s].bytes
          /\ Noted(budget[s], f, o).files = budget[s].files
      BY <2>1, NotedFields
    <2>10. budget[s].files \in Nat /\ budget[s].bytes \in Nat
      BY DEF BudgetType
    <2> QED
      BY <1>2, <2>3, <2>7, <2>8, <2>9, <2>10 DEF Grown
  <1> QED
    BY <1>1, <1>2

LEMMA ChargeObservedFields ==
  ASSUME NEW s \in Scopes, NEW b \in BudgetType, NEW f \in Files, NEW n \in Nat
  PROVE  LET c == ChargeObserved(s, b, f, n) IN
         /\ Grown(b, c, f)
         /\ c.of[f].reserved = b.of[f].reserved /\ c.of[f].weighed = b.of[f].weighed
         /\ c.of[f].charged = (b.of[f].charged \/ n # 0)
         /\ b.of[f].limit # NoLimit => c.of[f].limit # NoLimit
         /\ b.of[f].limit = NoLimit /\ c.of[f].limit # NoLimit =>
              /\ ~b.of[f].charged /\ n # 0 /\ c.of[f].observed = n
              /\ \/ n > ScopeLimits[s].resource
                 \/ c.bytes > ScopeLimits[s].total
  <1> DEFINE c == ChargeObserved(s, b, f, n)
             o == [b.of[f] EXCEPT !.charged = TRUE, !.observed = n,
                                  !.limit = Kept(@, Exceeded(s, b, n, n))]
  <1>1. b.of[f] \in Observation /\ b.bytes \in Nat /\ Exceeded(s, b, n, n) \in LimitType
    BY ExceededType DEF BudgetType
  <1>2. CASE n = 0 \/ b.of[f].charged
    <2>1. c = b
      BY <1>2 DEF ChargeObserved
    <2>2. Grown(b, b, f)
      BY DEF Grown, BudgetType
    <2>3. b.of[f].charged = (b.of[f].charged \/ n # 0)
      BY <1>1, <1>2 DEF Observation
    <2> QED
      BY <2>1, <2>2, <2>3
  <1>3. CASE n # 0 /\ ~b.of[f].charged
    <2>1. o \in Observation
      BY <1>1 DEF Observation, Kept, LimitType
    <2>2. /\ o.reserved = b.of[f].reserved /\ o.weighed = b.of[f].weighed
          /\ o.charged /\ o.observed = n
          /\ o.limit = Kept(b.of[f].limit, Exceeded(s, b, n, n))
      BY <1>1 DEF Observation
    <2>3. c = Charge(b, f, n, o)
      BY <1>3 DEF ChargeObserved
    <2> HIDE DEF o, c
    <2>4. Grown(b, c, f) /\ c.of[f] = o /\ c.bytes = b.bytes + n
      BY <2>1, <2>3, NotedFields
    <2>5. Exceeded(s, b, n, n) # NoLimit =>
            n > ScopeLimits[s].resource \/ b.bytes + n > ScopeLimits[s].total
      BY DEF Exceeded
    <2>6. /\ b.of[f].limit # NoLimit => o.limit # NoLimit
          /\ b.of[f].limit = NoLimit => o.limit = Exceeded(s, b, n, n)
      BY <2>2 DEF Kept
    <2>7. o.charged = (b.of[f].charged \/ n # 0)
      BY <1>1, <1>3, <2>1, <2>2 DEF Observation
    <2> QED
      BY <1>3, <2>2, <2>4, <2>5, <2>6, <2>7 DEF c
  <1> QED
    BY <1>2, <1>3

LEMMA NoLimitIsNone ==
  /\ \A n : <<"total", n>> # NoLimit /\ <<"resource", n>> # NoLimit /\ <<"files", n>> # NoLimit
  BY DEF NoLimit

(* A body that is weighed is given or refused for good.                    *)
LEMMA WeighedFields ==
  ASSUME NEW s \in Scopes, NEW b \in BudgetType, NEW f \in Files, NEW answer \in Answer,
         answer.kind = "loaded" => answer.content \in Contents
  PROVE  LET w == Weighed(s, b, f, answer)  o == w.budget.of[f] IN
         /\ Grown(b, w.budget, f)
         /\ answer.kind # "loaded" => w.budget = b /\ w.answer = answer
         /\ answer.kind = "loaded" =>
              /\ o.reserved = b.of[f].reserved /\ o.charged = b.of[f].charged /\ o.weighed
              /\ w.answer.kind = "loaded" => w.answer = answer
              /\ w.answer.kind # "loaded" =>
                   w.answer.kind = "limit" /\ w.answer.content = Missing /\ o.limit # NoLimit
              /\ b.of[f].limit = NoLimit /\ w.answer.kind = "loaded" => o.limit = NoLimit
              /\ b.of[f].weighed => w.answer = answer
              /\ w.answer.kind = "loaded" /\ ~b.of[f].weighed /\ b.of[f].observed = Size[answer.content] =>
                   /\ ~(Size[answer.content] > ScopeLimits[s].resource)
                   /\ ~(b.bytes > ScopeLimits[s].total)
  <1> DEFINE w == Weighed(s, b, f, answer)
             n == Size[answer.content]
             more == Left(n, b.of[f].observed)
             over == Exceeded(s, b, more, n)
             o == [b.of[f] EXCEPT !.weighed = TRUE, !.body = n, !.limit = Kept(@, over)]
  <1>1. b.of[f] \in Observation /\ b.bytes \in Nat /\ b.of[f].observed \in Nat
    BY DEF BudgetType, Observation
  <1>2. Grown(b, b, f)
    BY DEF Grown, BudgetType
  <1>3. CASE answer.kind # "loaded"
    <2>1. w.budget = b /\ w.answer = answer
      BY <1>3 DEF Weighed
    <2> QED
      BY <1>2, <1>3, <2>1
  <1>4. CASE answer.kind = "loaded" /\ b.of[f].weighed
    <2>1. w.budget = b /\ w.answer = answer
      BY <1>4 DEF Weighed, ChargeBody
    <2> QED
      BY <1>2, <1>4, <2>1
  <1>5. CASE answer.kind = "loaded" /\ ~b.of[f].weighed
    <2>1. n \in Nat /\ over \in LimitType
      BY <1>5, SizeType, ExceededType
    <2>2. more \in Nat /\ (b.of[f].observed = n => more = 0)
      <3>1. \A m, k \in Nat : Left(m, k) \in Nat /\ Left(m, m) = 0
        BY DEF Left
      <3> HIDE DEF n
      <3> QED
        BY <1>1, <2>1, <3>1
    <2>3. o \in Observation
      BY <1>1, <2>1 DEF Observation, Kept, LimitType
    <2>4. /\ o.reserved = b.of[f].reserved /\ o.charged = b.of[f].charged /\ o.weighed
          /\ o.limit = Kept(b.of[f].limit, over)
      BY <1>1 DEF Observation
    <2>5. /\ w.budget = Charge(b, f, more, o)
          /\ w.answer = IF over = NoLimit THEN answer ELSE Limited(over)
      BY <1>5 DEF Weighed, ChargeBody
    <2>6. over = NoLimit => ~(n > ScopeLimits[s].resource) /\ ~(b.bytes + more > ScopeLimits[s].total)
      BY NoLimitIsNone DEF Exceeded
    <2>7. Limited(over).kind = "limit" /\ Limited(over).content = Missing
      BY DEF Limited, Nothing
    <2> HIDE DEF o, over, more, w
    <2>8. Grown(b, w.budget, f) /\ w.budget.of[f] = o
      BY <2>2, <2>3, <2>5, NotedFields
    <2>9. /\ over # NoLimit => o.limit # NoLimit
          /\ over = NoLimit => o.limit = b.of[f].limit
      BY <2>4 DEF Kept
    <2>10. w.answer.kind = "loaded" => over = NoLimit
      BY <2>5, <2>7
    <2>11. b.of[f].observed = n /\ over = NoLimit =>
             ~(n > ScopeLimits[s].resource) /\ ~(b.bytes > ScopeLimits[s].total)
      BY <1>1, <2>2, <2>6
    <2> QED
      BY <1>5, <2>4, <2>5, <2>7, <2>8, <2>9, <2>10, <2>11 DEF w
  <1> QED
    BY <1>3, <1>4, <1>5

LEMMA AllowanceFields ==
  ASSUME IInv, NEW s \in Scopes, NEW f \in Files, NEW b \in BudgetType
  PROVE  LET a == Allowance(s, b, f) IN
         /\ a.refusal # NoLimit =>
              b.of[f].limit # NoLimit \/ (~b.of[f].weighed /\ ScopeLimits[s].total <= b.bytes)
         /\ a.refusal = NoLimit =>
              b.of[f].limit = NoLimit /\ (b.of[f].weighed \/ b.bytes < ScopeLimits[s].total)
         /\ a.limit # NoLimit
  <1> DEFINE o == b.of[f]
             resource == Minimum(ScopeLimits[s].resource, FilesystemLimits.resource)
             left == IF o.weighed THEN resource ELSE Left(ScopeLimits[s].total, b.bytes)
             request == Left(Limits.total, usage.bytes)
             a == Allowance(s, b, f)
  <1>1. resource \in Nat /\ resource > 0
    <2>1. FilesystemLimits.resource = Limits.resource
      BY RequestStateAssumption DEF FilesystemLimits
    <2> QED
      BY <2>1, Scope, Request, LimitsPositive DEF Minimum
  <1>2. b.bytes \in Nat /\ ScopeLimits[s].total \in Nat
    BY Scope DEF BudgetType
  <1>3. left = 0 <=> ~o.weighed /\ ScopeLimits[s].total <= b.bytes
    BY <1>1, <1>2 DEF Left
  <1>4. a.refusal = IF o.limit # NoLimit THEN o.limit
                    ELSE IF left = 0 THEN <<"total", ScopeLimits[s].total>> ELSE NoLimit
    BY DEF Allowance
  <1>5. a.limit # NoLimit
    BY NoLimitIsNone DEF Allowance
  <1> HIDE DEF left, a
  <1>6. /\ a.refusal # NoLimit => o.limit # NoLimit \/ left = 0
        /\ a.refusal = NoLimit => o.limit = NoLimit /\ left # 0
    BY <1>4, NoLimitIsNone
  <1> QED
    BY <1>2, <1>3, <1>5, <1>6 DEF a

LEMMA PhysicalFields ==
  ASSUME NEW c \in Contents \cup {Missing}, NEW max \in Nat, NEW limit
  PROVE  LET a == Physical(c, max, limit) IN
         /\ WellFormed(a)
         /\ a.kind \in {"loaded", "missing", "failed"} \/ (a.kind = "limit" /\ a.limit = limit)
  <1>1. /\ \A l : Limited(l).kind = "limit" /\ Limited(l).limit = l /\ Limited(l).content = Missing
        /\ \A l, n : TooLarge(l, n).kind = "limit" /\ TooLarge(l, n).limit = l
                     /\ TooLarge(l, n).content = Missing
        /\ Absent.kind = "missing" /\ Absent.content = Missing
        /\ \A n : Failed(n).kind = "failed" /\ Failed(n).content = Missing
        /\ \A x, n : Loaded(x, n).kind = "loaded" /\ Loaded(x, n).content = x /\ Loaded(x, n).observed = n
    BY DEF Limited, TooLarge, Absent, Failed, Loaded, Nothing
  <1> DEFINE a == Physical(c, max, limit)
  <1>2. \/ a = Limited(limit) \/ a = Absent \/ a = TooLarge(limit, max + 1)
        \/ a = Failed(Size[c]) \/ a = Loaded(c, Size[c])
    BY DEF Physical
  <1> HIDE DEF a
  <1>3. WellFormed(a) /\ (a.kind \in {"loaded", "missing", "failed"} \/ (a.kind = "limit" /\ a.limit = limit))
    BY <1>1, <1>2 DEF WellFormed
  <1> QED
    BY <1>3 DEF a

(* What a read finds is kept, but for a refusal by the request's limit of  *)
(* files or by the scope alone.                                            *)
LEMMA AcquiredFields ==
  ASSUME AInv, NEW f \in Names, NEW found \in Contents \cup {Missing}, NEW a, Bounded(a)
  PROVE  LET got == Acquired(f, found, a) IN
         /\ WellFormed(got.answer) /\ got.answer.kind # "none"
         /\ got.keep => fixed[f].kind = "none" /\ CanOperate(f)
         /\ fixed[f].kind # "none" => got.answer = fixed[f]
         /\ fixed[f].kind = "none" /\ ~got.keep =>
              /\ got.answer.kind = "limit"
              /\ ~CanOperate(f) \/ (a.specific /\ got.answer.limit = a.limit)
         /\ got.usage \in {usage} \cup {[Operated(f) EXCEPT !.bytes = @ + n] : n \in Nat} \cup {Operated(f)}
         /\ fixed[f].kind = "none" /\ ~CanOperate(f) => got.usage = usage
  <1> DEFINE got == Acquired(f, found, a)
             read == Physical(found, a.max, a.limit)
  <1>0. IInv /\ WellFormed(fixed[f])
    BY DEF AInv
  <1>1. CASE fixed[f].kind # "none"
    <2>1. got.answer = fixed[f] /\ got.keep = FALSE /\ got.usage = usage
      BY <1>1 DEF Acquired
    <2> HIDE DEF got
    <2> QED
      BY <1>0, <1>1, <2>1 DEF got
  <1>2. CASE fixed[f].kind = "none" /\ ~CanOperate(f)
    <2>1. got.answer = Limited(<<"files", FilesystemLimits.files>>) /\ got.keep = FALSE /\ got.usage = usage
      BY <1>2 DEF Acquired
    <2>2. \A l : Limited(l).kind = "limit" /\ Limited(l).content = Missing
      BY DEF Limited, Nothing
    <2> HIDE DEF got
    <2>3. WellFormed(got.answer) /\ got.answer.kind = "limit"
      BY <2>1, <2>2 DEF WellFormed
    <2> QED
      BY <1>2, <2>1, <2>3 DEF got
  <1>3. CASE fixed[f].kind = "none" /\ CanOperate(f) /\ found # Missing /\ Alias(f) # {}
    <2>1. PICK g \in Alias(f) : got.answer = Loaded(fixed[g].content, 0) /\ got.keep = TRUE /\ got.usage = Operated(f)
      BY <1>3 DEF Acquired
    <2>2. \A c : Loaded(c, 0).kind = "loaded" /\ Loaded(c, 0).observed = 0
      BY DEF Loaded, Nothing
    <2> HIDE DEF got
    <2>3. WellFormed(got.answer) /\ got.answer.kind = "loaded"
      BY <2>1, <2>2 DEF WellFormed
    <2> QED
      BY <1>3, <2>1, <2>3 DEF got
  <1>4. CASE /\ fixed[f].kind = "none" /\ CanOperate(f) /\ ~(found # Missing /\ Alias(f) # {})
             /\ f \in Files /\ inspected[f] = "missing"
    <2>1. got.answer = Absent /\ got.keep = TRUE /\ got.usage = Operated(f)
      BY <1>4 DEF Acquired
    <2>2. Absent.kind = "missing" /\ Absent.content = Missing
      BY DEF Absent, Nothing
    <2> HIDE DEF got
    <2>3. WellFormed(got.answer) /\ got.answer.kind = "missing"
      BY <2>1, <2>2 DEF WellFormed
    <2> QED
      BY <1>4, <2>1, <2>3 DEF got
  <1>5. CASE /\ fixed[f].kind = "none" /\ CanOperate(f) /\ ~(found # Missing /\ Alias(f) # {})
             /\ ~(f \in Files /\ inspected[f] = "missing")
    <2>1. /\ got.answer = read /\ got.usage = [Operated(f) EXCEPT !.bytes = @ + read.observed]
          /\ got.keep = ~(a.specific /\ read.kind = "limit")
      BY <1>5 DEF Acquired
    <2>2. /\ WellFormed(read) /\ read.observed \in Nat
          /\ read.kind \in {"loaded", "missing", "failed"} \/ (read.kind = "limit" /\ read.limit = a.limit)
      BY PhysicalType, PhysicalFields DEF Bounded
    <2> HIDE DEF got, read
    <2>3. ~got.keep => got.answer.kind = "limit" /\ a.specific /\ got.answer.limit = a.limit
      BY <2>1, <2>2
    <2> QED
      BY <1>5, <2>1, <2>2, <2>3 DEF got
  <1> QED
    BY <1>1, <1>2, <1>3, <1>4, <1>5

LEMMA KeepLearns ==
  ASSUME AInv, NEW f \in Names, NEW found \in Contents \cup {Missing}, NEW a, Bounded(a),
         NEW got, got = Acquired(f, found, a), Keep(f, got), usage' = got.usage
  PROVE  /\ Learns
         /\ fixed' \in [Names -> Answer] /\ \A g \in Names \ {f} : fixed'[g] = fixed[g]
         /\ fixed[f].kind # "none" => fixed'[f] = got.answer
         /\ got.keep => fixed'[f] = got.answer
         /\ ~got.keep => fixed'[f] = fixed[f]
  <1>1. /\ got.keep => fixed[f].kind = "none" /\ CanOperate(f)
        /\ fixed[f].kind # "none" => got.answer = fixed[f]
        /\ got.usage \in {usage} \cup {[Operated(f) EXCEPT !.bytes = @ + n] : n \in Nat} \cup {Operated(f)}
        /\ fixed[f].kind = "none" /\ ~CanOperate(f) => got.usage = usage
    BY AcquiredFields
  <1>2. fixed \in [Names -> Answer] /\ got.answer \in Answer
    BY AcquiredType DEF AInv, IInv, TypeOK
  <1>3. /\ got.keep => fixed' = [fixed EXCEPT ![f] = got.answer]
        /\ ~got.keep => fixed' = fixed
    BY DEF Keep
  <1>4. usage.operations \in Nat /\ usage.observed \subseteq Names /\ usage \in UsageType
    BY UsageTypes DEF AInv, IInv, WithinRequest
  <1>5. /\ usage.observed \subseteq usage'.observed /\ usage'.observed \subseteq usage.observed \cup {f}
        /\ usage'.operations \in Nat /\ usage.operations <= usage'.operations
    <2>1. \A u \in UsageType, n \in Nat : /\ [u EXCEPT !.bytes = @ + n].observed = u.observed
                                         /\ [u EXCEPT !.bytes = @ + n].operations = u.operations
      BY DEF UsageType
    <2>2. /\ Operated(f) \in UsageType
          /\ usage.observed \subseteq Operated(f).observed /\ Operated(f).observed \subseteq usage.observed \cup {f}
          /\ Operated(f).operations \in Nat /\ usage.operations <= Operated(f).operations
      <3>1. CASE f \in usage.observed
        BY <1>4, <3>1 DEF Operated
      <3>2. CASE f \notin usage.observed
        <4>1. Operated(f) = [operations |-> usage.operations + 1, bytes |-> usage.bytes,
                             observed |-> usage.observed \cup {f}]
          BY <1>4, <3>2 DEF Operated, UsageType
        <4> QED
          BY <1>4, <4>1 DEF UsageType
      <3> QED
        BY <3>1, <3>2
    <2>3. CASE usage' = usage
      BY <1>4, <2>3
    <2>4. CASE usage' = Operated(f)
      BY <2>2, <2>4
    <2>5. ASSUME NEW n \in Nat, usage' = [Operated(f) EXCEPT !.bytes = @ + n]
          PROVE  usage'.observed = Operated(f).observed /\ usage'.operations = Operated(f).operations
      BY <2>1, <2>2, <2>5
    <2> QED
      BY <1>1, <2>2, <2>3, <2>4, <2>5
  <1>6. FilesystemLimits' = FilesystemLimits /\ FilesystemLimits.files \in Nat
    BY Request DEF FilesystemLimits
  <1>7. \A g \in Names : fixed[g].kind = "none" /\ ~CanOperate(g) => ~CanOperate(g)'
    <2> SUFFICES ASSUME NEW g \in Names, fixed[g].kind = "none", ~CanOperate(g) PROVE ~CanOperate(g)'
      OBVIOUS
    <2>1. CASE g = f
      BY <1>1, <2>1, <1>6 DEF CanOperate
    <2>2. CASE g # f
      BY <1>4, <1>5, <1>6, <2>2 DEF CanOperate
    <2> QED
      BY <2>1, <2>2
  <1>8. \A g \in Names : fixed[g].kind # "none" \/ ~CanOperate(g) => fixed'[g] = fixed[g]
    BY <1>1, <1>2, <1>3
  <1> QED
    BY <1>1, <1>2, <1>3, <1>7, <1>8 DEF Learns

-----------------------------------------------------------------------------
(* A reason to refuse a file does not go away, and what was told stays     *)
(* explained, while others are read.                                       *)

LEMMA RefusedStays ==
  ASSUME IInv, Learns, NEW s \in Scopes, NEW f \in Files, Refused(s, f),
         budget'[s].files \in Nat, budget'[s].bytes \in Nat,
         budget[s].files <= budget'[s].files, budget[s].bytes <= budget'[s].bytes,
         budget'[s].of[f] = budget[s].of[f]
  PROVE  Refused(s, f)'
  <1>1. budget[s].files \in Nat /\ budget[s].bytes \in Nat /\ f \in Names
    BY DEF IInv, TypeOK, Names
  <1>2. ScopeLimits[s].files \in Nat /\ ScopeLimits[s].total \in Nat
    BY Scope
  <1>3. ~CanReserve(s, f) => ~CanReserve(s, f)'
    BY <1>1, <1>2 DEF CanReserve
  <1>4. /\ fixed[f].kind = "limit" => fixed'[f].kind = "limit"
        /\ fixed[f].kind = "none" /\ ~CanOperate(f) => fixed'[f].kind = "none" /\ ~CanOperate(f)'
    BY <1>1 DEF Learns
  <1>5. ScopeLimits[s].total <= budget[s].bytes => ScopeLimits[s].total <= budget'[s].bytes
    BY <1>1, <1>2
  <1> QED
    BY <1>3, <1>4, <1>5 DEF Refused

LEMMA ExplainedStays ==
  ASSUME IInv, Learns, NEW s \in Scopes, NEW f \in Files, Explained(s, f),
         budget'[s].files \in Nat, budget'[s].bytes \in Nat,
         budget[s].files <= budget'[s].files, budget[s].bytes <= budget'[s].bytes,
         budget'[s].of[f] = budget[s].of[f], answers'[s][f] = answers[s][f]
  PROVE  Explained(s, f)'
  <1>1. answers[s][f].kind = "limit" => Refused(s, f)'
    BY RefusedStays DEF Explained
  <1>2. fixed[f].kind # "none" => fixed'[f] = fixed[f]
    BY DEF Learns, Names
  <1> QED
    BY <1>1, <1>2 DEF Explained

Stays(before, after) ==
  \/ before.kind = "none"
  \/ after.kind = before.kind /\ after.content = before.content
  \/ before.kind # "loaded" /\ after.kind = "limit"

(* What a call for f does to the budget of s.                              *)
LEMMA ReadEffect ==
  ASSUME AInv, NEW s \in Scopes, NEW f \in Files, NEW found \in Contents \cup {Missing},
         Read(s, f, found)
  PROVE  /\ Learns
         /\ \A g \in Names : fixed'[g] # fixed[g] => WellFormed(fixed'[g])
         /\ Grown(budget[s], budget'[s], f)
         /\ \A t \in Scopes \ {s} : budget'[t] = budget[t]
         /\ \A t \in Scopes, g \in Files : t # s \/ g # f => answers'[t][g] = answers[t][g]
         /\ f \notin Buffers => Explained(s, f)' /\ Stays(answers[s][f], answers'[s][f])
  <1>1. /\ IInv /\ f \in Names /\ budget \in [Scopes -> BudgetType] /\ budget[s] \in BudgetType
        /\ answers \in [Scopes -> [Files -> Answer]]
    BY DEF AInv, IInv, TypeOK, BudgetType, Names
  <1> DEFINE b == Reserved(s, f)
  <1>2. /\ Grown(budget[s], b, f) /\ b.bytes = budget[s].bytes /\ b.of[f].reserved
        /\ b.of[f].charged = budget[s].of[f].charged
        /\ b.of[f].weighed = budget[s].of[f].weighed /\ b.of[f].limit = budget[s].of[f].limit
    BY <1>1, ReservedFields
  <1>3. b \in BudgetType
    BY <1>2 DEF Grown
  <1>4. \A a : Tell(s, f, a) => /\ answers'[s][f] = a
                                /\ \A t \in Scopes, g \in Files : t # s \/ g # f => answers'[t][g] = answers[t][g]
    BY <1>1 DEF Tell
  <1>5. \A c : Budget(s, c) => budget'[s] = c /\ \A t \in Scopes \ {s} : budget'[t] = budget[t]
    BY <1>1 DEF Budget
  <1>6. \A l : Limited(l).kind = "limit" /\ Limited(l).content = Missing
    BY DEF Limited, Nothing
  <1>7. UNCHANGED <<fixed, usage>> => Learns
    BY DEF Learns, CanOperate, FilesystemLimits
  <1>8. f \notin Buffers => Explained(s, f)
    BY DEF AInv
  <1>9. Grown(budget[s], budget[s], f)
    BY <1>1 DEF Grown, BudgetType
  <1>10. CASE ~CanReserve(s, f)
    <2>1. Tell(s, f, Limited(<<"files", ScopeLimits[s].files>>)) /\ UNCHANGED <<fixed, usage, budget>>
      BY <1>10 DEF Read
    <2>2. answers'[s][f].kind = "limit" /\ answers'[s][f].content = Missing
      BY <1>4, <1>6, <2>1
    <2>3. ~budget[s].of[f].reserved /\ Refused(s, f)'
      BY <1>10, <2>1 DEF CanReserve, Refused
    <2>4. f \notin Buffers => Explained(s, f)' /\ Stays(answers[s][f], answers'[s][f])
      BY <1>8, <2>1, <2>2, <2>3 DEF Explained, Stays
    <2> QED
      BY <1>4, <1>7, <1>9, <2>1, <2>4
  <1>11. CASE CanReserve(s, f) /\ f \in Buffers
    <2> DEFINE done == Weighed(s, b, f, Loaded(Held[f], 0))
    <2>1. Budget(s, done.budget) /\ Tell(s, f, done.answer) /\ UNCHANGED <<fixed, usage>>
      BY <1>11 DEF Read
    <2>2. Held[f] \in Contents
      BY <1>11, RequestStateAssumption
    <2>3. Loaded(Held[f], 0) \in Answer /\ Loaded(Held[f], 0).content \in Contents
      BY <2>2, AnswerTypes, AnswerFields
    <2>4. Grown(b, done.budget, f)
      BY <1>3, <2>3, WeighedFields
    <2> HIDE DEF done, b
    <2>5. Grown(budget[s], done.budget, f)
      BY <1>1, <1>2, <2>4, GrownTransitive
    <2> QED
      BY <1>4, <1>5, <1>7, <1>11, <2>1, <2>5
  <1>12. CASE CanReserve(s, f) /\ f \notin Buffers
    <2> DEFINE a == Allowance(s, b, f)
               got == Acquired(f, found, a)
               n == got.answer.observed
               charged == ChargeObserved(s, b, f, n)
               refused == a.specific /\ got.answer.kind = "limit" /\ got.answer.limit = a.limit
               noted == IF ~refused THEN charged
                        ELSE Noted(charged, f, [charged.of[f] EXCEPT !.limit = a.limit])
               done == Weighed(s, noted, f, got.answer)
    <2>1. IF a.refusal # NoLimit
          THEN Budget(s, b) /\ Tell(s, f, Limited(a.refusal)) /\ UNCHANGED <<fixed, usage>>
          ELSE /\ Budget(s, done.budget) /\ Tell(s, f, done.answer)
               /\ Keep(f, got) /\ usage' = got.usage
      BY <1>12 DEF Read
    <2>2. /\ a.refusal # NoLimit =>
               b.of[f].limit # NoLimit \/ (~b.of[f].weighed /\ ScopeLimits[s].total <= b.bytes)
          /\ a.refusal = NoLimit =>
               b.of[f].limit = NoLimit /\ (b.of[f].weighed \/ b.bytes < ScopeLimits[s].total)
          /\ a.limit # NoLimit
      BY <1>1, <1>3, AllowanceFields
    <2>3. Bounded(a)
      BY <1>1, <1>3, AllowanceType
    <2>4. Explained(s, f)
      BY <1>8, <1>12
    <2>5. CASE a.refusal # NoLimit
      <3>1. /\ budget'[s] = b /\ answers'[s][f].kind = "limit" /\ answers'[s][f].content = Missing
            /\ fixed' = fixed
        BY <1>4, <1>5, <1>6, <2>1, <2>5
      <3>2. Refused(s, f)'
        BY <2>2, <2>5, <3>1 DEF Refused
      <3>3. answers[s][f].kind # "loaded"
        BY <1>2, <2>2, <2>4, <2>5 DEF Explained
      <3> HIDE DEF b, a
      <3>4. Explained(s, f)' /\ Stays(answers[s][f], answers'[s][f])
        BY <1>2, <2>4, <3>1, <3>2, <3>3 DEF Explained, Stays
      <3> QED
        BY <1>2, <1>4, <1>5, <1>7, <2>1, <2>5, <3>1, <3>4
    <2>6. CASE a.refusal = NoLimit
      <3>1. /\ Budget(s, done.budget) /\ Tell(s, f, done.answer)
            /\ Keep(f, got) /\ usage' = got.usage
        BY <2>1, <2>6
      <3>2. /\ got.answer \in Answer /\ n \in Nat
            /\ got.answer.kind = "loaded" => got.answer.content \in Contents
        BY <1>1, <2>3, AcquiredType DEF Answer
      <3>3. /\ WellFormed(got.answer) /\ got.answer.kind # "none"
            /\ got.keep => fixed[f].kind = "none" /\ CanOperate(f)
            /\ fixed[f].kind # "none" => got.answer = fixed[f]
            /\ fixed[f].kind = "none" /\ ~got.keep =>
                 /\ got.answer.kind = "limit"
                 /\ ~CanOperate(f) \/ (a.specific /\ got.answer.limit = a.limit)
        BY <1>1, <2>3, AcquiredFields
      <3>4. /\ Learns
            /\ \A g \in Names \ {f} : fixed'[g] = fixed[g]
            /\ fixed[f].kind # "none" => fixed'[f] = got.answer
            /\ got.keep => fixed'[f] = got.answer
            /\ ~got.keep => fixed'[f] = fixed[f]
        <4>1. got = Acquired(f, found, a)
          OBVIOUS
        <4>2. Keep(f, got) /\ usage' = got.usage /\ f \in Names
          BY <1>1, <3>1
        <4> HIDE DEF a, got
        <4> QED
          BY ONLY AInv, found \in Contents \cup {Missing}, <2>3, <4>1, <4>2, KeepLearns
      <3>5. /\ Grown(b, charged, f)
            /\ charged.of[f].reserved = b.of[f].reserved /\ charged.of[f].weighed = b.of[f].weighed
            /\ charged.of[f].charged = (b.of[f].charged \/ n # 0)
            /\ b.of[f].limit = NoLimit /\ charged.of[f].limit # NoLimit =>
                 /\ ~b.of[f].charged /\ n # 0 /\ charged.of[f].observed = n
                 /\ n > ScopeLimits[s].resource \/ charged.bytes > ScopeLimits[s].total
        <4> HIDE DEF n, b
        <4> QED
          BY <1>3, <3>2, ChargeObservedFields
      <3>6. /\ Grown(charged, noted, f)
            /\ ~refused => noted = charged
            /\ refused => /\ noted.of[f].limit # NoLimit
                          /\ noted.of[f].weighed = charged.of[f].weighed
                          /\ noted.of[f].charged = charged.of[f].charged
        <4> DEFINE o == [charged.of[f] EXCEPT !.limit = a.limit]
        <4> HIDE DEF charged, refused, a
        <4>1. charged \in BudgetType /\ charged.of[f] \in Observation /\ a.limit \in LimitType
          BY <2>3, <3>5 DEF Grown, BudgetType, Bounded
        <4>2. /\ o \in Observation /\ o.limit = a.limit
              /\ o.weighed = charged.of[f].weighed /\ o.charged = charged.of[f].charged
          BY <4>1 DEF Observation, LimitType
        <4>3. Grown(charged, charged, f)
          BY <4>1 DEF Grown, BudgetType
        <4> HIDE DEF o
        <4>4. Grown(charged, Noted(charged, f, o), f) /\ Noted(charged, f, o).of[f] = o
          BY <4>1, <4>2, NotedFields
        <4>5. noted = IF ~refused THEN charged ELSE Noted(charged, f, o)
          BY DEF o
        <4> HIDE DEF noted
        <4> QED
          BY <2>2, <4>2, <4>3, <4>4, <4>5
      <3> HIDE DEF b, a, got, n, charged, noted
      <3>7. /\ Grown(noted, done.budget, f)
            /\ got.answer.kind # "loaded" => done.budget = noted /\ done.answer = got.answer
            /\ got.answer.kind = "loaded" =>
                 /\ done.budget.of[f].reserved = noted.of[f].reserved
                 /\ done.budget.of[f].charged = noted.of[f].charged /\ done.budget.of[f].weighed
                 /\ done.answer.kind = "loaded" => done.answer = got.answer
                 /\ done.answer.kind # "loaded" =>
                      /\ done.answer.kind = "limit" /\ done.answer.content = Missing
                      /\ done.budget.of[f].limit # NoLimit
                 /\ noted.of[f].limit = NoLimit /\ done.answer.kind = "loaded" =>
                      done.budget.of[f].limit = NoLimit
                 /\ noted.of[f].weighed => done.answer = got.answer
                 /\ done.answer.kind = "loaded" /\ ~noted.of[f].weighed
                      /\ noted.of[f].observed = Size[got.answer.content] =>
                      /\ ~(Size[got.answer.content] > ScopeLimits[s].resource)
                      /\ ~(noted.bytes > ScopeLimits[s].total)
        <4>1. noted \in BudgetType
          BY <3>6 DEF Grown
        <4> QED
          BY <3>2, <4>1, WeighedFields
      <3> HIDE DEF done
      <3>8. /\ budget'[s] = done.budget /\ answers'[s][f] = done.answer
            /\ \A t \in Scopes \ {s} : budget'[t] = budget[t]
            /\ \A t \in Scopes, g \in Files : t # s \/ g # f => answers'[t][g] = answers[t][g]
        BY <1>4, <1>5, <3>1
      <3>9. Grown(budget[s], budget'[s], f)
        <4>1. b \in BudgetType /\ charged \in BudgetType /\ noted \in BudgetType
          BY <1>3, <3>5, <3>6 DEF Grown
        <4>2. Grown(b, noted, f)
          BY <3>5, <3>6, <4>1, GrownTransitive
        <4>3. Grown(b, done.budget, f)
          BY <3>7, <4>1, <4>2, GrownTransitive
        <4> QED
          BY <1>1, <1>2, <3>8, <4>3, GrownTransitive
      <3>10. Stays(answers[s][f], done.answer)
        <4>1. CASE answers[s][f].kind = "loaded"
          <5>1. fixed[f].kind = "loaded" /\ fixed[f].content = answers[s][f].content /\ b.of[f].weighed
            BY <1>2, <2>4, <4>1 DEF Explained
          <5>2. got.answer = fixed[f] /\ noted.of[f].weighed
            BY <3>3, <3>5, <3>6, <5>1
          <5> QED
            BY <3>7, <4>1, <5>1, <5>2 DEF Stays
        <4>2. CASE answers[s][f].kind \in {"missing", "failed"}
          <5>1. fixed[f].kind = answers[s][f].kind /\ answers[s][f].content = Missing
            BY <2>4, <4>2 DEF Explained
          <5>2. got.answer = fixed[f]
            BY <3>3, <4>2, <5>1
          <5>3. done.answer = got.answer /\ got.answer.content = Missing
            BY <3>3, <3>7, <4>2, <5>1, <5>2 DEF WellFormed
          <5> QED
            BY <5>1, <5>2, <5>3 DEF Stays
        <4>3. CASE answers[s][f].kind = "limit"
          <5>1. \/ fixed[f].kind = "limit"
                \/ fixed[f].kind = "none" /\ ~CanOperate(f)
            <6>1. Refused(s, f)
              BY <2>4, <4>3 DEF Explained
            <6>2. ~(ScopeLimits[s].total <= b.bytes) \/ b.of[f].weighed
              BY <1>3, <2>2, <2>6, Scope DEF BudgetType
            <6> QED
              BY <1>2, <1>12, <2>2, <2>6, <6>1, <6>2 DEF Refused
          <5>2. got.answer.kind = "limit"
            BY <3>3, <5>1
          <5>3. done.answer = got.answer
            BY <3>7, <5>2
          <5> QED
            BY <4>3, <5>2, <5>3 DEF Stays
        <4>4. answers[s][f].kind \in {"none", "loaded", "missing", "failed", "limit"}
          BY <1>1 DEF Answer
        <4> QED
          BY <4>1, <4>2, <4>3, <4>4 DEF Stays
      <3>11. Explained(s, f)'
        <4>1. got.answer.kind # "limit" => fixed'[f] = got.answer
          BY <3>3, <3>4
        <4>2. got.answer.kind = "loaded" => ~refused /\ noted = charged
          BY <3>6
        <4>3. done.answer.kind = "loaded" =>
                /\ done.budget.of[f].reserved /\ done.budget.of[f].weighed
                /\ done.budget.of[f].limit = NoLimit
                /\ fixed'[f].kind = "loaded" /\ fixed'[f].content = done.answer.content
          <5> SUFFICES ASSUME done.answer.kind = "loaded"
                       PROVE  /\ done.budget.of[f].reserved /\ done.budget.of[f].weighed
                              /\ done.budget.of[f].limit = NoLimit
                              /\ fixed'[f].kind = "loaded" /\ fixed'[f].content = done.answer.content
            OBVIOUS
          <5>1. got.answer.kind = "loaded" /\ done.answer = got.answer
            BY <3>7
          <5>2. charged.of[f].limit = NoLimit
            <6> SUFFICES ASSUME charged.of[f].limit # NoLimit PROVE FALSE
              OBVIOUS
            <6>1. /\ ~b.of[f].charged /\ n # 0 /\ charged.of[f].observed = n
                  /\ n > ScopeLimits[s].resource \/ charged.bytes > ScopeLimits[s].total
              BY <2>2, <2>6, <3>5
            <6>2. n = Size[got.answer.content]
              BY <3>3, <5>1, <6>1 DEF WellFormed, n
            <6>3. ~b.of[f].weighed
              <7>1. b.of[f].weighed => fixed[f].kind = "loaded" /\ fixed[f].observed = 0
                BY <1>2, <2>4, <6>1 DEF Explained
              <7> QED
                BY <3>3, <6>1, <7>1 DEF n
            <6> QED
              BY <3>5, <3>7, <4>2, <5>1, <6>1, <6>2, <6>3
          <5> QED
            BY <1>2, <3>5, <3>7, <4>1, <4>2, <5>1, <5>2
        <4>4. done.answer.kind \in {"missing", "failed"} => fixed'[f].kind = done.answer.kind
          BY <3>7, <4>1
        <4>5. done.answer.kind # "loaded" => done.answer.content = Missing
          BY <3>3, <3>7 DEF WellFormed
        <4>6. done.answer.kind = "limit" => Refused(s, f)'
          <5> SUFFICES ASSUME done.answer.kind = "limit" PROVE Refused(s, f)'
            OBVIOUS
          <5>1. CASE done.budget.of[f].limit # NoLimit
            BY <3>8, <5>1 DEF Refused
          <5>2. CASE done.budget.of[f].limit = NoLimit
            <6>1. got.answer.kind = "limit" /\ done.budget = noted
              BY <3>7, <5>2
            <6>2. ~refused
              BY <3>6, <5>2, <6>1
            <6>3. CASE fixed[f].kind # "none" \/ got.keep
              <7>1. fixed'[f] = got.answer
                BY <3>4, <6>3
              <7> QED
                BY <6>1, <7>1 DEF Refused
            <6>4. CASE fixed[f].kind = "none" /\ ~got.keep
              <7>1. ~CanOperate(f)
                BY <3>3, <6>1, <6>2, <6>4
              <7> QED
                BY <1>1, <3>4, <6>4, <7>1 DEF Learns, Refused
            <6> QED
              BY <6>3, <6>4
          <5> QED
            BY <5>1, <5>2
        <4>7. done.budget.of[f].weighed =>
                fixed'[f].kind = "loaded" /\ (done.budget.of[f].charged \/ fixed'[f].observed = 0)
          <5>1. CASE got.answer.kind = "loaded"
            <6>1. fixed'[f] = got.answer /\ done.budget.of[f].charged = charged.of[f].charged
              BY <3>7, <4>1, <4>2, <5>1
            <6>2. charged.of[f].charged \/ n = 0
              BY <3>5
            <6> QED
              BY <5>1, <6>1, <6>2 DEF n
          <5>2. CASE got.answer.kind # "loaded"
            <6>1. done.budget.of[f].weighed = budget[s].of[f].weighed
              BY <1>2, <3>5, <3>6, <3>7, <5>2
            <6>2. budget[s].of[f].weighed => fixed[f].kind = "loaded"
              BY <2>4 DEF Explained
            <6>3. ~budget[s].of[f].weighed
              BY <3>3, <5>2, <6>2
            <6> QED
              BY <6>1, <6>3
          <5> QED
            BY <5>1, <5>2
        <4> QED
          BY <3>8, <4>3, <4>4, <4>5, <4>6, <4>7 DEF Explained
      <3> QED
        BY <3>3, <3>4, <3>8, <3>9, <3>10, <3>11
    <2> QED
      BY <2>5, <2>6
  <1> QED
    BY <1>10, <1>11, <1>12

-----------------------------------------------------------------------------
LEMMA InitAInv == Init => AInv
  <1> SUFFICES ASSUME Init PROVE AInv
    OBVIOUS
  <1>1. Nothing.kind = "none" /\ Nothing.content = Missing
    BY DEF Nothing
  <1>2. \A g \in Names : WellFormed(fixed[g])
    BY <1>1 DEF Init, WellFormed
  <1>3. ~Unobserved.weighed
    BY DEF Unobserved
  <1>4. \A s \in Scopes, f \in Files : answers[s][f] = Nothing /\ budget[s].of[f] = Unobserved
    BY DEF Init
  <1>5. \A s \in Scopes, f \in Files : Explained(s, f)
    BY <1>1, <1>3, <1>4 DEF Explained
  <1> QED
    BY <1>2, <1>5, InitIInv DEF AInv

(* One call changes what one scope was told of one file, as it may.        *)
LEMMA ReadAInv ==
  ASSUME AInv, IInv', NEW s \in Scopes, NEW f \in Files, NEW found \in Contents \cup {Missing},
         Read(s, f, found)
  PROVE  /\ AInv'
         /\ \A t \in Scopes, g \in Files \ Buffers : Stays(answers[t][g], answers'[t][g])
  <1>1. /\ Learns
        /\ \A g \in Names : fixed'[g] # fixed[g] => WellFormed(fixed'[g])
        /\ Grown(budget[s], budget'[s], f)
        /\ \A t \in Scopes \ {s} : budget'[t] = budget[t]
        /\ \A t \in Scopes, g \in Files : t # s \/ g # f => answers'[t][g] = answers[t][g]
        /\ f \notin Buffers => Explained(s, f)' /\ Stays(answers[s][f], answers'[s][f])
    BY ReadEffect
  <1>2. \A t \in Scopes : budget[t] \in BudgetType
    BY DEF AInv, IInv, TypeOK, BudgetType
  <1>3. \A g \in Names : WellFormed(fixed'[g])
    BY <1>1 DEF AInv
  <1>4. ASSUME NEW t \in Scopes, NEW g \in Files \ Buffers
        PROVE  Explained(t, g)' /\ Stays(answers[t][g], answers'[t][g])
    <2>1. CASE t = s /\ g = f
      BY <1>1, <1>4, <2>1
    <2>2. CASE t # s \/ g # f
      <3>1. answers'[t][g] = answers[t][g]
        BY <1>1, <1>4, <2>2
      <3>2. /\ budget'[t].files \in Nat /\ budget'[t].bytes \in Nat
            /\ budget[t].files <= budget'[t].files /\ budget[t].bytes <= budget'[t].bytes
            /\ budget'[t].of[g] = budget[t].of[g]
        <4>1. CASE t = s
          BY <1>1, <1>4, <2>2, <4>1 DEF Grown, BudgetType
        <4>2. CASE t # s
          BY <1>1, <1>2, <1>4, <4>2 DEF BudgetType
        <4> QED
          BY <4>1, <4>2
      <3>3. Explained(t, g)'
        BY <1>1, <1>4, <3>1, <3>2, ExplainedStays DEF AInv
      <3> QED
        BY <3>1, <3>3 DEF Stays
    <2> QED
      BY <2>1, <2>2
  <1>5. AInv'
    BY <1>3, <1>4 DEF AInv, WellFormed
  <1> QED
    BY <1>4, <1>5

(* Calls that tell no target anything.                                     *)
LEMMA SilentAInv ==
  ASSUME AInv, IInv', Learns, UNCHANGED <<budget, answers>>,
         \A g \in Names : fixed'[g] # fixed[g] => WellFormed(fixed'[g])
  PROVE  /\ AInv'
         /\ \A t \in Scopes, g \in Files \ Buffers : Stays(answers[t][g], answers'[t][g])
  <1>1. \A t \in Scopes : budget[t] \in BudgetType
    BY DEF AInv, IInv, TypeOK, BudgetType
  <1>2. ASSUME NEW t \in Scopes, NEW g \in Files \ Buffers PROVE Explained(t, g)'
    <2>1. budget[t].files \in Nat /\ budget[t].bytes \in Nat
      BY <1>1 DEF BudgetType
    <2> QED
      BY <2>1, ExplainedStays DEF AInv
  <1>3. \A g \in Names : WellFormed(fixed'[g])
    BY DEF AInv
  <1>4. AInv'
    BY <1>2, <1>3 DEF AInv, WellFormed
  <1> QED
    BY <1>4 DEF Stays

LEMMA StepAInv ==
  ASSUME AInv, [Next]_vars
  PROVE  /\ AInv'
         /\ \A s \in Scopes, f \in Files \ Buffers : Stays(answers[s][f], answers'[s][f])
  <1>1. IInv'
    BY StepIInv DEF AInv
  <1>2. ASSUME NEW s \in Scopes, NEW f \in Files, NEW found \in Contents \cup {Missing}, Read(s, f, found)
        PROVE  /\ AInv'
               /\ \A t \in Scopes, g \in Files \ Buffers : Stays(answers[t][g], answers'[t][g])
    BY <1>1, <1>2, ReadAInv
  <1>3. ASSUME NEW f \in Configs, NEW found \in Contents \cup {Missing}, ReadConfig(f, found)
        PROVE  /\ AInv'
               /\ \A t \in Scopes, g \in Files \ Buffers : Stays(answers[t][g], answers'[t][g])
    <2> DEFINE got == Acquired(f, found, RequestAllowance)
    <2>1. Keep(f, got) /\ usage' = got.usage /\ UNCHANGED <<budget, answers>>
      BY <1>3 DEF ReadConfig
    <2>2. f \in Names /\ Bounded(RequestAllowance) /\ got = Acquired(f, found, RequestAllowance)
      BY RequestAllowanceType DEF Names, AInv
    <2>3. WellFormed(got.answer)
      BY <2>2, AcquiredFields
    <2> HIDE DEF got
    <2>4. /\ Learns /\ \A g \in Names \ {f} : fixed'[g] = fixed[g]
          /\ got.keep => fixed'[f] = got.answer
          /\ ~got.keep => fixed'[f] = fixed[f]
      BY <2>1, <2>2, KeepLearns
    <2>5. \A g \in Names : fixed'[g] # fixed[g] => WellFormed(fixed'[g])
      BY <2>3, <2>4
    <2> QED
      BY <1>1, <2>1, <2>4, <2>5, SilentAInv
  <1>4. ASSUME NEW f \in Files, NEW found \in Contents \cup {Missing}, Inspect(f, found)
        PROVE  /\ AInv'
               /\ \A t \in Scopes, g \in Files \ Buffers : Stays(answers[t][g], answers'[t][g])
    <2>1. UNCHANGED <<fixed, budget, answers>>
      BY <1>4 DEF Inspect
    <2>2. usage' = usage \/ (CanOperate(f) /\ usage' = Operated(f))
      BY <1>4 DEF Inspect
    <2>3. usage.operations \in Nat /\ usage.observed \subseteq Names /\ usage \in UsageType
      BY UsageTypes DEF AInv, IInv, WithinRequest
    <2>4. FilesystemLimits' = FilesystemLimits /\ FilesystemLimits.files \in Nat
      BY Request DEF FilesystemLimits
    <2>5. ASSUME NEW g \in Names, ~CanOperate(g) PROVE ~CanOperate(g)'
      <3>1. CASE usage' = usage
        BY <2>4, <2>5, <3>1 DEF CanOperate
      <3>2. CASE CanOperate(f) /\ usage' = Operated(f) /\ f \in usage.observed
        BY <2>4, <2>5, <3>2 DEF CanOperate, Operated
      <3>3. CASE CanOperate(f) /\ usage' = Operated(f) /\ f \notin usage.observed
        BY <2>3, <2>4, <2>5, <3>3 DEF CanOperate
      <3> QED
        BY <2>2, <3>1, <3>2, <3>3
    <2>6. Learns
      BY <2>1, <2>5 DEF Learns
    <2> QED
      BY <1>1, <2>1, <2>6, SilentAInv
  <1>5. CASE UNCHANGED vars
    <2>1. Learns
      BY <1>5 DEF vars, Learns, CanOperate, FilesystemLimits
    <2> QED
      BY <1>1, <1>5, <2>1, SilentAInv DEF vars
  <1> QED
    BY <1>2, <1>3, <1>4, <1>5 DEF Next

(* The targets of a configuration never hear two things about a file: what *)
(* fix_limit, the fixed resources and the observations of a scope remember *)
(* is enough to give every answer again, for any files, links and limits   *)
(* and whatever changes on disk.                                           *)
THEOREM AnswersKept == Spec => AnswersStay
  <1> DEFINE Step == \A s \in Scopes, f \in Files \ Buffers : Stays(answers[s][f], answers'[s][f])
  <1>1. AInv /\ [Next]_vars => AInv' /\ Step
    BY StepAInv
  <1>2. Spec => [][Step]_vars
    BY <1>1, InitAInv, PTL DEF Spec
  <1> QED
    BY <1>2 DEF AnswersStay, Stays
-----------------------------------------------------------------------------
(* Sums.  The sum of a function over a finite set counts the units its     *)
(* values are made of.                                                     *)

Units(g, T) == UNION {{x} \X (1..g[x]) : x \in T}

LEMMA UnitsFinite ==
  ASSUME NEW T, IsFiniteSet(T), NEW g, \A x \in T : g[x] \in Nat
  PROVE  IsFiniteSet(Units(g, T))
  <1> DEFINE column == [x \in T |-> {x} \X (1..g[x])]
             columns == {{x} \X (1..g[x]) : x \in T}
  <1>1. column \in Surjection(T, columns)
    BY DEF Surjection
  <1>2. IsFiniteSet(columns)
    BY <1>1, FS_Surjection
  <1>3. ASSUME NEW c \in columns PROVE IsFiniteSet(c)
    <2>1. PICK x \in T : c = {x} \X (1..g[x])
      OBVIOUS
    <2>2. \A n \in Nat : IsFiniteSet(1..n)
      BY FS_Interval
    <2>3. IsFiniteSet({x}) /\ IsFiniteSet(1..g[x])
      BY <2>2, FS_Singleton
    <2> QED
      BY <2>1, <2>3, FS_Product
  <1> QED
    BY <1>2, <1>3, FS_UNION DEF Units

LEMMA UnitsAdd ==
  ASSUME NEW T, IsFiniteSet(T), NEW g, \A x \in T : g[x] \in Nat, NEW x \in T
  PROVE  /\ Cardinality(Units(g, T)) \in Nat /\ Cardinality(Units(g, T \ {x})) \in Nat
         /\ Cardinality(Units(g, T)) = g[x] + Cardinality(Units(g, T \ {x}))
  <1> DEFINE mine == {x} \X (1..g[x])
             rest == Units(g, T \ {x})
  <1>1. Units(g, T) = mine \cup rest /\ mine \cap rest = {}
    BY DEF Units
  <1>2. IsFiniteSet(T \ {x})
    BY FS_RemoveElement
  <1>3. IsFiniteSet(rest)
    BY <1>2, UnitsFinite
  <1>4. IsFiniteSet(mine) /\ Cardinality(mine) = g[x]
    <2>1. IsFiniteSet({x}) /\ Cardinality({x}) = 1
      BY FS_Singleton
    <2>2. \A n \in Nat : IsFiniteSet(1..n) /\ Cardinality(1..n) = n
      BY FS_Interval
    <2>3. \A n \in Nat : IsFiniteSet({x} \X (1..n)) /\ Cardinality({x} \X (1..n)) = 1 * n
      BY <2>1, <2>2, FS_Product
    <2>4. \A n \in Nat : 1 * n = n
      OBVIOUS
    <2> QED
      BY <2>3, <2>4
  <1> HIDE DEF mine, rest
  <1>5. Cardinality(mine \cup rest) = Cardinality(mine) + Cardinality(rest) - Cardinality(mine \cap rest)
    BY <1>3, <1>4, FS_Union
  <1>6. Cardinality(rest) \in Nat /\ Cardinality(mine \cap rest) = 0
    BY <1>1, <1>3, FS_EmptySet, FS_CardinalityType
  <1> QED
    BY <1>1, <1>4, <1>5, <1>6 DEF rest

(* Induction over the subsets of a finite set.                             *)
LEMMA SmallestSubset ==
  ASSUME NEW S, IsFiniteSet(S), NEW D \in SUBSET SUBSET S, D # {}
  PROVE  \E d \in D : \A e \in D : ~(e \subseteq d /\ e # d)
  <1> DEFINE R == StrictSubsetOrdering(S)
  <1>1. IsWellFoundedOn(R, FiniteSubsetsOf(S))
    BY FS_StrictSubsetOrderingWellFounded
  <1>2. FiniteSubsetsOf(S) = SUBSET S
    BY FS_FiniteSubsetsOfFinite
  <1>3. \A e, d \in SUBSET S : <<e, d>> \in R <=> e \subseteq d /\ e # d
    BY DEF StrictSubsetOrdering
  <1> HIDE DEF R
  <1>4. \E d \in D : \A e \in D : ~(<<e, d>> \in R)
    BY <1>1, <1>2, WFMin
  <1> QED
    BY <1>3, <1>4

LEMMA SumIsUnits ==
  ASSUME NEW S, IsFiniteSet(S), NEW g, \A x \in S : g[x] \in Nat
  PROVE  SumFunctionOnSet(g, S) = Cardinality(Units(g, S))
  <1> DEFINE first(s) == CHOOSE x \in s : TRUE
             Step(h) == [s \in SUBSET S |-> IF s = {} THEN 0 ELSE g[first(s)] + h[s \ {first(s)}]]
             count == [s \in SUBSET S |-> Cardinality(Units(g, s))]
             iter == CHOOSE h : h = Step(h)
  <1>1. SumFunctionOnSet(g, S) = iter[S]
    BY DEF SumFunctionOnSet, FoldFunctionOnSet, MapThenFoldSet
  <1>2. ASSUME NEW s \in SUBSET S
        PROVE  /\ s = {} => count[s] = 0
               /\ s # {} => first(s) \in s /\ s \ {first(s)} \in SUBSET S
                            /\ count[s] = g[first(s)] + count[s \ {first(s)}]
    <2>1. Units(g, {}) = {} /\ Cardinality({}) = 0
      BY FS_EmptySet DEF Units
    <2>2. IsFiniteSet(s)
      BY FS_Subset
    <2>3. s # {} => first(s) \in s
      OBVIOUS
    <2>4. \A x \in s : count[s] = g[x] + count[s \ {x}]
      <3>1. \A x \in s : Cardinality(Units(g, s)) = g[x] + Cardinality(Units(g, s \ {x}))
        BY <2>2, UnitsAdd
      <3> QED
        BY <3>1
    <2> HIDE DEF first
    <2> QED
      BY <2>1, <2>3, <2>4
  <1> HIDE DEF first
  <1>3. count = Step(count)
    BY <1>2
  <1>4. iter = Step(iter)
    <2> HIDE DEF count, Step
    <2> QED
      BY <1>3
  <1> HIDE DEF iter, count
  <1>5. \A s \in SUBSET S : iter[s] = IF s = {} THEN 0 ELSE g[first(s)] + iter[s \ {first(s)}]
    BY <1>4
  <1> DEFINE Wrong == {s \in SUBSET S : iter[s] # count[s]}
  <1>6. Wrong = {}
    <2> SUFFICES ASSUME Wrong # {} PROVE FALSE
      OBVIOUS
    <2>1. PICK s \in Wrong : \A e \in Wrong : ~(e \subseteq s /\ e # s)
      <3>1. Wrong \in SUBSET SUBSET S
        OBVIOUS
      <3> HIDE DEF Wrong
      <3> QED
        BY <3>1, SmallestSubset
    <2>2. s # {}
      BY <1>2, <1>5
    <2>3. first(s) \in s /\ s \ {first(s)} \notin Wrong
      BY <1>2, <2>1, <2>2
    <2> QED
      BY <1>2, <1>5, <2>2, <2>3
  <1> QED
    BY <1>1, <1>6 DEF count

LEMMA SumType ==
  ASSUME NEW S, IsFiniteSet(S), NEW g \in [S -> Nat]
  PROVE  SumFunction(g) \in Nat /\ SumFunction(g) = Cardinality(Units(g, S))
  <1>1. SumFunction(g) = SumFunctionOnSet(g, S)
    BY DEF SumFunction
  <1>2. IsFiniteSet(Units(g, S))
    BY UnitsFinite
  <1> QED
    BY <1>1, <1>2, SumIsUnits, FS_CardinalityType

LEMMA SumReplace ==
  ASSUME NEW S, IsFiniteSet(S), NEW g \in [S -> Nat], NEW h \in [S -> Nat], NEW x \in S,
         \A y \in S \ {x} : h[y] = g[y]
  PROVE  SumFunction(h) + g[x] = SumFunction(g) + h[x]
  <1>1. Units(h, S \ {x}) = Units(g, S \ {x})
    BY DEF Units
  <1>2. /\ Cardinality(Units(g, S)) = g[x] + Cardinality(Units(g, S \ {x}))
        /\ Cardinality(Units(h, S)) = h[x] + Cardinality(Units(h, S \ {x}))
        /\ Cardinality(Units(g, S \ {x})) \in Nat
    BY UnitsAdd
  <1>3. g[x] \in Nat /\ h[x] \in Nat
    OBVIOUS
  <1> QED
    BY <1>1, <1>2, <1>3, SumType

LEMMA SumMonotonic ==
  ASSUME NEW S, IsFiniteSet(S), NEW g \in [S -> Nat], NEW T \in SUBSET S, NEW h \in [T -> Nat],
         \A y \in T : h[y] <= g[y]
  PROVE  SumFunction(h) <= SumFunction(g)
  <1>1. IsFiniteSet(T)
    BY FS_Subset
  <1>2. \A y \in T : 1..h[y] \subseteq 1..g[y]
    OBVIOUS
  <1>3. Units(h, T) \subseteq Units(g, S)
    BY <1>2 DEF Units
  <1>4. IsFiniteSet(Units(g, S))
    BY UnitsFinite
  <1>5. Cardinality(Units(h, T)) <= Cardinality(Units(g, S))
    BY <1>3, <1>4, FS_Subset
  <1> QED
    BY <1>1, <1>5, SumType

LEMMA SumZero ==
  ASSUME NEW S, IsFiniteSet(S), NEW g \in [S -> Nat], \A y \in S : g[y] = 0
  PROVE  SumFunction(g) = 0
  <1>1. Units(g, S) = {}
    BY DEF Units
  <1> QED
    BY <1>1, SumType, FS_EmptySet

-----------------------------------------------------------------------------
(* A scope's counters are the sums of its observations. *)

Counted(o) == Larger(o.observed, o.body)
Counts(b) == [f \in Files |-> Counted(b.of[f])]
Reserving(b) == {f \in Files : b.of[f].reserved}

(* What does not count is zero.                                            *)
Explicit(o) ==
  /\ ~o.charged => o.observed = 0
  /\ ~o.weighed => o.body = 0

Balanced(b) ==
  /\ b.files = Cardinality(Reserving(b))
  /\ b.bytes = SumFunction(Counts(b))
  /\ \A f \in Files : Explicit(b.of[f])

LEMMA FilesFinite == IsFiniteSet(Files)
  BY RequestStateAssumption, FS_Subset DEF Names

LEMMA CountsType == \A b \in BudgetType : Counts(b) \in [Files -> Nat]
  BY DEF Counts, Counted, Larger, BudgetType, Observation

LEMMA BalancedAt ==
  ASSUME NEW b \in BudgetType, Balanced(b), NEW f \in Files, NEW c, Grown(b, c, f), Explicit(c.of[f]),
         b.of[f].reserved => c.of[f].reserved,
         c.files = b.files + (IF c.of[f].reserved /\ ~b.of[f].reserved THEN 1 ELSE 0),
         c.bytes + Counted(b.of[f]) = b.bytes + Counted(c.of[f])
  PROVE  Balanced(c)
  <1>1. c \in BudgetType /\ \A g \in Files \ {f} : c.of[g] = b.of[g]
    BY DEF Grown
  <1>2. c.files = Cardinality(Reserving(c))
    <2>1. Reserving(c) = IF c.of[f].reserved THEN Reserving(b) \cup {f} ELSE Reserving(b)
      BY <1>1 DEF Reserving
    <2>2. IsFiniteSet(Reserving(b))
      BY FilesFinite, FS_Subset DEF Reserving
    <2>3. f \in Reserving(b) <=> b.of[f].reserved
      BY DEF Reserving
    <2>4. b.files = Cardinality(Reserving(b)) /\ b.files \in Nat
      BY DEF Balanced, BudgetType
    <2>5. Cardinality(Reserving(b) \cup {f}) = IF f \in Reserving(b) THEN b.files ELSE b.files + 1
      <3>1. \A H : IsFiniteSet(H) => Cardinality(H \cup {f}) = IF f \in H THEN Cardinality(H) ELSE Cardinality(H) + 1
        BY FS_AddElement
      <3> QED
        BY <2>2, <2>4, <3>1
    <2>6. CASE c.of[f].reserved
      BY <2>1, <2>3, <2>4, <2>5, <2>6
    <2>7. CASE ~c.of[f].reserved
      BY <2>1, <2>4, <2>7
    <2> QED
      BY <2>6, <2>7
  <1>3. c.bytes = SumFunction(Counts(c))
    <2>1. /\ Counts(b) \in [Files -> Nat] /\ Counts(c) \in [Files -> Nat]
          /\ Counts(b)[f] = Counted(b.of[f]) /\ Counts(c)[f] = Counted(c.of[f])
          /\ \A g \in Files \ {f} : Counts(c)[g] = Counts(b)[g]
      BY <1>1, CountsType DEF Counts
    <2>2. SumFunction(Counts(c)) + Counts(b)[f] = SumFunction(Counts(b)) + Counts(c)[f]
      BY <2>1, FilesFinite, SumReplace
    <2>3. /\ SumFunction(Counts(c)) \in Nat /\ SumFunction(Counts(b)) \in Nat
          /\ b.bytes = SumFunction(Counts(b))
      BY <2>1, FilesFinite, SumType DEF Balanced
    <2>4. c.bytes \in Nat /\ Counts(b)[f] \in Nat /\ Counts(c)[f] \in Nat
      BY <1>1, <2>1 DEF BudgetType
    <2> QED
      BY <2>1, <2>2, <2>3, <2>4
  <1>4. \A g \in Files : Explicit(c.of[g])
    BY <1>1 DEF Balanced
  <1> QED
    BY <1>2, <1>3, <1>4 DEF Balanced

LEMMA ReservedBalanced ==
  ASSUME NEW s \in Scopes, NEW f \in Files, budget[s] \in BudgetType, Balanced(budget[s])
  PROVE  Balanced(Reserved(s, f))
  <1>1. /\ Grown(budget[s], Reserved(s, f), f)
        /\ Reserved(s, f).files = budget[s].files + (IF budget[s].of[f].reserved THEN 0 ELSE 1)
        /\ Reserved(s, f).bytes = budget[s].bytes /\ Reserved(s, f).of[f].reserved
        /\ Reserved(s, f).of[f].charged = budget[s].of[f].charged
        /\ Reserved(s, f).of[f].weighed = budget[s].of[f].weighed
        /\ Reserved(s, f).of[f].observed = budget[s].of[f].observed
        /\ Reserved(s, f).of[f].body = budget[s].of[f].body
    BY ReservedFields
  <1>2. Counted(Reserved(s, f).of[f]) = Counted(budget[s].of[f])
    BY <1>1 DEF Counted
  <1>3. Explicit(Reserved(s, f).of[f])
    BY <1>1 DEF Balanced, Explicit
  <1>4. Reserved(s, f).files =
          budget[s].files + (IF Reserved(s, f).of[f].reserved /\ ~budget[s].of[f].reserved THEN 1 ELSE 0)
    BY <1>1
  <1> QED
    BY <1>1, <1>2, <1>3, <1>4, BalancedAt

(* What was read of a file is charged before its body is weighed.          *)
LEMMA ChargeObservedBalanced ==
  ASSUME NEW s \in Scopes, NEW b \in BudgetType, Balanced(b), NEW f \in Files, NEW n \in Nat,
         n = 0 \/ b.of[f].charged \/ ~b.of[f].weighed
  PROVE  Balanced(ChargeObserved(s, b, f, n))
  <1> DEFINE o == [b.of[f] EXCEPT !.charged = TRUE, !.observed = n,
                                  !.limit = Kept(@, Exceeded(s, b, n, n))]
  <1>1. CASE n = 0 \/ b.of[f].charged
    BY <1>1 DEF ChargeObserved
  <1>2. CASE n # 0 /\ ~b.of[f].charged
    <2>1. b.of[f] \in Observation /\ Exceeded(s, b, n, n) \in LimitType
      BY ExceededType DEF BudgetType
    <2>2. o \in Observation
      BY <2>1 DEF Observation, Kept, LimitType
    <2>3. /\ o.reserved = b.of[f].reserved /\ o.weighed = b.of[f].weighed /\ o.charged
          /\ o.observed = n /\ o.body = b.of[f].body
      BY <2>1 DEF Observation
    <2>4. b.of[f].observed = 0 /\ b.of[f].body = 0
      BY <1>2 DEF Balanced, Explicit
    <2>5. ChargeObserved(s, b, f, n) = Charge(b, f, n, o)
      BY <1>2 DEF ChargeObserved
    <2> HIDE DEF o
    <2>6. Counted(o) = n /\ Counted(b.of[f]) = 0
      BY <2>3, <2>4 DEF Counted, Larger
    <2>7. Explicit(o)
      BY <2>3, <2>4 DEF Explicit
    <2>8. /\ Grown(b, Charge(b, f, n, o), f) /\ Charge(b, f, n, o).of[f] = o
          /\ Charge(b, f, n, o).bytes = b.bytes + n /\ Charge(b, f, n, o).files = b.files
      BY <2>2, NotedFields
    <2>9. b.bytes \in Nat /\ b.files \in Nat
      BY DEF BudgetType
    <2> QED
      BY <2>3, <2>5, <2>6, <2>7, <2>8, <2>9, BalancedAt
  <1> QED
    BY <1>1, <1>2

LEMMA NotedBalanced ==
  ASSUME NEW b \in BudgetType, Balanced(b), NEW f \in Files, NEW l \in LimitType
  PROVE  Balanced(Noted(b, f, [b.of[f] EXCEPT !.limit = l]))
  <1> DEFINE o == [b.of[f] EXCEPT !.limit = l]
  <1>1. b.of[f] \in Observation
    BY DEF BudgetType
  <1>2. o \in Observation
    BY <1>1 DEF Observation, LimitType
  <1>3. /\ o.reserved = b.of[f].reserved /\ o.weighed = b.of[f].weighed /\ o.charged = b.of[f].charged
        /\ o.observed = b.of[f].observed /\ o.body = b.of[f].body
    BY <1>1 DEF Observation
  <1> HIDE DEF o
  <1>4. /\ Grown(b, Noted(b, f, o), f) /\ Noted(b, f, o).of[f] = o
        /\ Noted(b, f, o).bytes = b.bytes /\ Noted(b, f, o).files = b.files
    BY <1>2, NotedFields
  <1>5. Counted(o) = Counted(b.of[f]) /\ Explicit(o)
    BY <1>3 DEF Counted, Explicit, Balanced
  <1>6. b.bytes \in Nat /\ b.files \in Nat
    BY DEF BudgetType
  <1>7. Balanced(Noted(b, f, o))
    BY <1>3, <1>4, <1>5, <1>6, BalancedAt
  <1> QED
    BY <1>7 DEF o

(* A body counts once; it is given only if all that counts fits the scope. *)
LEMMA WeighedBalanced ==
  ASSUME NEW s \in Scopes, NEW b \in BudgetType, Balanced(b), NEW f \in Files, NEW answer \in Answer,
         answer.kind = "loaded" => answer.content \in Contents
  PROVE  LET w == Weighed(s, b, f, answer) IN
         /\ Balanced(w.budget)
         /\ w.answer.kind = "loaded" =>
              \/ b.of[f].weighed /\ w.budget = b
              \/ /\ w.budget.of[f].body = Size[w.answer.content]
                 /\ Size[w.answer.content] <= ScopeLimits[s].resource
                 /\ w.budget.bytes <= ScopeLimits[s].total
         /\ b.of[f].weighed \/ answer.kind # "loaded" => w.budget = b
  <1> DEFINE w == Weighed(s, b, f, answer)
             n == Size[answer.content]
             more == Left(n, b.of[f].observed)
             over == Exceeded(s, b, more, n)
             o == [b.of[f] EXCEPT !.weighed = TRUE, !.body = n, !.limit = Kept(@, over)]
  <1>1. b.of[f] \in Observation /\ b.bytes \in Nat /\ b.files \in Nat /\ b.of[f].observed \in Nat
    BY DEF BudgetType, Observation
  <1>2. CASE answer.kind # "loaded"
    <2>1. w.budget = b /\ w.answer = answer
      BY <1>2 DEF Weighed
    <2> QED
      BY <1>2, <2>1
  <1>3. CASE answer.kind = "loaded" /\ b.of[f].weighed
    <2>1. w.budget = b /\ w.answer = answer
      BY <1>3 DEF Weighed, ChargeBody
    <2> QED
      BY <1>3, <2>1
  <1>4. CASE answer.kind = "loaded" /\ ~b.of[f].weighed
    <2>1. n \in Nat /\ over \in LimitType
      BY <1>4, SizeType, ExceededType
    <2>2. o \in Observation
      BY <1>1, <2>1 DEF Observation, Kept, LimitType
    <2>3. /\ o.reserved = b.of[f].reserved /\ o.charged = b.of[f].charged /\ o.weighed
          /\ o.observed = b.of[f].observed /\ o.body = n
      BY <1>1 DEF Observation
    <2>4. /\ w.budget = Charge(b, f, more, o)
          /\ w.answer = IF over = NoLimit THEN answer ELSE Limited(over)
      BY <1>4 DEF Weighed, ChargeBody
    <2>5. over = NoLimit => ~(n > ScopeLimits[s].resource) /\ ~(b.bytes + more > ScopeLimits[s].total)
      BY NoLimitIsNone DEF Exceeded
    <2>6. Limited(over).kind = "limit"
      BY DEF Limited, Nothing
    <2>7. b.of[f].body = 0
      BY <1>4 DEF Balanced, Explicit
    <2> HIDE DEF o, over, n
    <2>8. more \in Nat /\ Counted(o) = Counted(b.of[f]) + more
      BY <1>1, <2>1, <2>3, <2>7 DEF Counted, Larger, Left
    <2> HIDE DEF more
    <2>9. Explicit(o)
      BY <2>3, <1>1 DEF Balanced, Explicit
    <2>10. /\ Grown(b, Charge(b, f, more, o), f) /\ Charge(b, f, more, o).of[f] = o
           /\ Charge(b, f, more, o).bytes = b.bytes + more /\ Charge(b, f, more, o).files = b.files
      BY <2>2, <2>8, NotedFields
    <2>11. Counted(b.of[f]) \in Nat
      BY <1>1 DEF Counted, Larger, Observation
    <2>12. Balanced(w.budget)
      BY <1>1, <2>3, <2>4, <2>8, <2>9, <2>10, <2>11, BalancedAt
    <2> HIDE DEF w
    <2>13. w.answer.kind = "loaded" =>
             /\ w.budget.of[f].body = n /\ w.answer = answer
             /\ n <= ScopeLimits[s].resource /\ w.budget.bytes <= ScopeLimits[s].total
      BY <1>1, <2>1, <2>3, <2>4, <2>5, <2>6, <2>8, <2>10, Scope
    <2> QED
      BY <1>4, <2>12, <2>13 DEF n, w
  <1> QED
    BY <1>2, <1>3, <1>4

-----------------------------------------------------------------------------
(* What a scope was given. *)

(* What was given is weighed with its size, and a body that is weighed is  *)
(* given unless a limit is kept.                                           *)
Fitting(s, f) ==
  /\ answers[s][f].kind = "loaded" =>
       /\ budget[s].of[f].body = Size[answers[s][f].content]
       /\ Size[answers[s][f].content] <= ScopeLimits[s].resource
  /\ budget[s].of[f].weighed /\ budget[s].of[f].limit = NoLimit => answers[s][f].kind = "loaded"

BInv ==
  /\ AInv
  /\ \A s \in Scopes : Balanced(budget[s])
  /\ \A s \in Scopes, f \in Files \ Buffers : Fitting(s, f)
  /\ FilesWithinScope

SizesGiven(s) == [f \in Given(s) \ Buffers |-> Size[answers[s][f].content]]

(* A call for a file that was given changes nothing of what is known of    *)
(* it; one that gives it for the first time leaves all that counts within  *)
(* the limits.                                                             *)
LEMMA ReadBalance ==
  ASSUME BInv, NEW s \in Scopes, NEW f \in Files, NEW found \in Contents \cup {Missing}, Read(s, f, found)
  PROVE  /\ Balanced(budget'[s])
         /\ f \notin Buffers =>
              /\ Fitting(s, f)'
              /\ answers'[s][f].kind = "loaded" =>
                   answers[s][f].kind = "loaded" \/ budget'[s].bytes <= ScopeLimits[s].total
  <1>1. /\ IInv /\ AInv /\ f \in Names /\ budget \in [Scopes -> BudgetType] /\ budget[s] \in BudgetType
        /\ answers \in [Scopes -> [Files -> Answer]] /\ Balanced(budget[s])
    BY DEF BInv, AInv, IInv, TypeOK, BudgetType, Names
  <1> DEFINE b == Reserved(s, f)
  <1>2. /\ Grown(budget[s], b, f)
        /\ b.of[f].charged = budget[s].of[f].charged /\ b.of[f].weighed = budget[s].of[f].weighed
        /\ b.of[f].limit = budget[s].of[f].limit /\ b.of[f].body = budget[s].of[f].body
    BY <1>1, ReservedFields
  <1>3. b \in BudgetType /\ Balanced(b)
    BY <1>1, <1>2, ReservedBalanced DEF Grown
  <1>4. \A a : Tell(s, f, a) => answers'[s][f] = a
    BY <1>1 DEF Tell
  <1>5. \A c : Budget(s, c) => budget'[s] = c
    BY <1>1 DEF Budget
  <1>6. \A l : Limited(l).kind = "limit"
    BY DEF Limited, Nothing
  <1>7. f \notin Buffers =>
          /\ Fitting(s, f) /\ Explained(s, f) /\ Explained(s, f)' /\ Stays(answers[s][f], answers'[s][f])
    BY <1>1, ReadEffect DEF BInv, AInv
  <1>8. CASE ~CanReserve(s, f)
    <2>1. Tell(s, f, Limited(<<"files", ScopeLimits[s].files>>)) /\ UNCHANGED <<fixed, usage, budget>>
      BY <1>8 DEF Read
    <2>2. answers'[s][f].kind = "limit"
      BY <1>4, <1>6, <2>1
    <2>3. f \notin Buffers => answers[s][f].kind # "loaded"
      BY <1>7, <2>2 DEF Stays
    <2> QED
      BY <1>1, <1>7, <2>1, <2>2, <2>3 DEF Fitting
  <1>9. CASE CanReserve(s, f) /\ f \in Buffers
    <2> DEFINE done == Weighed(s, b, f, Loaded(Held[f], 0))
    <2>1. Budget(s, done.budget)
      BY <1>9 DEF Read
    <2>2. Held[f] \in Contents
      BY <1>9, RequestStateAssumption
    <2>3. Loaded(Held[f], 0) \in Answer /\ Loaded(Held[f], 0).content \in Contents
      BY <2>2, AnswerTypes, AnswerFields
    <2> HIDE DEF b
    <2>4. Balanced(done.budget)
      BY <1>3, <2>3, WeighedBalanced
    <2> QED
      BY <1>5, <1>9, <2>1, <2>4
  <1>10. CASE CanReserve(s, f) /\ f \notin Buffers
    <2> DEFINE a == Allowance(s, b, f)
               got == Acquired(f, found, a)
               n == got.answer.observed
               charged == ChargeObserved(s, b, f, n)
               refused == a.specific /\ got.answer.kind = "limit" /\ got.answer.limit = a.limit
               noted == IF ~refused THEN charged
                        ELSE Noted(charged, f, [charged.of[f] EXCEPT !.limit = a.limit])
               done == Weighed(s, noted, f, got.answer)
    <2>1. IF a.refusal # NoLimit
          THEN Budget(s, b) /\ Tell(s, f, Limited(a.refusal)) /\ UNCHANGED <<fixed, usage>>
          ELSE Budget(s, done.budget) /\ Tell(s, f, done.answer)
      BY <1>10 DEF Read
    <2>2. Bounded(a) /\ (a.refusal = NoLimit => b.of[f].limit = NoLimit)
      BY <1>1, <1>3, AllowanceType, AllowanceFields
    <2>3. CASE a.refusal # NoLimit
      <3>1. budget'[s] = b /\ answers'[s][f].kind = "limit"
        BY <1>4, <1>5, <1>6, <2>1, <2>3
      <3>2. answers[s][f].kind # "loaded"
        BY <1>7, <1>10, <3>1 DEF Stays
      <3> HIDE DEF b, a
      <3>3. Fitting(s, f)'
        BY <1>2, <1>7, <1>10, <3>1, <3>2 DEF Fitting
      <3> QED
        BY <1>3, <3>1, <3>3
    <2>4. CASE a.refusal = NoLimit
      <3>1. budget'[s] = done.budget /\ answers'[s][f] = done.answer
        BY <1>4, <1>5, <2>1, <2>4
      <3>2. /\ got.answer \in Answer /\ n \in Nat
            /\ got.answer.kind = "loaded" => got.answer.content \in Contents
        BY <1>1, <2>2, AcquiredType DEF Answer
      <3>3. fixed[f].kind # "none" => got.answer = fixed[f]
        BY <1>1, <2>2, AcquiredFields
      <3>4. b.of[f].weighed => fixed[f].kind = "loaded" /\ got.answer = fixed[f] /\ (n = 0 \/ b.of[f].charged)
        <4>1. b.of[f].weighed => fixed[f].kind = "loaded" /\ (b.of[f].charged \/ fixed[f].observed = 0)
          BY <1>2, <1>7, <1>10 DEF Explained
        <4> QED
          BY <3>3, <4>1
      <3>5. Balanced(charged)
        <4> HIDE DEF n, b
        <4> QED
          BY <1>3, <3>2, <3>4, ChargeObservedBalanced
      <3>6. charged \in BudgetType /\ charged.of[f].weighed = b.of[f].weighed
        <4> HIDE DEF n, b
        <4> QED
          BY <1>3, <3>2, ChargeObservedFields DEF Grown
      <3>7. b.of[f].weighed => noted = b
        <4>1. b.of[f].weighed => charged = b
          BY <3>4 DEF ChargeObserved
        <4> QED
          BY <3>4, <4>1
      <3>8. /\ noted \in BudgetType /\ Balanced(noted)
            /\ noted.of[f].weighed = b.of[f].weighed
        <4> DEFINE o == [charged.of[f] EXCEPT !.limit = a.limit]
        <4> HIDE DEF charged, refused, a
        <4>1. charged.of[f] \in Observation /\ a.limit \in LimitType
          BY <2>2, <3>6 DEF BudgetType, Bounded
        <4>2. o \in Observation /\ o.weighed = charged.of[f].weighed
          BY <4>1 DEF Observation, LimitType
        <4>3. Balanced(Noted(charged, f, o))
          BY <3>5, <3>6, <4>1, NotedBalanced
        <4> HIDE DEF o
        <4>4. Noted(charged, f, o) \in BudgetType /\ Noted(charged, f, o).of[f] = o
          BY <3>6, <4>2, NotedFields DEF Grown
        <4>5. noted = IF ~refused THEN charged ELSE Noted(charged, f, o)
          BY DEF o
        <4> HIDE DEF noted
        <4> QED
          BY <3>5, <3>6, <4>2, <4>3, <4>4, <4>5
      <3> HIDE DEF b, a, got, n, charged, noted
      <3>9. /\ Balanced(done.budget)
            /\ done.answer.kind = "loaded" =>
                 \/ noted.of[f].weighed /\ done.budget = noted
                 \/ /\ done.budget.of[f].body = Size[done.answer.content]
                    /\ Size[done.answer.content] <= ScopeLimits[s].resource
                    /\ done.budget.bytes <= ScopeLimits[s].total
            /\ noted.of[f].weighed \/ got.answer.kind # "loaded" => done.budget = noted
        BY <3>2, <3>8, WeighedBalanced
      <3>10. /\ got.answer.kind = "loaded" /\ done.answer.kind # "loaded" => done.budget.of[f].limit # NoLimit
             /\ noted.of[f].weighed /\ got.answer.kind = "loaded" => done.answer = got.answer
        BY <3>2, <3>8, WeighedFields
      <3> HIDE DEF done
      <3>11. CASE b.of[f].weighed
        <4>1. done.budget = b /\ done.answer = fixed[f]
          BY <3>4, <3>7, <3>8, <3>9, <3>10, <3>11
        <4>2. answers[s][f].kind = "loaded" /\ answers[s][f].content = fixed[f].content
          BY <1>2, <1>7, <1>10, <2>2, <2>4, <3>11 DEF Fitting, Explained
        <4>3. Fitting(s, f)'
          BY <1>2, <1>7, <1>10, <3>1, <3>4, <3>11, <4>1, <4>2 DEF Fitting
        <4> QED
          BY <1>3, <3>1, <4>1, <4>2, <4>3
      <3>12. CASE ~b.of[f].weighed
        <4>1. done.answer.kind = "loaded" =>
                /\ done.budget.of[f].body = Size[done.answer.content]
                /\ Size[done.answer.content] <= ScopeLimits[s].resource
                /\ done.budget.bytes <= ScopeLimits[s].total
          BY <3>8, <3>9, <3>12
        <4>2. done.budget.of[f].weighed /\ done.budget.of[f].limit = NoLimit => done.answer.kind = "loaded"
          BY <3>8, <3>9, <3>10, <3>12
        <4>3. Fitting(s, f)'
          BY <3>1, <4>1, <4>2 DEF Fitting
        <4> QED
          BY <3>1, <3>9, <4>1, <4>3
      <3> QED
        BY <3>11, <3>12
    <2> QED
      BY <2>3, <2>4
  <1> QED
    BY <1>8, <1>9, <1>10

(* The sizes of files weighed with them are within what counts.            *)
LEMMA GivenFits ==
  ASSUME NEW b \in BudgetType, Balanced(b), NEW F \in SUBSET Files, NEW told,
         \A f \in F : b.of[f].body = Size[told[f].content], NEW limit \in Nat, b.bytes <= limit
  PROVE  SumFunction([f \in F |-> Size[told[f].content]]) <= limit
  <1> DEFINE sizes == [f \in F |-> Size[told[f].content]]
  <1>1. \A f \in Files : /\ b.of[f].body \in Nat /\ b.of[f].observed \in Nat
                         /\ Counts(b)[f] = Counted(b.of[f])
    BY DEF BudgetType, Observation, Counts
  <1>2. sizes \in [F -> Nat] /\ \A f \in F : sizes[f] = b.of[f].body
    BY <1>1
  <1> HIDE DEF sizes
  <1>3. \A f \in F : sizes[f] <= Counts(b)[f]
    BY <1>1, <1>2 DEF Counted, Larger
  <1>4. Counts(b) \in [Files -> Nat]
    BY CountsType
  <1>5. SumFunction(sizes) <= SumFunction(Counts(b))
    BY <1>2, <1>3, <1>4, FilesFinite, SumMonotonic
  <1>6. IsFiniteSet(F)
    BY FilesFinite, FS_Subset
  <1>7. SumFunction(sizes) \in Nat /\ SumFunction(Counts(b)) = b.bytes /\ b.bytes \in Nat
    BY <1>2, <1>6, SumType DEF Balanced, BudgetType
  <1>8. SumFunction(sizes) <= limit
    BY <1>5, <1>7
  <1> QED
    BY <1>8 DEF sizes

LEMMA WithinSizes ==
  FilesWithinScope <=>
    \A s \in Scopes : /\ \A f \in Given(s) \ Buffers : Size[answers[s][f].content] <= ScopeLimits[s].resource
                      /\ SumFunction(SizesGiven(s)) <= ScopeLimits[s].total
  BY DEF FilesWithinScope, WithinLimits, SizesGiven

LEMMA InitBInv == ASSUME Init PROVE BInv
  <1>1. AInv
    BY InitAInv
  <1>2. ASSUME NEW s \in Scopes PROVE Balanced(budget[s])
    <2>1. budget[s] \in BudgetType
      BY <1>1 DEF AInv, IInv, TypeOK, BudgetType
    <2>2. /\ budget[s].files = 0 /\ budget[s].bytes = 0
          /\ \A f \in Files : budget[s].of[f] = Unobserved
      BY DEF Init
    <2>3. Reserving(budget[s]) = {}
      BY <2>2 DEF Reserving, Unobserved
    <2>4. Counts(budget[s]) \in [Files -> Nat]
      BY <2>1, CountsType
    <2>5. \A f \in Files : Counts(budget[s])[f] = 0 /\ Explicit(budget[s].of[f])
      BY <2>2 DEF Counts, Counted, Larger, Unobserved, Explicit
    <2>6. SumFunction(Counts(budget[s])) = 0
      BY <2>4, <2>5, FilesFinite, SumZero
    <2> QED
      BY <2>2, <2>3, <2>5, <2>6, FS_EmptySet DEF Balanced
  <1>3. \A s \in Scopes, f \in Files : answers[s][f].kind # "loaded" /\ ~budget[s].of[f].weighed
    BY DEF Init, Nothing, Unobserved
  <1>4. \A s \in Scopes, f \in Files : Fitting(s, f)
    BY <1>3 DEF Fitting
  <1>5. FilesWithinScope
    <2>1. ASSUME NEW s \in Scopes PROVE Given(s) = {} /\ SumFunction(SizesGiven(s)) <= ScopeLimits[s].total
      <3>1. Given(s) = {}
        BY <1>3 DEF Given
      <3>2. SizesGiven(s) \in [{} -> Nat]
        BY <3>1 DEF SizesGiven
      <3>3. SumFunction(SizesGiven(s)) = 0
        BY <3>2, FS_EmptySet, SumZero
      <3> QED
        BY <3>1, <3>3, Scope
    <2> QED
      BY <2>1, WithinSizes
  <1> QED
    BY <1>1, <1>2, <1>4, <1>5 DEF BInv

LEMMA ReadBInv ==
  ASSUME BInv, AInv', NEW s \in Scopes, NEW f \in Files, NEW found \in Contents \cup {Missing}, Read(s, f, found)
  PROVE  BInv'
  <1>1. /\ Balanced(budget'[s])
        /\ f \notin Buffers =>
             /\ Fitting(s, f)'
             /\ answers'[s][f].kind = "loaded" =>
                  answers[s][f].kind = "loaded" \/ budget'[s].bytes <= ScopeLimits[s].total
    BY ReadBalance
  <1>2. /\ Grown(budget[s], budget'[s], f)
        /\ \A t \in Scopes \ {s} : budget'[t] = budget[t]
        /\ \A t \in Scopes, g \in Files : t # s \/ g # f => answers'[t][g] = answers[t][g]
        /\ f \notin Buffers => Stays(answers[s][f], answers'[s][f])
    BY ReadEffect DEF BInv
  <1>3. \A t \in Scopes : Balanced(budget'[t])
    BY <1>1, <1>2 DEF BInv
  <1>4. ASSUME NEW t \in Scopes, NEW g \in Files \ Buffers PROVE Fitting(t, g)'
    <2>1. CASE t = s /\ g = f
      BY <1>1, <1>4, <2>1
    <2>2. CASE t # s \/ g # f
      <3>1. answers'[t][g] = answers[t][g] /\ budget'[t].of[g] = budget[t].of[g]
        BY <1>2, <1>4, <2>2 DEF Grown
      <3> QED
        BY <1>4, <3>1 DEF BInv, Fitting
    <2> QED
      BY <2>1, <2>2
  <1>5. ASSUME NEW t \in Scopes
        PROVE  /\ \A g \in (Given(t) \ Buffers)' : Size[answers'[t][g].content] <= ScopeLimits[t].resource
               /\ SumFunction(SizesGiven(t)') <= ScopeLimits[t].total
    <2>1. \A g \in (Given(t) \ Buffers)' : Size[answers'[t][g].content] <= ScopeLimits[t].resource
      BY <1>4 DEF Given, Fitting
    <2>2. CASE /\ t = s /\ f \notin Buffers
               /\ answers'[s][f].kind = "loaded" /\ answers[s][f].kind # "loaded"
      <3>1. budget'[s].bytes <= ScopeLimits[s].total /\ ScopeLimits[s].total \in Nat /\ budget'[s] \in BudgetType
        BY <1>1, <2>2, Scope DEF AInv, IInv, TypeOK, BudgetType
      <3>2. /\ (Given(s) \ Buffers)' \in SUBSET Files
            /\ \A g \in (Given(s) \ Buffers)' : budget'[s].of[g].body = Size[answers'[s][g].content]
        BY <1>4 DEF Given, Fitting
      <3>3. SumFunction([g \in (Given(s) \ Buffers)' |-> Size[answers'[s][g].content]]) <= ScopeLimits[s].total
        <4> DEFINE F == (Given(s) \ Buffers)'  told == answers'[s]
        <4> HIDE DEF F, told
        <4>1. SumFunction([g \in F |-> Size[told[g].content]]) <= ScopeLimits[s].total
          BY <1>1, <3>1, <3>2, GivenFits DEF F, told
        <4> QED
          BY <4>1 DEF F, told
      <3> QED
        BY <2>1, <2>2, <3>3 DEF SizesGiven
    <2>3. CASE ~(/\ t = s /\ f \notin Buffers
                 /\ answers'[s][f].kind = "loaded" /\ answers[s][f].kind # "loaded")
      <3>1. \A g \in Files \ Buffers :
              /\ answers'[t][g].kind = "loaded" <=> answers[t][g].kind = "loaded"
              /\ answers[t][g].kind = "loaded" => answers'[t][g].content = answers[t][g].content
        BY <1>2, <2>3 DEF Stays
      <3>2. (Given(t) \ Buffers)' = Given(t) \ Buffers
        BY <3>1 DEF Given
      <3>3. SizesGiven(t)' = SizesGiven(t)
        BY <3>1, <3>2 DEF SizesGiven, Given
      <3> QED
        BY <2>1, <3>3, WithinSizes DEF BInv
    <2> QED
      BY <2>2, <2>3
  <1>6. FilesWithinScope'
    BY <1>5 DEF FilesWithinScope, WithinLimits, SizesGiven
  <1> QED
    BY <1>3, <1>4, <1>6 DEF BInv

LEMMA StepBInv == BInv /\ [Next]_vars => BInv'
  <1> SUFFICES ASSUME BInv, [Next]_vars PROVE BInv'
    OBVIOUS
  <1>1. AInv'
    BY StepAInv DEF BInv
  <1>2. CASE UNCHANGED <<budget, answers>>
    BY <1>1, <1>2 DEF BInv, Fitting, FilesWithinScope, WithinLimits, Given
  <1>3. CASE \E s \in Scopes, f \in Files, found \in Contents \cup {Missing} : Read(s, f, found)
    BY <1>1, <1>3, ReadBInv
  <1> QED
    BY <1>2, <1>3 DEF Next, ReadConfig, Inspect, vars

THEOREM BudgetInvariance == Spec => []BInv
  BY InitBInv, StepBInv, PTL DEF Spec

(* A scope's counters are the sums of what it observed: however its files  *)
(* are reserved, read, refused, weighed and asked for again, each counts   *)
(* once.                                                                   *)
THEOREM ScopesAccounted == Spec => []ScopeAccounted
  <1>1. BInv => ScopeAccounted
    BY DEF BInv, AInv, IInv, Balanced, Counts, Counted, Reserving, ScopeAccounted
  <1> QED
    BY <1>1, BudgetInvariance, PTL

(* What the targets of a configuration were given fits its limits, file by *)
(* file and together.                                                      *)
THEOREM GivenWithinScope == Spec => []FilesWithinScope
  <1>1. BInv => FilesWithinScope
    BY DEF BInv
  <1> QED
    BY <1>1, BudgetInvariance, PTL
=============================================================================
