-------------------------------- MODULE Messages --------------------------------
(***************************************************************************)
(* A DNS answer on its way through the program: symbivpn/dnsmsg.py, with   *)
(* what engine.py, resolver.py, cache.py and server.py do to the bytes.    *)
(* The client's query is read; the answer is made up, or asked for         *)
(* upstream, checked, stored, aged and fitted to the query again.          *)
(*                                                                         *)
(* A message is its header and a body of cells.  A label's length or one   *)
(* of its characters, a compression pointer, a 16-bit or a 32-bit field    *)
(* each take one cell: 0..63 is the length of a label, 192 + p a pointer   *)
(* to cell p, and what is in between the reserved label types.  Pointers   *)
(* into the header are left out.  An IPv4 address takes one cell and an    *)
(* IPv6 address two.                                                       *)
(***************************************************************************)
EXTENDS Integers, Sequences, SequencesExt

CONSTANTS
    ClientQueries,   \* the messages clients send
    Sections(_),     \* what upstreams put after a question of the given length
    Elapsed,         \* the ages at which a stored answer is asked for again
    MinTtl,          \* min_ttl: an answer is kept at least this long
    MaxJumps,        \* 64 in the code
    MaxNameLen       \* MAX_NAME_LEN, 255 in the code

\* A message: its body is a sequence of cells.
DnsMessage ==
    [id : Nat, flags : SUBSET STRING, opcode : Nat, rcode : Nat,
     qd : Nat, an : Nat, ns : Nat, ar : Nat, body : Seq(Nat)]

ASSUME MessagesAssumption ==
    /\ ClientQueries \subseteq DnsMessage
    /\ Elapsed \subseteq Nat /\ MinTtl \in Nat
    /\ MaxJumps \in Nat \ {0} /\ MaxNameLen \in Nat

VARIABLE
    wire  \* the query, how far its answer is, and what it is made of

TYPE_A == 1
TYPE_CNAME == 5
TYPE_AAAA == 28
TYPE_OPT == 41
CLASS_IN == 1
NOERROR == 0
FORMERR == 1
SERVFAIL == 2
NXDOMAIN == 3
NOTIMP == 4
REFUSED == 5
DO_BIT == 32768
SAFE_UDP_PAYLOAD == 1232
STALE_TTL == 30

Pointer(p) == 192 + p
IsPointer(cell) == cell >= 192
IsReserved(cell) == cell \in 64..191
Dot == 46
Lower(char) == IF char \in 65..90 THEN char + 32 ELSE char

\* What a function that raises DNSFormatError returns.
Malformed == [ok |-> FALSE]

-------------------------------------------------------------------------------
(* Names.                                                                  *)

NameSize(name) == IF name = <<>> THEN 0 ELSE Len(name) + 1

\* ".".join(labels) with one label more.
Longer(name, label) == IF name = <<>> THEN label ELSE name \o <<Dot>> \o label

\* One pass of the loop of read_name().  end is 0 until the first jump.
ReadLabel(body, s) ==
    LET cell  == body[s.cursor]
        past  == IF s.end = 0 THEN s.cursor + 1 ELSE s.end
        wrong == \/ s.cursor > Len(body)
                 \/ IsReserved(cell)
                 \/ IsPointer(cell) /\ (cell - 192 >= s.cursor \/ s.jumps = MaxJumps)
                 \/ cell \in 1..63 /\ \/ s.cursor + cell > Len(body)
                                      \/ NameSize(s.name) + cell + 1 > MaxNameLen
    IN  IF s.state # "reading" THEN s
        ELSE IF wrong THEN [s EXCEPT !.state = "malformed"]
        ELSE IF IsPointer(cell) THEN [s EXCEPT !.cursor = cell - 192, !.jumps = @ + 1, !.end = past]
        ELSE IF cell = 0 THEN [s EXCEPT !.state = "read", !.end = past]
        ELSE [s EXCEPT !.cursor = @ + cell + 1,
                       !.name = Longer(@, [i \in 1..cell |-> Lower(body[s.cursor + i])])]

\* What the loop has after each pass.
Reading(body, offset) ==
    LET pass[n \in Nat] ==
            IF n = 0 THEN [state |-> "reading", cursor |-> offset, name |-> <<>>, jumps |-> 0, end |-> 0]
            ELSE ReadLabel(body, pass[n - 1])
    IN  pass

\* What read_name() returns when its loop ends with s.
NameOf(s) ==
    IF s.state = "read" THEN [ok |-> TRUE, name |-> s.name, end |-> s.end] ELSE Malformed

\* The name at a cell, in lower case, and the cell after it as it stands there.
\* Every pass but the last jumps or makes the name longer.
ReadName(body, offset) == NameOf(Reading(body, offset)[MaxJumps + MaxNameLen + 1])

\* name.strip(".")
Stripped(name) ==
    LET inside == {i \in DOMAIN name : name[i] # Dot}
    IN  IF inside = {} THEN <<>> ELSE SubSeq(name, Min(inside), Max(inside))

LabelStarts(text) == {i \in DOMAIN text : i = 1 \/ text[i - 1] = Dot}

LabelLength(text, i) == Min({k \in 0..Len(text) : i + k > Len(text) \/ text[i + k] = Dot})

\* The wire form, with the case kept: in the place of each dot, and in front,
\* the length of the label that follows.
EncodeName(name) ==
    LET text == Stripped(name)
    IN  IF text = <<>> THEN [ok |-> TRUE, cells |-> <<0>>]
        ELSE IF \/ \E i \in LabelStarts(text) : LabelLength(text, i) \notin 1..63
                \/ Len(text) + 2 > MaxNameLen
        THEN Malformed
        ELSE [ok |-> TRUE, cells |->
                [i \in 1..Len(text) + 2 |-> IF i > Len(text) + 1 THEN 0
                                            ELSE IF i \in LabelStarts(text) THEN LabelLength(text, i)
                                            ELSE text[i - 1]]]

-------------------------------------------------------------------------------
(* Sections.                                                               *)

QuestionAfter(body, s, name) ==
    IF ~s.ok THEN s
    ELSE IF ~name.ok \/ name.end + 1 > Len(body) THEN Malformed
    ELSE [ok |-> TRUE, end |-> name.end + 2, questions |->
            Append(s.questions, [name |-> name.name, qtype |-> body[name.end],
                                 qclass |-> body[name.end + 1]])]

ReadQuestion(body, s) == QuestionAfter(body, s, ReadName(body, s.end))

\* parse_questions() after each question.
QuestionsOf(body) ==
    LET after[k \in Nat] ==
            IF k = 0 THEN [ok |-> TRUE, questions |-> <<>>, end |-> 1] ELSE ReadQuestion(body, after[k - 1])
    IN  after

ParseQuestions(m) == QuestionsOf(m.body)[m.qd]

\* What raises leaves the records yielded so far.
RecordAfter(body, s, name) ==
    LET at == name.end
    IN  IF ~s.ok THEN s
        ELSE IF ~name.ok \/ at + 3 > Len(body) \/ at + 3 + body[at + 3] > Len(body)
        THEN [s EXCEPT !.ok = FALSE]
        ELSE [ok |-> TRUE, end |-> at + 4 + body[at + 3], records |->
                Append(s.records,
                    [name |-> name.name, rtype |-> body[at], rclass |-> body[at + 1],
                     ttl |-> body[at + 2], rdata |-> SubSeq(body, at + 4, at + 3 + body[at + 3]),
                     ttlOffset |-> at + 2])]

ReadRecord(body, s) == RecordAfter(body, s, ReadName(body, s.end))

\* iter_records() after each record.
RecordsFrom(body, offset) ==
    LET after[k \in Nat] ==
            IF k = 0 THEN [ok |-> TRUE, records |-> <<>>, end |-> offset] ELSE ReadRecord(body, after[k - 1])
    IN  after

IterRecords(m) ==
    IF ParseQuestions(m).ok THEN RecordsFrom(m.body, ParseQuestions(m).end)[m.an + m.ns + m.ar]
    ELSE [ok |-> FALSE, records |-> <<>>]

Lifetimes(records) == {records[i].ttl : i \in {k \in DOMAIN records : records[k].rtype # TYPE_OPT}}

MessageTtl(m) ==
    LET ttls == Lifetimes(IterRecords(m).records)
    IN  IF ttls = {} THEN 0 ELSE CHOOSE t \in ttls : \A u \in ttls : t <= u

\* with_ttls_reduced() and _rewrite_all_ttls(): New gives the TTL for the old.
WithTtls(m, New(_)) ==
    LET records == IterRecords(m).records
        Aged(i) == \E k \in DOMAIN records :
                    records[k].ttlOffset = i /\ records[k].rtype # TYPE_OPT
    IN  [m EXCEPT !.body = [i \in DOMAIN @ |-> IF Aged(i) THEN New(@[i]) ELSE @[i]]]

WithTtlsReduced(m, elapsed) ==
    WithTtls(m, LAMBDA ttl : IF ttl > elapsed THEN ttl - elapsed ELSE 0)

RewriteAllTtls(m) ==
    IF IterRecords(m).ok THEN WithTtls(m, LAMBDA ttl : STALE_TTL) ELSE m

\* The first OPT record, if the records before it can be read.
OptPlaces(m) == {k \in DOMAIN IterRecords(m).records : IterRecords(m).records[k].rtype = TYPE_OPT}
FirstOpt(m) == IterRecords(m).records[Min(OptPlaces(m))]

WantsDnssec(m) == OptPlaces(m) # {} /\ (FirstOpt(m).ttl \div DO_BIT) % 2 = 1

\* The iterator is asked for one record more than there are answers.
Answers(m) ==
    LET all == IterRecords(m)
    IN  IF ~all.ok /\ Len(all.records) <= m.an THEN Malformed
        ELSE [ok |-> TRUE, records |-> SubSeq(all.records, 1, m.an)]

\* The values of a function of indices, in the order of the indices.
InOrder(f) ==
    [k \in 1..Cardinality(DOMAIN f) |->
        f[CHOOSE i \in DOMAIN f : Cardinality({j \in DOMAIN f : j <= i}) = k]]

\* Targets whose own name cannot be read, or is the root, are passed over.
CnameChain(m) ==
    LET answers == Answers(m).records
        target  == [i \in DOMAIN answers |-> ReadName(m.body, answers[i].ttlOffset + 2)]
        good    == {i \in DOMAIN answers : /\ <<answers[i].rtype, answers[i].rclass>> = <<TYPE_CNAME, CLASS_IN>>
                                           /\ target[i].ok /\ target[i].name # <<>>}
    IN  InOrder([i \in good |-> target[i].name])

AnswerAddresses(m) ==
    LET answers == Answers(m).records
        good    == {i \in DOMAIN answers : /\ answers[i].rclass = CLASS_IN
                                           /\ <<answers[i].rtype, Len(answers[i].rdata)>> \in
                                                {<<TYPE_A, 1>>, <<TYPE_AAAA, 2>>}}
    IN  InOrder([i \in good |-> answers[i].rdata])

-------------------------------------------------------------------------------
(* Messages the program makes.                                             *)

Clamp(n, low, high) == Max({low, Min({n, high})})

OptRecord(size, ttl) == <<0, TYPE_OPT, size, ttl, 0>>

QuestionCells(m) == SubSeq(m.body, 1, ParseQuestions(m).end - 1)

\* _response_skeleton() with the records in between: raises on a question
\* section that cannot be read.
Synthesised(query, rcode, answers, records) ==
    IF ~ParseQuestions(query).ok THEN Malformed
    ELSE LET additional == IF OptPlaces(query) = {} THEN <<>>
                           ELSE OptRecord(Clamp(FirstOpt(query).rclass, 512, SAFE_UDP_PAYLOAD), 0)
         IN  [ok |-> TRUE, message |->
                [id |-> query.id,
                 flags |-> {"QR", "RA"} \cup (query.flags \cap {"RD", "CD"}),
                 opcode |-> query.opcode, rcode |-> rcode,
                 qd |-> query.qd, an |-> answers, ns |-> 0, ar |-> Len(additional) \div 5,
                 body |-> QuestionCells(query) \o records \o additional]]

BuildErrorResponse(query, rcode) == Synthesised(query, rcode, 0, <<>>)

\* The address, or <<>> for None; the name is a pointer to the question's.
BuildAddressResponse(query, qtype, address, ttl) ==
    IF address = <<>> THEN Synthesised(query, NOERROR, 0, <<>>)
    ELSE Synthesised(query, NOERROR, 1,
            <<Pointer(1), qtype, CLASS_IN, ttl, Len(address)>> \o address)

\* _build_upstream_query().
UpstreamQuery(name, question, dnssec, disabled) ==
    [id |-> 0, flags |-> {"RD"} \cup (IF disabled THEN {"CD"} ELSE {}), opcode |-> 0, rcode |-> 0,
     qd |-> 1, an |-> 0, ns |-> 0, ar |-> 1,
     body |-> EncodeName(name).cells \o <<question.qtype, question.qclass>>
              \o OptRecord(IF dnssec THEN 4096 ELSE SAFE_UDP_PAYLOAD, IF dnssec THEN DO_BIT ELSE 0)]

\* _validate_response() and _echoes_case(), for a name as it was sent.
Valid(response, query, name, question, strict) ==
    LET read  == ParseQuestions(response)
        cells == EncodeName(name).cells
    IN  /\ "QR" \in response.flags
        /\ response.id = query.id
        /\ response.qd = 1
        /\ read.ok
        /\ read.questions[1] = question
        /\ strict => SubSeq(response.body, 1, Min({Len(cells), Len(response.body)})) = cells

\* _rewrite_question_name(): the echoed name back in lower case.
RewriteQuestionName(response, name) ==
    LET cells == EncodeName(name).cells
    IN  IF Len(response.body) < Len(cells) THEN response
        ELSE [response EXCEPT !.body = cells \o SubSeq(@, Len(cells) + 1, Len(@))]

\* Mutant: the question keeps the spelling it has in the cache.
PrepareReplyIdOnly(response, query) == [response EXCEPT !.id = query.id]

\* _prepare_reply(): the client's own identifier and spelling.
PrepareReply(response, query) ==
    LET reply == [response EXCEPT !.id = query.id]
        mine  == ParseQuestions(query)
        its   == ParseQuestions(response)
    IN  IF mine.ok /\ its.ok /\ mine.end = its.end
        THEN [reply EXCEPT !.body = QuestionCells(query) \o SubSeq(@, its.end, Len(@))]
        ELSE reply

\* _truncate(): the records go, TC says so.
Truncate(response) ==
    IF ~ParseQuestions(response).ok THEN response
    ELSE [response EXCEPT !.flags = @ \cup {"TC"}, !.an = 0, !.ns = 0, !.ar = 0,
                          !.body = QuestionCells(response)]

-------------------------------------------------------------------------------
(* The way of an answer.                                                   *)

MessagesInit == \E query \in ClientQueries : wire = [stage |-> "asked", query |-> query]

Reply(message) == wire' = [stage |-> "replied", query |-> wire.query, reply |-> message]

\* No reply: a response, or a message whose question cannot be read.  In that
\* case the FORMERR the engine wants to send, and the SERVFAIL that the
\* listener wants to send for the exception, raise as well.
Ignore ==
    /\ wire.stage = "asked"
    /\ "QR" \in wire.query.flags \/ ~ParseQuestions(wire.query).ok
    /\ wire' = [wire EXCEPT !.stage = "ignored"]

Readable ==
    /\ wire.stage = "asked"
    /\ "QR" \notin wire.query.flags
    /\ ParseQuestions(wire.query).ok

\* Another opcode, or no question at all.
Refuse ==
    /\ Readable
    /\ wire.query.opcode # 0 \/ wire.query.qd = 0
    /\ LET rcode == IF wire.query.opcode # 0 THEN NOTIMP ELSE FORMERR
       IN  Reply(BuildErrorResponse(wire.query, rcode).message)

Proper == Readable /\ wire.query.opcode = 0 /\ wire.query.qd > 0

\* Blocked, refused, local or rewritten: the answer is made here.
AnswerHere ==
    /\ Proper
    /\ LET qtype == Head(ParseQuestions(wire.query).questions).qtype
           addresses == CASE qtype = TYPE_A -> {<<>>, <<0>>}
                          [] qtype = TYPE_AAAA -> {<<>>, <<0, 0>>}
                          [] OTHER -> {<<>>}
       IN  \/ \E rcode \in {NXDOMAIN, REFUSED} : Reply(BuildErrorResponse(wire.query, rcode).message)
           \/ \E address \in addresses :
                Reply(BuildAddressResponse(wire.query, qtype, address, 60).message)

\* apply_0x20() picks the case of every letter.
Spellings(name) ==
    {[i \in DOMAIN name |-> IF i \in raised THEN name[i] - 32 ELSE name[i]] :
        raised \in SUBSET {i \in DOMAIN name : name[i] \in 97..122}}

\* UpstreamPool.resolve() sends its own query.
AskUpstream ==
    /\ Proper
    /\ LET question == ParseQuestions(wire.query).questions[1]
       IN  \E strict \in BOOLEAN :
           \E name \in IF strict THEN Spellings(question.name) ELSE {question.name} :
                wire' = [stage |-> "sent", query |-> wire.query, name |-> name, strict |-> strict,
                         question |-> question,
                         sent |-> UpstreamQuery(name, question, WantsDnssec(wire.query),
                                                "CD" \in wire.query.flags)]

\* An upstream answers: the question as it was sent or in lower case.
Respond ==
    /\ wire.stage = "sent"
    /\ \E section \in Sections(Len(QuestionCells(wire.sent))), id \in 0..1,
          cells \in {QuestionCells(wire.sent), [i \in DOMAIN QuestionCells(wire.sent) |->
                                                    Lower(wire.sent.body[i])]} :
        wire' = [stage |-> "answered", query |-> wire.query, name |-> wire.name,
                 strict |-> wire.strict, question |-> wire.question, sent |-> wire.sent, response |->
                    [id |-> id, flags |-> {"QR", "RD", "RA"}, opcode |-> 0, rcode |-> 0, qd |-> 1,
                     an |-> section.an, ns |-> 0, ar |-> section.ar, body |-> cells \o section.cells]]

Reject ==
    /\ wire.stage = "answered"
    /\ ~Valid(wire.response, wire.sent, wire.name, wire.question, wire.strict)
    /\ Reply(BuildErrorResponse(wire.query, SERVFAIL).message)

\* The response is kept as put() keeps it: an answer whose records cannot be
\* read is passed on and not stored.
Accept ==
    /\ wire.stage = "answered"
    /\ Valid(wire.response, wire.sent, wire.name, wire.question, wire.strict)
    /\ wire' = [stage |-> "stored", query |-> wire.query,
                kept |-> RewriteQuestionName(wire.response, wire.question.name)]

\* get() after a while, in time or, with upstream down, past it.
Replay ==
    /\ wire.stage = "stored"
    /\ \/ \E elapsed \in Elapsed :
            /\ elapsed > 0 => IterRecords(wire.kept).ok /\ elapsed < Max({MinTtl, MessageTtl(wire.kept)})
            /\ wire' = [stage |-> "replied", query |-> wire.query, kept |-> wire.kept, age |-> elapsed,
                        reply |-> PrepareReply(
                            IF elapsed = 0 THEN wire.kept ELSE WithTtlsReduced(wire.kept, elapsed),
                            wire.query)]
       \/ /\ IterRecords(wire.kept).ok
          /\ wire' = [stage |-> "replied", query |-> wire.query, kept |-> wire.kept, age |-> -1,
                      reply |-> PrepareReply(RewriteAllTtls(wire.kept), wire.query)]

\* _handle_udp() when the reply is longer than _client_udp_limit().
TooLong ==
    /\ wire.stage = "replied"
    /\ wire' = [stage |-> "truncated", query |-> wire.query, reply |-> Truncate(wire.reply)]

MessagesNext ==
    \/ Ignore \/ Refuse \/ AnswerHere \/ AskUpstream \/ Respond
    \/ Reject \/ Accept \/ Replay \/ TooLong

MessagesSpec == MessagesInit /\ [][MessagesNext]_wire

-------------------------------------------------------------------------------
Replied == wire.stage \in {"replied", "truncated"}

\* A reply goes back under the client's identifier with the client's question,
\* spelled as the client spelled it although what was sent upstream and cached
\* was not; a query with several questions gets its first (engine.py:538).
RepliesMatch ==
    Replied =>
        /\ wire.reply.id = wire.query.id
        /\ "QR" \in wire.reply.flags
        /\ ParseQuestions(wire.reply).ok
        /\ wire.query.qd = 1 => QuestionCells(wire.reply) = QuestionCells(wire.query)
        /\ wire.query.qd > 0 => Head(ParseQuestions(wire.reply).questions)
                                    = Head(ParseQuestions(wire.query).questions)

\* The records the filter judged are the records the client gets, through the
\* cache, the ageing and the new question in front of them: compression
\* pointers still lead to the same names, lifetimes have run down and nothing
\* else has changed, the flags in an OPT record least of all (dnsmsg.py:253).
RecordsKept ==
    Replied =>
        LET read == IterRecords(wire.reply)
        IN  IF "kept" \notin DOMAIN wire THEN read.ok
            ELSE LET before == IterRecords(wire.kept)
                     Ttl(rr) == IF rr.rtype = TYPE_OPT THEN rr.ttl
                                ELSE IF wire.age = -1 THEN STALE_TTL
                                ELSE Max({0, rr.ttl - wire.age})
                 IN  before.ok =>
                        /\ read.ok
                        /\ read.records = [i \in DOMAIN before.records |->
                                [before.records[i] EXCEPT !.ttl = Ttl(before.records[i])]]
                        /\ CnameChain(wire.reply) = CnameChain(wire.kept)
                        /\ AnswerAddresses(wire.reply) = AnswerAddresses(wire.kept)

\* The answer a client gets is its own: both of the above, on every path from
\* the query to the reply (engine.py:538).
AnswerIntact == RepliesMatch /\ RecordsKept

-------------------------------------------------------------------------------
(* The messages for which that is proved.                                  *)

Passes == MaxJumps + MaxNameLen

\* The cells a pass of read_name() looks at.
Looked(body, s) ==
    IF s.state # "reading" THEN {}
    ELSE IF s.cursor \in DOMAIN body /\ body[s.cursor] \in 1..63
         THEN s.cursor..s.cursor + body[s.cursor]
         ELSE {s.cursor}

\* The cells that read_name() looks at.
Trail(body, offset) == UNION {Looked(body, Reading(body, offset)[n]) : n \in 0..Passes}

QuestionTrails(body, n) == UNION {Trail(body, QuestionsOf(body)[k].end) : k \in 0..n - 1}

RecordTrails(m) ==
    UNION {Trail(m.body, RecordsFrom(m.body, ParseQuestions(m).end)[k].end) : k \in 0..m.an + m.ns + m.ar - 1}

\* A name without dots around it that encode_name() accepts.
Encodable(name) == name \in Seq(Nat) /\ Stripped(name) = name /\ EncodeName(name).ok

\* A body begins with an encoded name, in any case.
Written(body, X) ==
    \A i \in DOMAIN EncodeName(X).cells :
        i \in DOMAIN body /\ Lower(body[i]) = Lower(EncodeName(X).cells[i])

AskedFor(query) == Head(ParseQuestions(query).questions)

\* A query's names are read from its question section, or with the records
\* from the body, and the first one is neither compressed nor has it a dot in
\* a label.
Ordinary(query) ==
    ParseQuestions(query).ok =>
        /\ QuestionTrails(query.body, query.qd) \subseteq 1..ParseQuestions(query).end - 1
        /\ 0 \notin RecordTrails(query)
        /\ query.qd > 0 => /\ Encodable(AskedFor(query).name)
                           /\ Written(query.body, AskedFor(query).name)

\* What is kept of an answer to a question.
KeptAnswer(question, section) ==
    [id |-> 0, flags |-> {"QR", "RD", "RA"}, opcode |-> 0, rcode |-> 0,
     qd |-> 1, an |-> section.an, ns |-> 0, ar |-> section.ar,
     body |-> EncodeName(question.name).cells \o <<question.qtype, question.qclass>> \o section.cells]

LifetimeCells(m) == {rr.ttlOffset : rr \in Range(IterRecords(m).records)}

\* If its records can be read, no owner's name and no alias's target leads
\* through the header or through a lifetime.
Apart(m) ==
    IterRecords(m).ok =>
        /\ RecordTrails(m) \cap (LifetimeCells(m) \cup {0}) = {}
        /\ \A rr \in Range(IterRecords(m).records) :
                rr.rtype = TYPE_CNAME =>
                    Trail(m.body, rr.ttlOffset + 2) \cap (LifetimeCells(m) \cup {0}) = {}

\* An upstream's answer is a sequence of cells, and Apart.
Orderly(query) ==
    ParseQuestions(query).ok /\ query.qd > 0 =>
        \A section \in Sections(Len(EncodeName(AskedFor(query).name).cells) + 2) :
            /\ section.an \in Nat /\ section.ar \in Nat /\ section.cells \in Seq(Nat)
            /\ Apart(KeptAnswer(AskedFor(query), section))
===============================================================================
