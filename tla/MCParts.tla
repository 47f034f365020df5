-------------------------------- MODULE MCParts --------------------------------
(* Instances of five parts that share no state: the sealed VPN state, the QR   *)
(* codes that show it to phones, DNS messages, and the encrypted and the plain *)
(* upstream.  In a behaviour one of them takes steps.                          *)
EXTENDS Vault, QRReader, Messages, Transports, PlainUpstream

VARIABLE part  \* which of them runs

-------------------------------------------------------------------------------
(* Profiles to draw: the empty one and the longest that fits version 1, the    *)
(* shortest that does not, versions with one and two groups of blocks, with    *)
(* version information, with a 16-bit length, and what is refused.             *)

Profile(n) == [i \in 1..n |-> Bits((67 * i + 30) % 256, 8)]

Job(n, level, version) == [payload |-> Profile(n), level |-> level, version |-> version]

MCJobs ==
    {Job(0, "L", 0), Job(17, "L", 0), Job(18, "L", 0), Job(9, "M", 3), Job(3, "H", 5),
     Job(20, "M", 7), Job(12, "M", 10), Job(10, "H", 1), Job(1, "L", 21)}

-------------------------------------------------------------------------------
(* Queries: plain ones, with EDNS, of another opcode, without a question, with *)
(* two, with a second name that points nowhere or in a circle, cut short, and  *)
(* responses.                                                                  *)

DnsNames == {<<0>>, <<1, 65, 0>>, <<2, 97, 66, 1, 97, 0>>}

Message(body) ==
    [id |-> 7, flags |-> {"RD"}, opcode |-> 0, rcode |-> 0,
     qd |-> 1, an |-> 0, ns |-> 0, ar |-> 0, body |-> body]

Plain == {Message(name \o <<type, CLASS_IN>>) : name \in DnsNames, type \in {TYPE_A, TYPE_AAAA}}

MCQueries ==
    Plain
    \cup {[m EXCEPT !.opcode = 1] : m \in Plain}
    \cup {[m EXCEPT !.qd = 0] : m \in Plain}
    \cup {[m EXCEPT !.flags = {"QR"}] : m \in Plain}
    \cup {[m EXCEPT !.flags = {"RD", "CD"}, !.ar = 1, !.body = @ \o OptRecord(size, ttl)] :
            m \in Plain, size \in {100, 4096}, ttl \in {0, DO_BIT}}
    \cup {[m EXCEPT !.qd = 2, !.body = @ \o second \o <<TYPE_A, CLASS_IN>>] :
            m \in Plain, second \in {<<0>>, <<Pointer(1)>>, <<Pointer(20)>>, <<64>>,
                                     <<1, 97, Pointer(4)>>}}
    \cup {[m EXCEPT !.ar = 1] : m \in Plain}
    \cup {[m EXCEPT !.body = SubSeq(@, 1, k)] : m \in Plain, k \in 0..3}

\* Answers: none, an address, an alias with names compressed against the
\* question and against a record, with and without OPT, and one that breaks
\* off in its second record.
MCSections(n) ==
    LET address(owner, ttl) == <<owner, TYPE_A, CLASS_IN, ttl, 1, 9>>
        alias(ttl) == <<Pointer(1), TYPE_CNAME, CLASS_IN, ttl, 3, 1, 99, Pointer(1)>>
        opt == OptRecord(SAFE_UDP_PAYLOAD, DO_BIT)
    IN  {[an |-> 0, ar |-> 0, cells |-> <<>>],
         [an |-> 0, ar |-> 1, cells |-> opt],
         [an |-> 1, ar |-> 1, cells |-> address(Pointer(1), 3) \o opt],
         [an |-> 2, ar |-> 1, cells |-> alias(1) \o address(Pointer(n + 6), 3) \o opt],
         [an |-> 2, ar |-> 0, cells |-> address(Pointer(1), 3) \o <<Pointer(1), TYPE_A, CLASS_IN, 5, 9>>]}

ASSUME QueriesOrdinary == \A query \in MCQueries : Ordinary(query) /\ Orderly(query)

-------------------------------------------------------------------------------
(* A resolver of whose three addresses one is dead, first, last or alone.      *)

CONSTANTS i1, i2, dead

MCLists == {<<dead, i1, i2>>, <<i2, i1, dead>>, <<i1>>, <<dead>>}

-------------------------------------------------------------------------------
(* One part at a time; the others rest in one of their initial states.         *)

MCInit ==
    /\ part \in {"vault", "qr", "messages", "encrypted", "plain"}
    /\ Init /\ QRInit /\ MessagesInit /\ TransportsInit /\ PlainInit
    /\ part # "vault" => keyfile = "key" /\ promised = {CHOOSE n \in Names : TRUE}
    /\ part # "qr" => qr.job = Job(0, "L", 0)
    /\ part # "messages" => wire.query = Message(<<0, TYPE_A, CLASS_IN>>)
    /\ part # "encrypted" => protocol = "DoT"

MCNext ==
    /\ \/ part = "vault" /\ Next
       \/ part # "vault" /\ UNCHANGED vars
    /\ \/ part = "qr" /\ QRNext
       \/ part # "qr" /\ UNCHANGED qr
    /\ \/ part = "messages" /\ MessagesNext
       \/ part # "messages" /\ UNCHANGED wire
    /\ \/ part = "encrypted" /\ TransportsNext
       \/ part # "encrypted" /\ UNCHANGED transportVars
    /\ \/ part = "plain" /\ PlainNext
       \/ part # "plain" /\ UNCHANGED plainVars
    /\ UNCHANGED part

MCSpec == MCInit /\ [][MCNext]_<<vars, qr, wire, transportVars, plainVars, part>>

\* Peers and threads are only ever compared.
Symmetric == Permutations(Names) \cup Permutations(Callers)
===============================================================================
