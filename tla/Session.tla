--------------------------------- MODULE Session ---------------------------------
(***************************************************************************)
(* An SRTP session (srtp_ctx_t, srtp/srtp.c): its stream list, its         *)
(* wildcard template and the memory they own, under srtp_create,           *)
(* srtp_stream_add, srtp_stream_remove, srtp_stream_update, srtp_dealloc   *)
(* and the lookup, cloning and insertion done by the packet functions.     *)
(*                                                                         *)
(* Every call is one action; every allocation in it may fail.  A stream    *)
(* context owns its key material (ciphers, authentication functions and    *)
(* usage limits, here one object named after the context that allocated    *)
(* it) or, if it is a clone, refers to the template's.  The replay         *)
(* databases are abstracted to the number of packets handled; what is in   *)
(* them is the subject of SrtpStream and SrtcpStream.                      *)
(***************************************************************************)
EXTENDS Integers, FiniteSets, Sequences, FiniteSetsExt

CONSTANTS
    Ssrcs,          \* the SSRC values
    Ids,            \* addresses: a finite set of integers
    InitialSize,    \* INITIAL_STREAM_INDEX_SIZE (2)
    MaxIndex,       \* bound on the packets of one stream
    MaxStreams,     \* bound on the length of the list
    AddDuplicates,  \* srtp_stream_add is called for an SSRC in the list
    Failures        \* the failures considered, a subset of FailurePoints

(* Where an allocation or an initialisation can fail. *)
FailurePoints == {"list", "stream", "insert", "clone", "template_init"}

ASSUME SessionAssumption ==
    /\ IsFiniteSet(Ids) /\ Ids \subseteq Nat \ {0}
    /\ InitialSize \in Nat \ {0}
    /\ MaxIndex \in Nat /\ MaxStreams \in Nat
    /\ AddDuplicates \in BOOLEAN
    /\ Failures \subseteq FailurePoints

VARIABLES
    live,       \* the session exists
    template,   \* stream_template, Nil for NULL
    list,       \* the entries of stream_list in their order
    capacity,   \* the capacity of stream_list
    stream,     \* the allocated stream contexts
    keys,       \* the allocated key material
    fault,      \* an access to memory that is not allocated
    last        \* the last call and its outcome

vars == <<live, template, list, capacity, stream, keys, fault, last>>

Nil == 0

Directions == {"unknown", "sender", "receiver"}
StreamType == [ssrc : Ssrcs \cup {Nil}, direction : Directions,
               index : 0 .. MaxIndex, keys : Ids]

(* Type correctness: the list never outgrows its buffer, and every address in
   the session is one of an allocated context. *)
TypeOK ==
    /\ live \in BOOLEAN /\ fault \in BOOLEAN
    /\ template \in Ids \cup {Nil}
    /\ list \in Seq(Ids) /\ Len(list) <= capacity
    /\ DOMAIN stream \subseteq Ids
    /\ \A id \in DOMAIN stream : stream[id] \in StreamType
    /\ Range(list) \cup ({template} \ {Nil}) \subseteq DOMAIN stream
    /\ keys \subseteq Ids

(* What a call returned, and the SSRC it was for: Nil if it is for the whole
   session, or is refused whatever its SSRC. *)
Outcome(call, ssrc, status) == [call |-> call, ssrc |-> ssrc, status |-> status]

Init ==
    /\ live = FALSE
    /\ template = Nil
    /\ list = <<>>
    /\ capacity = 0
    /\ stream = <<>>
    /\ keys = {}
    /\ fault = FALSE
    /\ last = Outcome("none", Nil, "ok")

-----------------------------------------------------------------------------
(***************************************************************************)
(* The stream list and the memory                                          *)
(***************************************************************************)

(* srtp_stream_list_get: the position of the first entry with the SSRC, 0 if
   there is none. *)
Find(entries, contexts, ssrc) ==
    LET I == {i \in 1 .. Len(entries) : contexts[entries[i]].ssrc = ssrc}
    IN  IF I # {} THEN Min(I) ELSE 0
Position(ssrc) == Find(list, stream, ssrc)
Listed(ssrc) == Position(ssrc) # 0
GetStream(ssrc) == list[Position(ssrc)]

(* srtp_stream_list_remove: the entries that follow move one position back. *)
Removed(entries, n) ==
    SubSeq(entries, 1, n - 1) \o SubSeq(entries, n + 1, Len(entries))

(* The addresses not in use, and the one the next allocation returns. *)
Available == Ids \ (DOMAIN stream \cup keys)
Fresh == Min(Available)

(* srtp_stream_list_insert can fail only when it has to grow the buffer, to
   twice its size. *)
MustGrow == Len(list) = capacity
(* Mutant of Grown: the buffer grows one entry late. *)
GrownLater == IF Len(list) > capacity THEN 2 * capacity ELSE capacity
Grown == IF MustGrow THEN 2 * capacity ELSE capacity
CannotInsert == "insert" \in Failures /\ MustGrow

Without(ids) == [id \in DOMAIN stream \ ids |-> stream[id]]

(* The contexts with one more, at an address not in use. *)
With(contexts, new, s) ==
    [id \in DOMAIN contexts \cup {new} |->
        IF id = new THEN s ELSE contexts[id]]

(* Mutant of Freed: the template's key material is freed with a clone. *)
FreedShared(ids, tmpl) == {stream[id].keys : id \in ids}

(* srtp_stream_dealloc(stream, template) frees the key material the context
   does not share with the template; Freed is what it frees for ids. *)
Freed(ids, tmpl) ==
    {stream[id].keys : id \in
        {i \in ids : tmpl = Nil \/ stream[i].keys # stream[tmpl].keys}}

(* It is an error to free what is not allocated, or twice. *)
BadFree(ids, tmpl) ==
    \/ ~(Freed(ids, tmpl) \subseteq keys)
    \/ \E i, j \in ids : /\ i # j
                         /\ stream[i].keys = stream[j].keys
                         /\ stream[i].keys \in Freed(ids, tmpl)

TemplateDirection ==
    IF template = Nil THEN "none" ELSE stream[template].direction

(* A context is used: it is an error if its key material is not allocated. *)
Dangling(id) == stream[id].keys \notin keys

(* srtp_stream_alloc and srtp_stream_init *)
NewStream(ssrc, direction) ==
    [ssrc |-> ssrc, direction |-> direction, index |-> 0, keys |-> Fresh]

(* srtp_stream_clone *)
CloneOf(tmpl, ssrc, direction) ==
    [ssrc |-> ssrc, direction |-> direction, index |-> 0,
     keys |-> stream[tmpl].keys]

-----------------------------------------------------------------------------
(***************************************************************************)
(* srtp_create and srtp_dealloc                                            *)
(***************************************************************************)

(* With no policy, or followed by the srtp_stream_add of its policy, which
   is the action AddTemplate or AddStream. *)
Create ==
    /\ ~live
    /\ live' = TRUE
    /\ capacity' = InitialSize
    /\ last' = Outcome("create", Nil, "ok")
    /\ UNCHANGED <<template, list, stream, keys, fault>>

(* The stream of the policy cannot be added: everything is deallocated. *)
CreateFails ==
    /\ ~live
    /\ "stream" \in Failures
    /\ last' = Outcome("create", Nil, "alloc_fail")
    /\ UNCHANGED <<live, template, list, capacity, stream, keys, fault>>

(* The list cannot be allocated: srtp_dealloc is called all the same, and
   srtp_stream_list_for_each reads the entries of a list that is NULL. *)
CreateNoList ==
    /\ ~live
    /\ "list" \in Failures
    /\ fault' = TRUE
    /\ last' = Outcome("create", Nil, "alloc_fail")
    /\ UNCHANGED <<live, template, list, capacity, stream, keys>>

(* srtp_dealloc: every stream of the list, then the template. *)
Dealloc ==
    LET own == Freed(Range(list), template)
        shared == IF template = Nil THEN {} ELSE {stream[template].keys}
    IN  /\ live
        /\ live' = FALSE
        /\ list' = <<>>
        /\ template' = Nil
        /\ capacity' = 0
        /\ stream' = Without(Range(list) \cup {template})
        /\ keys' = keys \ (own \cup shared)
        /\ fault' = (fault \/ BadFree(Range(list), template)
                          \/ ~(shared \subseteq keys))
        /\ last' = Outcome("dealloc", Nil, "ok")

-----------------------------------------------------------------------------
(***************************************************************************)
(* srtp_stream_add and srtp_stream_remove                                  *)
(***************************************************************************)

(* srtp_stream_add with a wildcard SSRC: the stream becomes the template. *)
AddTemplate(direction) ==
    /\ live
    /\ template = Nil
    /\ Available # {}
    /\ template' = Fresh
    /\ stream' = With(stream, Fresh, NewStream(Nil, direction))
    /\ keys' = keys \cup {Fresh}
    /\ last' = Outcome("add", Nil, "ok")
    /\ UNCHANGED <<live, list, capacity, fault>>

(* There is a template: the new stream is deallocated. *)
AddTemplateRefused ==
    /\ live
    /\ template # Nil
    /\ last' = Outcome("add", Nil, "bad_param")
    /\ UNCHANGED <<live, template, list, capacity, stream, keys, fault>>

(* srtp_stream_add with a specific SSRC; the list is not searched for it. *)
AddStream(ssrc) ==
    /\ live
    /\ AddDuplicates \/ ~Listed(ssrc)
    /\ Len(list) < MaxStreams /\ Available # {}
    /\ stream' = With(stream, Fresh, NewStream(ssrc, "unknown"))
    /\ keys' = keys \cup {Fresh}
    /\ list' = Append(list, Fresh)
    /\ capacity' = Grown
    /\ last' = Outcome("add", ssrc, "ok")
    /\ UNCHANGED <<live, template, fault>>

(* The stream cannot be allocated, initialised or inserted: what was
   allocated for it is deallocated. *)
AddFails ==
    /\ live
    /\ "stream" \in Failures \/ CannotInsert
    /\ last' = Outcome("add", Nil, "alloc_fail")
    /\ UNCHANGED <<live, template, list, capacity, stream, keys, fault>>

(* Mutant of RemoveStream: the context is freed, its key material is not. *)
RemoveStreamLeaks(ssrc) ==
    /\ live
    /\ Listed(ssrc)
    /\ list' = Removed(list, Position(ssrc))
    /\ stream' = Without({GetStream(ssrc)})
    /\ last' = Outcome("remove", ssrc, "ok")
    /\ UNCHANGED <<live, template, capacity, keys, fault>>

(* Mutant of RemoveStream: the entries that follow do not move back. *)
RemoveStreamCuts(ssrc) ==
    /\ live
    /\ Listed(ssrc)
    /\ LET id == GetStream(ssrc)
       IN  /\ list' = SubSeq(list, 1, Position(ssrc) - 1)
           /\ stream' = Without({id})
           /\ keys' = keys \ Freed({id}, template)
    /\ last' = Outcome("remove", ssrc, "ok")
    /\ UNCHANGED <<live, template, capacity, fault>>

(* srtp_stream_remove *)
RemoveStream(ssrc) ==
    /\ live
    /\ Listed(ssrc)
    /\ LET id == GetStream(ssrc)
       IN  /\ list' = Removed(list, Position(ssrc))
           /\ stream' = Without({id})
           /\ keys' = keys \ Freed({id}, template)
           /\ fault' = (fault \/ BadFree({id}, template))
    /\ last' = Outcome("remove", ssrc, "ok")
    /\ UNCHANGED <<live, template, capacity>>

RemoveUnknown(ssrc) ==
    /\ live
    /\ ~Listed(ssrc)
    /\ last' = Outcome("remove", ssrc, "no_ctx")
    /\ UNCHANGED <<live, template, list, capacity, stream, keys, fault>>

-----------------------------------------------------------------------------
(***************************************************************************)
(* srtp_stream_update (srtp_update is the same function)                   *)
(***************************************************************************)

(* stream_update: the stream is removed, one is added at the end of the list,
   and the first stream with the SSRC takes over the old index, RTCP database
   and direction.  Removing made room, so the insertion cannot fail. *)
UpdateStream(ssrc) ==
    /\ live
    /\ Listed(ssrc)
    /\ Available # {}
    /\ LET old == GetStream(ssrc)
           entries == Append(Removed(list, Position(ssrc)), Fresh)
           contexts == With(Without({old}), Fresh, NewStream(ssrc, "unknown"))
           found == Find(entries, contexts, ssrc)
       IN  /\ list' = entries
           /\ stream' = [contexts EXCEPT
                  ![entries[found]].index = stream[old].index,
                  ![entries[found]].direction = stream[old].direction]
           /\ keys' = (keys \ Freed({old}, template)) \cup {Fresh}
           /\ fault' = (fault \/ BadFree({old}, template))
    /\ last' = Outcome("update", ssrc, "ok")
    /\ UNCHANGED <<live, template, capacity>>

(* The new stream cannot be allocated or initialised: the old one is gone. *)
UpdateStreamFails(ssrc) ==
    /\ live
    /\ Listed(ssrc)
    /\ "stream" \in Failures
    /\ LET old == GetStream(ssrc)
       IN  /\ list' = Removed(list, Position(ssrc))
           /\ stream' = Without({old})
           /\ keys' = keys \ Freed({old}, template)
           /\ fault' = (fault \/ BadFree({old}, template))
    /\ last' = Outcome("update", ssrc, "alloc_fail")
    /\ UNCHANGED <<live, template, capacity>>

(* The policy is not valid, its stream or its template is not there, or its
   MKI or its direction is not the stream's. *)
UpdateRefused ==
    /\ live
    /\ last' = Outcome("update", Nil, "bad_param")
    /\ UNCHANGED <<live, template, list, capacity, stream, keys, fault>>

(* update_template_stream_cb tells the clones by their authentication
   function. *)
IsClone(id) == stream[id].keys = stream[template].keys

(* The capacity of a new list with n entries. *)
CapacityFor(n) ==
    CHOOSE c \in {InitialSize * 2^k : k \in 0 .. n} :
        /\ n <= c
        /\ c = InitialSize \/ 2 * n > c

(* Mutant of UpdateTemplate: the clones start over. *)
UpdateTemplateFromZero ==
    /\ live
    /\ template # Nil
    /\ Available # {}
    /\ template' = Fresh
    /\ stream' = [id \in (DOMAIN stream \ {template}) \cup {Fresh} |->
                     IF id = Fresh
                     THEN NewStream(Nil, stream[template].direction)
                     ELSE IF IsClone(id)
                     THEN [stream[id] EXCEPT !.keys = Fresh, !.index = 0]
                     ELSE stream[id]]
    /\ keys' = (keys \ {stream[template].keys}) \cup {Fresh}
    /\ capacity' = CapacityFor(Len(list))
    /\ last' = Outcome("update_template", Nil, "ok")
    /\ UNCHANGED <<live, list, fault>>

(* Mutant of UpdateTemplate: the clones keep the old template's keys. *)
UpdateTemplateOldKeys ==
    /\ live
    /\ template # Nil
    /\ Available # {}
    /\ template' = Fresh
    /\ stream' = With(Without({template}), Fresh,
                      NewStream(Nil, stream[template].direction))
    /\ keys' = (keys \ {stream[template].keys}) \cup {Fresh}
    /\ capacity' = CapacityFor(Len(list))
    /\ last' = Outcome("update_template", Nil, "ok")
    /\ UNCHANGED <<live, list, fault>>

(* update_template_streams: every clone is replaced by one of the new
   template, at an index and an RTCP database that are the old clone's; the
   other streams move to the new list; the old template is deallocated. *)
UpdateTemplate ==
    /\ live
    /\ template # Nil
    /\ Available # {}
    /\ template' = Fresh
    /\ stream' = [id \in (DOMAIN stream \ {template}) \cup {Fresh} |->
                     IF id = Fresh
                     THEN NewStream(Nil, stream[template].direction)
                     ELSE IF IsClone(id)
                     THEN [stream[id] EXCEPT
                              !.keys = Fresh,
                              !.direction = stream[template].direction]
                     ELSE stream[id]]
    /\ keys' = (keys \ {stream[template].keys}) \cup {Fresh}
    /\ fault' = (fault \/ Dangling(template))
    /\ capacity' = CapacityFor(Len(list))
    /\ last' = Outcome("update_template", Nil, "ok")
    /\ UNCHANGED <<live, list>>

(* The stream at position n cannot be cloned, or the new list cannot grow to
   take it: the streams already in the new list, with the new template, and
   the one at n are deallocated; the others stay with the old template. *)
UpdateTemplateStops(n) ==
    /\ live
    /\ template # Nil
    /\ n \in DOMAIN list
    /\ \/ "clone" \in Failures /\ IsClone(list[n])
       \/ "insert" \in Failures /\ CapacityFor(n - 1) = n - 1
    /\ LET gone == {list[i] : i \in 1 .. n}
       IN  /\ list' = SubSeq(list, n + 1, Len(list))
           /\ stream' = Without(gone)
           /\ keys' = keys \ Freed(gone, template)
           /\ fault' = (fault \/ BadFree(gone, template))
    /\ last' = Outcome("update_template", Nil, "alloc_fail")
    /\ UNCHANGED <<live, template, capacity>>

(* The new template cannot be initialised or has no list: only its context
   is freed, not its key material. *)
UpdateTemplateFails ==
    /\ live
    /\ template # Nil
    /\ Available # {}
    /\ Failures \cap {"template_init", "list"} # {}
    /\ keys' = keys \cup {Fresh}
    /\ last' = Outcome("update_template", Nil, "init_fail")
    /\ UNCHANGED <<live, template, list, capacity, stream, fault>>

-----------------------------------------------------------------------------
(***************************************************************************)
(* The packet functions, for RTP and for RTCP                              *)
(***************************************************************************)

(* No stream has the SSRC and the template, if any, is of the other
   direction. *)
NoContext(call, ssrc, other) ==
    /\ live
    /\ ~Listed(ssrc)
    /\ TemplateDirection \in {"none", other}
    /\ last' = Outcome(call, ssrc, "no_ctx")
    /\ UNCHANGED <<live, template, list, capacity, stream, keys, fault>>

(* Mutant of CloneTemplate: the list is not searched for the SSRC. *)
CloneTemplateAlways(call, ssrc, direction, recorded) ==
    /\ live
    /\ TemplateDirection = direction
    /\ Len(list) < MaxStreams /\ Available # {}
    /\ stream' = With(stream, Fresh, CloneOf(template, ssrc, direction))
    /\ list' = Append(list, Fresh)
    /\ capacity' = Grown
    /\ last' = Outcome(call, ssrc, "ok")
    /\ UNCHANGED <<live, template, keys, fault>>

(* The template serves the packet: a clone of it is inserted in the list.
   srtp_protect does so first and may fail later (recorded = 0);
   srtp_unprotect does so once the packet is authentic. *)
CloneTemplate(call, ssrc, direction, recorded) ==
    /\ live
    /\ ~Listed(ssrc)
    /\ TemplateDirection = direction
    /\ Len(list) < MaxStreams /\ Available # {}
    /\ recorded <= MaxIndex
    /\ stream' = With(stream, Fresh,
           [CloneOf(template, ssrc, direction) EXCEPT !.index = recorded])
    /\ list' = Append(list, Fresh)
    /\ capacity' = Grown
    /\ fault' = (fault \/ Dangling(template))
    /\ last' = Outcome(call, ssrc, IF recorded = 1 THEN "ok" ELSE "fail")
    /\ UNCHANGED <<live, template, keys>>

(* The packet is refused or the clone cannot be allocated or inserted. *)
CloneFails(call, ssrc, direction) ==
    /\ live
    /\ ~Listed(ssrc)
    /\ TemplateDirection = direction
    /\ call = "unprotect" \/ "clone" \in Failures \/ CannotInsert
    /\ last' = Outcome(call, ssrc, "fail")
    /\ UNCHANGED <<live, template, list, capacity, stream, keys, fault>>

(* A stream of the other direction has the SSRC. *)
Collision(call, ssrc, other) ==
    /\ live
    /\ Listed(ssrc)
    /\ stream[GetStream(ssrc)].direction = other
    /\ last' = Outcome(call, ssrc, "direction_mismatch")
    /\ UNCHANGED <<live, template, list, capacity, stream, keys, fault>>

(* A stream of the list serves the packet.  srtp_protect sets the direction
   before it may fail, srtp_unprotect after. *)
UseStream(call, ssrc, direction, recorded) ==
    LET id == GetStream(ssrc)
    IN  /\ live
        /\ Listed(ssrc)
        /\ stream[id].direction \in {"unknown", direction}
        /\ stream[id].index + recorded <= MaxIndex
        /\ stream' = [stream EXCEPT
                         ![id].direction = IF call = "protect" \/ recorded = 1
                                           THEN direction ELSE @,
                         ![id].index = @ + recorded]
        /\ fault' = (fault \/ Dangling(id))
        /\ last' = Outcome(call, ssrc, IF recorded = 1 THEN "ok" ELSE "fail")
        /\ UNCHANGED <<live, template, list, capacity, keys>>

Protect(ssrc) ==
    \/ NoContext("protect", ssrc, "receiver")
    \/ \E n \in {0, 1} : CloneTemplate("protect", ssrc, "sender", n)
    \/ CloneFails("protect", ssrc, "sender")
    \/ Collision("protect", ssrc, "receiver")
    \/ \E n \in {0, 1} : UseStream("protect", ssrc, "sender", n)

Unprotect(ssrc) ==
    \/ NoContext("unprotect", ssrc, "sender")
    \/ CloneTemplate("unprotect", ssrc, "receiver", 1)
    \/ CloneFails("unprotect", ssrc, "receiver")
    \/ Collision("unprotect", ssrc, "sender")
    \/ \E n \in {0, 1} : UseStream("unprotect", ssrc, "receiver", n)

-----------------------------------------------------------------------------
Manage ==
    \/ Create \/ CreateFails \/ CreateNoList \/ Dealloc
    \/ \E d \in {"sender", "receiver"} : AddTemplate(d)
    \/ AddTemplateRefused \/ AddFails
    \/ \E ssrc \in Ssrcs : \/ AddStream(ssrc)
                           \/ RemoveStream(ssrc)
                           \/ RemoveUnknown(ssrc)

Rekey ==
    \/ \E ssrc \in Ssrcs : UpdateStream(ssrc) \/ UpdateStreamFails(ssrc)
    \/ UpdateRefused
    \/ UpdateTemplate
    \/ \E n \in 1 .. MaxStreams : UpdateTemplateStops(n)
    \/ UpdateTemplateFails

Next ==
    \/ Manage
    \/ Rekey
    \/ \E ssrc \in Ssrcs : Protect(ssrc) \/ Unprotect(ssrc)

Spec == Init /\ [][Next]_vars

-----------------------------------------------------------------------------
(***************************************************************************)
(* Properties                                                              *)
(***************************************************************************)

Reachable == Range(list) \cup ({template} \ {Nil})

(* Whatever calls succeed or fail, the session holds exactly the memory it can
   reach: a failed call leaves nothing behind, srtp_dealloc leaves nothing at
   all, and no stream refers to key material that has been freed. *)
NoLeak ==
    /\ DOMAIN stream = Reachable
    /\ keys = {stream[id].keys : id \in Reachable}

(* No call reads or frees memory that is not allocated, or frees it twice. *)
NoFault == ~fault

(* Key material is shared between the template and its clones and between no
   other streams: deallocating one stream never takes another's keys. *)
SharedWithTemplateOnly ==
    \A id, other \in DOMAIN stream :
        id # other /\ stream[id].keys = stream[other].keys =>
            template # Nil /\ IsClone(id)

(* As long as the application adds no SSRC twice, no sequence of packets,
   additions and updates lists an SSRC twice, so that the stream a packet is
   processed with does not depend on the order of the list. *)
UniqueSsrc ==
    \A i, j \in DOMAIN list :
        stream[list[i]].ssrc = stream[list[j]].ssrc => i = j

View(ssrc) == [direction |-> stream[GetStream(ssrc)].direction,
               index |-> stream[GetStream(ssrc)].index]

(* An update that succeeds keeps every stream, the direction and the index of
   each, for a specific stream and for the clones of the template. *)
UpdateKeepsStep ==
    last'.call \in {"update", "update_template"} /\ last'.status = "ok" =>
        \A ssrc \in Ssrcs :
            /\ Listed(ssrc)' = Listed(ssrc)
            /\ Listed(ssrc) => View(ssrc)' = View(ssrc)
UpdateKeeps == [][UpdateKeepsStep]_vars

(* The session as a table of streams and the outcome of its calls; the list,
   the sharing of keys, and which context a stream has are its implementation. *)
Abs == INSTANCE SessionAbs WITH
    open <- live,
    side <- TemplateDirection,
    table <- [ssrc \in {s \in Ssrcs : Listed(s)} |-> View(ssrc)],
    result <- last

(* The session implements the table: whatever is added, removed, cloned or
   rekeyed, a stream's direction is set once and its index never goes back,
   streams appear in the template's direction only, and no call touches another
   stream than its own.  A stream is lost by its removal, by an update of it
   that returns alloc_fail, and by an update of the template that does; every
   other call that fails leaves the table as it was, except that srtp_protect
   may have taken a stream in use. *)
Implements == Abs!Spec
================================================================================
