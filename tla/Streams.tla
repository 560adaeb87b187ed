------------------------------- MODULE Streams -------------------------------
(***************************************************************************)
(* What the stream commands do to the keyspace of Commands                 *)
(* (src/commands.rs, xadd to xautoclaim; src/db.rs, Stream;                *)
(* src/id.rs).                                                             *)
(*                                                                         *)
(* An id <ms>-<seq> is the integer ms * Width + seq, so Width stands for   *)
(* 2^64 and ids are ordered as their pairs are; NoId is 0-0 and MaxId the  *)
(* largest.  A stream is [ids, last, gone, groups]: the ids of its         *)
(* entries, the last id given, the largest id removed, and its consumer    *)
(* groups, each [at, pending, members]: the last id delivered, the entries *)
(* delivered and not yet acknowledged, and the consumers it knows.  What   *)
(* an entry says, and the counters and times only XINFO shows (added,      *)
(* read, seen, active), are left out.                                      *)
(***************************************************************************)
EXTENDS Commands

CONSTANTS Width,      \* sequence numbers of one millisecond
          MaxMs       \* the last millisecond an id can name

ASSUME StreamsAssumption == Width \in Nat \ {0} /\ MaxMs \in Nat

NoId  == 0
MaxId == MaxMs * Width + Width - 1

\* Id::next_after: the clock, or the id after the last one when the clock has
\* not passed it.
NextAfter(last, now) == IF now > last \div Width THEN now * Width ELSE last + 1

NoStream == [ids |-> {}, last |-> NoId, gone |-> NoId, groups |-> [g \in {} |-> NoId]]

\* Stream::drop_oldest
Dropped(s, ids) ==
    [s EXCEPT !.ids = @ \ ids, !.gone = Max({@} \cup (ids \cap s.ids))]

\* The `n` smallest of a set of ids; the code takes them in order.
Oldest(ids, n) == {i \in ids : Cardinality({j \in ids : j <= i}) <= n}

\* The entries a trim would drop: all but the newest `n` (MAXLEN), or those
\* before an id (MINID).
Excess(ids, trim) ==
    CASE trim.by = "MAXLEN" -> Oldest(ids, Cardinality(ids) - trim.n)
      [] trim.by = "MINID"  -> {i \in ids : i < trim.n}
      [] OTHER              -> {}

Save(d, c, x, s) == Keep(d, c.key, "stream", s, x.now)

Changed(d, c, x, s) == Done(Save(d, c, x, s), {c.key}, c)

\* A change nobody is told of: dirty, so journaled, without an event.
Silently(d, c, x, s) == Done(Save(d, c, x, s), {}, c)

\* The id XADD is given: `*`, `<ms>-*`, or one spelled out; NoId when there
\* is none to give.
IdFor(c, last, now) ==
    CASE c.id = "*"  -> IF last = MaxId THEN NoId ELSE NextAfter(last, now)
      [] c.id = "ms" -> IF c.n > last \div Width THEN c.n * Width
                        ELSE IF c.n = last \div Width /\ (last + 1) % Width # 0 THEN last + 1
                        ELSE NoId
      [] OTHER       -> c.n

\* XADD [NOMKSTREAM] [trim] id: what has to fit is the stream once trimmed.
\* An id that is not above every id the stream ever gave is refused.
XAdd(d, c, x) ==
    LET s     == Read(d, c.key, x.now, NoStream)
        id    == IdFor(c, s.last, x.now)
        grown == [s EXCEPT !.ids = @ \cup {id}, !.last = id]
        drop  == Excess(grown.ids, c.trim)
    IN  IF \/ Clash(d, c.key, "stream", x.now)
           \/ c.nomk /\ c.key \notin Live(d, x.now)
           \/ id <= s.last
           \/ drop = {} /\ ~Room(x, Cardinality(s.ids), 1)
           \/ ~Admits(d, {c.key}, x)
        THEN Nothing(d)
        ELSE Changed(d, c, x, Dropped(grown, drop))

XDel_last(d, c, x) ==           \* the last id is taken from what is left
    IF ~Is(d, c.key, "stream", x.now) THEN Nothing(d)
    ELSE LET s    == d.keys[c.key].v
             left == s.ids \ c.ids
         IN  IF left = s.ids THEN Nothing(d)
             ELSE Changed(d, c, x, [Dropped(s, c.ids \cap s.ids) EXCEPT !.last = Max({NoId} \cup left)])

XDel(d, c, x) ==
    IF ~Is(d, c.key, "stream", x.now) THEN Nothing(d)
    ELSE LET s == d.keys[c.key].v
         IN  IF c.ids \cap s.ids = {} THEN Nothing(d)
             ELSE Changed(d, c, x, Dropped(s, c.ids \cap s.ids))

XTrim(d, c, x) ==
    IF ~Is(d, c.key, "stream", x.now) THEN Nothing(d)
    ELSE LET s == d.keys[c.key].v
             drop == Excess(s.ids, c.trim)
         IN  IF drop = {} THEN Nothing(d) ELSE Changed(d, c, x, Dropped(s, drop))

\* XREAD BLOCK, with `$` resolved when it first waits.
XRead(d, c, x) ==
    IF \E i \in DOMAIN c.keys : Clash(d, c.keys[i], "stream", x.now) THEN Nothing(d)
    ELSE IF \E i \in DOMAIN c.keys :
                \E id \in Read(d, c.keys[i], x.now, NoStream).ids : id > c.after[i]
    THEN Nothing(d) ELSE Waiting(d)

--------------------------------------------------------------------------
(* Consumer groups.                                                        *)

HasGroup(d, k, g, now) == Is(d, k, "stream", now) /\ g \in DOMAIN d.keys[k].v.groups

WithGroup(s, g, group) ==
    [s EXCEPT !.groups = [h \in DOMAIN @ \cup {g} |-> IF h = g THEN group ELSE @[h]]]

NewGroup(at) == [at |-> at, pending |-> [i \in {} |-> NoId], members |-> {}]

\* `$` is the stream's last id.
Resolve(s, id) == IF id = -1 THEN s.last ELSE id

\* XGROUP CREATE [MKSTREAM]
XGroupCreate(d, c, x) ==
    LET s == Read(d, c.key, x.now, NoStream)
    IN  IF \/ Clash(d, c.key, "stream", x.now)
           \/ c.key \notin Live(d, x.now) /\ (~c.mk \/ ~Admits(d, {c.key}, x))
           \/ c.group \in DOMAIN s.groups
        THEN Nothing(d)
        ELSE Changed(d, c, x, WithGroup(s, c.group, NewGroup(Resolve(s, c.n))))

\* XGROUP SETID, DESTROY, CREATECONSUMER and DELCONSUMER.  A consumer that is
\* deleted takes what it was handed with it.
XGroup(d, c, x) ==
    IF ~HasGroup(d, c.key, c.group, x.now) THEN Nothing(d)
    ELSE LET s == d.keys[c.key].v
             g == s.groups[c.group]
             others == {i \in DOMAIN g.pending : g.pending[i].who # c.who}
         IN  CASE c.sub = "SETID" ->
                    Changed(d, c, x, WithGroup(s, c.group, [g EXCEPT !.at = Resolve(s, c.n)]))
               [] c.sub = "DESTROY" ->
                    Changed(d, c, x,
                            [s EXCEPT !.groups = Restrict(@, DOMAIN @ \ {c.group})])
               [] c.sub = "CREATECONSUMER" ->
                    IF c.who \in g.members THEN Nothing(d)
                    ELSE Changed(d, c, x,
                                 WithGroup(s, c.group, [g EXCEPT !.members = @ \cup {c.who}]))
               [] c.sub = "DELCONSUMER" ->
                    IF c.who \notin g.members
                    THEN Nothing(Save(d, c, x, WithGroup(s, c.group,
                                     [g EXCEPT !.pending = Restrict(@, others)])))
                    ELSE Changed(d, c, x, WithGroup(s, c.group,
                                     [g EXCEPT !.pending = Restrict(@, others),
                                               !.members = @ \ {c.who}]))

Handed(who, when, n) == [who |-> who, when |-> when, n |-> n]

\* XREADGROUP: new entries (`>`), up to `count`, pending at the consumer from
\* now on unless NOACK; or again what it was handed before, which changes
\* nothing.  A consumer is known from its first read.
XReadGroup(d, c, x) ==
    IF ~HasGroup(d, c.key, c.group, x.now) THEN Nothing(d)
    ELSE LET s     == d.keys[c.key].v
             g     == s.groups[c.group]
             fresh == IF c.new THEN Oldest({i \in s.ids : i > g.at}, c.count) ELSE {}
             after == [at      |-> Max({g.at} \cup fresh),
                       pending |-> [i \in DOMAIN g.pending \cup (IF c.noack THEN {} ELSE fresh) |->
                                       IF i \in fresh /\ ~c.noack THEN Handed(c.who, x.now, 1)
                                       ELSE g.pending[i]],
                       members |-> g.members \cup {c.who}]
             waits == c.new /\ c.block /\ fresh = {}
         IN  IF fresh = {} /\ c.who \in g.members
             THEN IF waits THEN Waiting(d) ELSE Nothing(d)
             ELSE {[o EXCEPT !.waits = waits] :
                       o \in Silently(d, c, x, WithGroup(s, c.group, after))}

XAck(d, c, x) ==
    IF ~HasGroup(d, c.key, c.group, x.now) THEN Nothing(d)
    ELSE LET s == d.keys[c.key].v
             g == s.groups[c.group]
         IN  IF c.ids \cap DOMAIN g.pending = {} THEN Nothing(d)
             ELSE Silently(d, c, x, WithGroup(s, c.group,
                      [g EXCEPT !.pending = Restrict(@, DOMAIN @ \ c.ids)]))

\* What claiming `taken` for c.who, and forgetting `lost`, whose entries are
\* deleted, leaves of the group.
Claimed(d, c, x, taken, lost, counts) ==
    LET s == d.keys[c.key].v
        g == s.groups[c.group]
    IN  IF taken \cup lost = {} THEN Nothing(d)
        ELSE Silently(d, c, x, WithGroup(s, c.group,
                 [g EXCEPT !.pending = [i \in (DOMAIN @ \cup taken) \ lost |->
                               IF i \in taken THEN Handed(c.who, x.now, counts[i]) ELSE @[i]],
                           !.members = IF taken = {} /\ c.op = "XCLAIM" THEN @
                                       ELSE @ \cup {c.who}]))

\* Idle for as long as was asked; saturating, so never when the clock went back.
Idle(p, c, now) == Max({now - p.when, 0}) >= c.idle

\* XCLAIM [RETRYCOUNT] [FORCE] [JUSTID].  FORCE makes an entry pending that
\* nobody was handed; one with a count of 0 is claimed however fresh.
XClaim(d, c, x) ==
    IF ~HasGroup(d, c.key, c.group, x.now) THEN Nothing(d)
    ELSE LET s     == d.keys[c.key].v
             p     == s.groups[c.group].pending
             lost  == (c.ids \cap DOMAIN p) \ s.ids
             taken == {i \in c.ids \cap s.ids :
                          IF i \in DOMAIN p THEN Idle(p[i], c, x.now) \/ p[i].n = 0 ELSE c.force}
             counts == [i \in taken |->
                         IF c.retry >= 0 THEN c.retry
                         ELSE (IF i \in DOMAIN p THEN p[i].n ELSE 0) + (IF c.justid THEN 0 ELSE 1)]
         IN  Claimed(d, c, x, taken, lost, counts)

\* XAUTOCLAIM start COUNT [JUSTID]
XAutoClaim(d, c, x) ==
    IF ~HasGroup(d, c.key, c.group, x.now) THEN Nothing(d)
    ELSE LET s     == d.keys[c.key].v
             p     == s.groups[c.group].pending
             seen  == Oldest({i \in DOMAIN p : i >= c.n}, c.count)
             taken == {i \in seen \cap s.ids : Idle(p[i], c, x.now)}
             counts == [i \in taken |-> p[i].n + (IF c.justid THEN 0 ELSE 1)]
         IN  Claimed(d, c, x, taken, seen \ s.ids, counts)

=============================================================================
