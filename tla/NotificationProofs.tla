------------------------ MODULE NotificationProofs ------------------------
(* Proof that lispd agrees with the kernel once every notification has been *)
(* served (AtRestFollowsKernel of Host), for every set of interfaces, every *)
(* number of changes and every delay of the notifications.                  *)
EXTENDS HostProofs

-----------------------------------------------------------------------------
(* The notifications that are still to be served.                          *)

Link(index, up) == Message("NEWLINK", index, "v4", NO_ADDR, up)
Addr(index, afi, a) == Message("NEWADDR", index, afi, a, TRUE)
Gateway(index, afi, g) == Message("NEWROUTE", index, afi, g, TRUE)

SameKind(m, n) == m.type = n.type /\ m.index = n.index /\ m.afi = n.afi

\* q has no notification like m; m is the last of its kind in q.
NoneLike(q, m) == \A n \in 1 .. Len(q) : ~SameKind(q[n], m)
LastIs(q, m) ==
    \E n \in 1 .. Len(q) : q[n] = m /\ \A l \in 1 .. Len(q) : l > n => ~SameKind(q[l], m)

\* What the kernel last notified is in the queue or known to lispd.
LinkTold(q, index, up, known) ==
    LastIs(q, Link(index, up)) \/ (NoneLike(q, Link(index, up)) /\ known = up)

AddrTold(q, index, afi, a, known, bound) ==
    a # NO_ADDR => \/ LastIs(q, Addr(index, afi, a))
                   \/ NoneLike(q, Addr(index, afi, a)) /\ known = a /\ bound = a

GatewayTold(q, index, afi, g, known) ==
    g # NO_ADDR => \/ LastIs(q, Gateway(index, afi, g))
                   \/ NoneLike(q, Gateway(index, afi, g)) /\ known = g

\* A link notification of index x comes before all of y; all but the links of
\* y come after the one that y is up.
Ordered(q, x, y) ==
    \A m, n \in 1 .. Len(q) : SameKind(q[m], Link(x, FALSE)) /\ q[n].index = y => m < n

Announced(q, y) ==
    \A n \in 1 .. Len(q) : q[n].index = y /\ q[n].type # "NEWLINK" =>
       \E m \in 1 .. Len(q) : m < n /\ q[m] = Link(y, TRUE)

\* Interface i has the index that lispd knows.
Told(i) ==
    LET y == kern.index[i]
    IN  /\ LinkTold(queue, y, kern.up[i], status[i])
        /\ \A p \in Configured : p[1] = i =>
              AddrTold(queue, y, p[2], kern.addr[p], address[p], out_socket[p])
        /\ \A afi \in Afis :
              GatewayTold(queue, y, afi, kern.gw[<<i, afi>>], gateway[<<i, afi>>])

\* It has been removed since, and may have come back with another index: it
\* goes down before it comes back, and all that it has now is in the queue
\* behind the notification that it is up.
ToldAgain(i) ==
    LET x == iface_index[i]
        y == kern.index[i]
    IN  /\ LinkTold(queue, x, FALSE, status[i])
        /\ LinkTold(queue, y, kern.up[i], FALSE)
        /\ \A p \in Configured : p[1] = i /\ kern.addr[p] # NO_ADDR =>
              LastIs(queue, Addr(y, p[2], kern.addr[p]))
        /\ \A afi \in Afis : kern.gw[<<i, afi>>] # NO_ADDR =>
              LastIs(queue, Gateway(y, afi, kern.gw[<<i, afi>>]))
        /\ Ordered(queue, x, y)
        /\ Announced(queue, y)

Follow(i) == IF iface_index[i] = kern.index[i] THEN Told(i) ELSE ToldAgain(i)

\* Before the netlink socket is open.
Read(i) ==
    /\ iface_index[i] = kern.index[i] /\ status[i] = kern.up[i]
    /\ \A p \in Configured : p[1] = i => address[p] = kern.addr[p] /\ out_socket[p] = kern.addr[p]

Follows ==
    /\ stage \in {"configured", "ready"} => \A i \in Ifaces \ unseen : Read(i)
    /\ stage = "running" => \A i \in Ifaces \ unseen : Follow(i)

-----------------------------------------------------------------------------
(* A notification joins the queue, the first one is served.                *)

\* r is q with a at its end; r is q without its first element a.
Appended(q, a, r) ==
    /\ Len(q) \in Nat /\ Len(r) = Len(q) + 1
    /\ \A k \in 1 .. Len(q) : r[k] = q[k]
    /\ r[Len(q) + 1] = a

Removes(q, a, r) ==
    /\ Len(r) \in Nat /\ Len(q) = Len(r) + 1
    /\ \A k \in 1 .. Len(r) : r[k] = q[k + 1]
    /\ q[1] = a

LEMMA AppendedIs ==
    ASSUME NEW q \in Seq(MessageSet), NEW a \in MessageSet, NEW ms, ms = <<a>>
    PROVE  Appended(q, a, q \o ms)
  BY DEF Appended

LEMMA RemovesIs ==
    ASSUME NEW q \in Seq(MessageSet), q # << >>
    PROVE  Removes(q, Head(q), Tail(q))
  BY DEF Removes

LEMMA AppendedPositions ==
    ASSUME NEW q, NEW a, NEW r, Appended(q, a, r)
    PROVE  \A k \in 1 .. Len(r) : k \in 1 .. Len(q) \/ k = Len(q) + 1
  BY DEF Appended

\* What r keeps of the notifications of the kind of n in q.
Carries(q, r, n) ==
    /\ LastIs(q, n) => LastIs(r, n)
    /\ NoneLike(q, n) => NoneLike(r, n)

LEMMA AppendOther ==
    ASSUME NEW q, NEW a, NEW r, Appended(q, a, r), NEW n, ~SameKind(a, n)
    PROVE  Carries(q, r, n)
  <1>1. \A k \in 1 .. Len(r) : k \in 1 .. Len(q) \/ k = Len(q) + 1
    BY AppendedPositions, Zenon
  <1>2. 1 .. Len(q) \subseteq 1 .. Len(r)
    BY DEF Appended
  <1>3. ASSUME NoneLike(q, n) PROVE NoneLike(r, n)
    BY <1>1, <1>3 DEF Appended, NoneLike
  <1>4. ASSUME LastIs(q, n) PROVE LastIs(r, n)
    <2>1. PICK k \in 1 .. Len(q) : q[k] = n /\ \A l \in 1 .. Len(q) : l > k => ~SameKind(q[l], n)
      BY <1>4 DEF LastIs
    <2>2. k \in 1 .. Len(r) /\ r[k] = n
      BY <1>2, <2>1 DEF Appended
    <2>3. ASSUME NEW l \in 1 .. Len(r), l > k PROVE ~SameKind(r[l], n)
      BY <1>1, <2>1, <2>3 DEF Appended
    <2> QED
      BY <2>2, <2>3 DEF LastIs
  <1> QED
    BY <1>3, <1>4 DEF Carries

LEMMA AppendOwn ==
    ASSUME NEW q, NEW a, NEW r, Appended(q, a, r)
    PROVE  LastIs(r, a)
  BY DEF Appended, LastIs

LEMMA RemoveOther ==
    ASSUME NEW q, NEW a, NEW r, Removes(q, a, r), NEW n, ~SameKind(a, n)
    PROVE  Carries(q, r, n)
  <1>1. Len(r) \in Nat /\ \A k \in 1 .. Len(r) : k + 1 \in 1 .. Len(q) /\ r[k] = q[k + 1]
    BY DEF Removes
  <1>2. ASSUME NoneLike(q, n) PROVE NoneLike(r, n)
    BY <1>1, <1>2 DEF NoneLike
  <1>3. ASSUME LastIs(q, n) PROVE LastIs(r, n)
    <2>1. PICK k \in 1 .. Len(q) : q[k] = n /\ \A l \in 1 .. Len(q) : l > k => ~SameKind(q[l], n)
      BY <1>3 DEF LastIs
    <2>2. k # 1
      <3>1. SameKind(n, n)
        BY DEF SameKind
      <3> QED
        BY <2>1, <3>1 DEF Removes
    <2>3. PICK j : j = k - 1
      BY Zenon
    <2>4. j \in 1 .. Len(r) /\ j + 1 = k
      BY <2>1, <2>2, <2>3 DEF Removes
    <2>5. r[j] = n
      BY <1>1, <2>1, <2>4
    <2>6. ASSUME NEW l \in 1 .. Len(r), l > j PROVE ~SameKind(r[l], n)
      <3>1. l + 1 \in 1 .. Len(q) /\ l + 1 > k
        BY <1>1, <2>4, <2>6
      <3> QED
        BY <1>1, <2>1, <3>1
    <2> QED
      BY <2>4, <2>5, <2>6 DEF LastIs
  <1> QED
    BY <1>2, <1>3 DEF Carries

\* The last notification of a kind is still to be served, or it is served now.
LEMMA RemoveOwn ==
    ASSUME NEW q, NEW a, NEW r, Removes(q, a, r), NEW n, LastIs(q, n)
    PROVE  LastIs(r, n) \/ (a = n /\ NoneLike(r, n))
  <1>1. Len(r) \in Nat /\ \A k \in 1 .. Len(r) : k + 1 \in 1 .. Len(q) /\ r[k] = q[k + 1]
    BY DEF Removes
  <1>2. PICK k \in 1 .. Len(q) : q[k] = n /\ \A l \in 1 .. Len(q) : l > k => ~SameKind(q[l], n)
    BY DEF LastIs
  <1>3. CASE k = 1
    <2>1. a = n
      BY <1>2, <1>3 DEF Removes
    <2>2. ASSUME NEW l \in 1 .. Len(r) PROVE ~SameKind(r[l], n)
      BY <1>1, <1>2, <1>3
    <2> QED
      BY <2>1, <2>2 DEF NoneLike
  <1>4. CASE k # 1
    <2>1. PICK j : j = k - 1
      BY Zenon
    <2>2. j \in 1 .. Len(r) /\ j + 1 = k
      BY <1>2, <1>4, <2>1 DEF Removes
    <2>3. r[j] = n
      BY <1>1, <1>2, <2>2
    <2>4. ASSUME NEW l \in 1 .. Len(r), l > j PROVE ~SameKind(r[l], n)
      <3>1. l + 1 \in 1 .. Len(q) /\ l + 1 > k
        BY <1>1, <2>2, <2>4
      <3> QED
        BY <1>1, <1>2, <3>1
    <2> QED
      BY <2>2, <2>3, <2>4 DEF LastIs
  <1> QED
    BY <1>3, <1>4

LEMMA NoneLikeHead ==
    ASSUME NEW q, NEW a, NEW r, Removes(q, a, r), NEW n, NoneLike(q, n)
    PROVE  ~SameKind(a, n)
  BY DEF Removes, NoneLike

\* The order of the queue.
LEMMA AppendOrdered ==
    ASSUME NEW q, NEW a, NEW r, Appended(q, a, r), NEW x, NEW y,
           ~SameKind(a, Link(x, FALSE)), Ordered(q, x, y)
    PROVE  Ordered(r, x, y)
  <1>0. \A k \in 1 .. Len(r) : k \in 1 .. Len(q) \/ k = Len(q) + 1
    BY AppendedPositions, Zenon
  <1> SUFFICES ASSUME NEW m \in 1 .. Len(r), NEW n \in 1 .. Len(r),
                      SameKind(r[m], Link(x, FALSE)), r[n].index = y
               PROVE  m < n
    BY Zenon DEF Ordered
  <1>1. m \in 1 .. Len(q) /\ r[m] = q[m]
    BY <1>0, Zenon DEF Appended
  <1>2. CASE n \in 1 .. Len(q)
    BY <1>1, <1>2, Zenon DEF Appended, Ordered
  <1>3. CASE n = Len(q) + 1
    BY <1>1, <1>3 DEF Appended
  <1> QED
    BY <1>0, <1>2, <1>3, Zenon

LEMMA RemoveOrdered ==
    ASSUME NEW q, NEW a, NEW r, Removes(q, a, r), NEW x, NEW y, Ordered(q, x, y)
    PROVE  Ordered(r, x, y)
  <1>1. Len(r) \in Nat /\ \A k \in 1 .. Len(r) : k + 1 \in 1 .. Len(q) /\ r[k] = q[k + 1]
    BY DEF Removes
  <1> SUFFICES ASSUME NEW m \in 1 .. Len(r), NEW n \in 1 .. Len(r),
                      SameKind(r[m], Link(x, FALSE)), r[n].index = y
               PROVE  m < n
    BY Zenon DEF Ordered
  <1>2. SameKind(q[m + 1], Link(x, FALSE)) /\ q[n + 1].index = y
    BY <1>1, Zenon
  <1>3. m + 1 < n + 1
    BY <1>1, <1>2, Zenon DEF Ordered
  <1> QED
    BY <1>3

\* A link notification of x can not be behind a first one of y.
LEMMA OrderedHead ==
    ASSUME NEW q, NEW a, NEW r, Removes(q, a, r), NEW x, NEW y, Ordered(q, x, y), a.index = y,
           x # y, NEW up
    PROVE  NoneLike(q, Link(x, up)) /\ ~LastIs(q, Link(x, up))
  <1>1. 1 \in 1 .. Len(q) /\ q[1] = a
    BY DEF Removes
  <1>2. \A m : SameKind(m, Link(x, up)) <=> SameKind(m, Link(x, FALSE))
    BY DEF SameKind, Link, Message
  <1>3. ASSUME NEW m \in 1 .. Len(q), SameKind(q[m], Link(x, up)) PROVE FALSE
    <2>1. m < 1
      BY <1>1, <1>2, <1>3, Zenon DEF Ordered
    <2> QED
      BY <2>1
  <1>4. SameKind(Link(x, up), Link(x, up))
    BY DEF SameKind
  <1> QED
    BY <1>3, <1>4 DEF NoneLike, LastIs

LEMMA AppendAnnounced ==
    ASSUME NEW q, NEW a, NEW r, Appended(q, a, r), NEW y, Announced(q, y),
           \/ a.index # y
           \/ a.type = "NEWLINK"
           \/ LastIs(q, Link(y, TRUE))
    PROVE  Announced(r, y)
  <1>1. Len(q) \in Nat /\ \A k \in 1 .. Len(q) : k \in 1 .. Len(r) /\ r[k] = q[k] /\ k < Len(q) + 1
    BY DEF Appended
  <1>0. \A k \in 1 .. Len(r) : k \in 1 .. Len(q) \/ k = Len(q) + 1
    BY AppendedPositions, Zenon
  <1> SUFFICES ASSUME NEW n \in 1 .. Len(r), r[n].index = y, r[n].type # "NEWLINK"
               PROVE  \E m \in 1 .. Len(r) : m < n /\ r[m] = Link(y, TRUE)
    BY Zenon DEF Announced
  <1>2. CASE n \in 1 .. Len(q)
    <2>1. PICK m \in 1 .. Len(q) : m < n /\ q[m] = Link(y, TRUE)
      BY <1>1, <1>2, Zenon DEF Announced
    <2> QED
      BY <1>1, <2>1, Zenon
  <1>3. CASE n = Len(q) + 1
    <2>1. r[n] = a
      BY <1>3 DEF Appended
    <2>2. PICK m \in 1 .. Len(q) : q[m] = Link(y, TRUE)
      BY <2>1, Zenon DEF LastIs
    <2> QED
      BY <1>1, <1>3, <2>2, Zenon
  <1> QED
    BY <1>0, <1>2, <1>3, Zenon

LEMMA RemoveAnnounced ==
    ASSUME NEW q, NEW a, NEW r, Removes(q, a, r), NEW y, Announced(q, y), a # Link(y, TRUE)
    PROVE  Announced(r, y)
  <1>1. Len(r) \in Nat /\ \A k \in 1 .. Len(r) : k + 1 \in 1 .. Len(q) /\ r[k] = q[k + 1]
    BY DEF Removes
  <1> SUFFICES ASSUME NEW n \in 1 .. Len(r), r[n].index = y, r[n].type # "NEWLINK"
               PROVE  \E m \in 1 .. Len(r) : m < n /\ r[m] = Link(y, TRUE)
    BY Zenon DEF Announced
  <1>2. PICK m \in 1 .. Len(q) : m < n + 1 /\ q[m] = Link(y, TRUE)
    BY <1>1, Zenon DEF Announced
  <1>3. m # 1
    BY <1>2, Zenon DEF Removes
  <1>4. PICK j : j = m - 1
    BY Zenon
  <1>5. j \in 1 .. Len(r) /\ j + 1 = m /\ j < n
    BY <1>2, <1>3, <1>4 DEF Removes
  <1> QED
    BY <1>1, <1>2, <1>5, Zenon

\* The first notification of y is one of its link.
LEMMA AnnouncedHead ==
    ASSUME NEW q, NEW a, NEW r, Removes(q, a, r), NEW y, Announced(q, y), a.index = y
    PROVE  a.type = "NEWLINK"
  <1>1. 1 \in 1 .. Len(q) /\ q[1] = a
    BY DEF Removes
  <1>2. ~\E m \in 1 .. Len(q) : m < 1
    OBVIOUS
  <1> QED
    BY <1>1, <1>2, Zenon DEF Announced

-----------------------------------------------------------------------------
(* A step that does not concern an interface leaves what it was told.      *)

LEMMA LinkKind ==
    \A m, x, up : SameKind(m, Link(x, up)) <=> m.type = "NEWLINK" /\ m.index = x /\ m.afi = "v4"
  BY DEF SameKind, Link, Message

LEMMA AddrKind ==
    \A m, x, afi, a : SameKind(m, Addr(x, afi, a)) <=> m.type = "NEWADDR" /\ m.index = x /\ m.afi = afi
  BY DEF SameKind, Addr, Message

LEMMA GatewayKind ==
    \A m, x, afi, g : SameKind(m, Gateway(x, afi, g)) <=> m.type = "NEWROUTE" /\ m.index = x /\ m.afi = afi
  BY DEF SameKind, Gateway, Message

LEMMA MessageFields ==
    /\ \A x, up : /\ Link(x, up).type = "NEWLINK" /\ Link(x, up).index = x
                  /\ Link(x, up).afi = "v4" /\ Link(x, up).up = up
    /\ \A x, afi, a : /\ Addr(x, afi, a).type = "NEWADDR" /\ Addr(x, afi, a).index = x
                      /\ Addr(x, afi, a).afi = afi /\ Addr(x, afi, a).addr = a
    /\ \A x, afi, g : /\ Gateway(x, afi, g).type = "NEWROUTE" /\ Gateway(x, afi, g).index = x
                      /\ Gateway(x, afi, g).afi = afi /\ Gateway(x, afi, g).addr = g
  BY DEF Link, Addr, Gateway, Message

LEMMA Carried ==
    ASSUME NEW q, NEW r, NEW x
    PROVE  /\ \A up, st : Carries(q, r, Link(x, up)) /\ LinkTold(q, x, up, st) => LinkTold(r, x, up, st)
           /\ \A afi, a, st, sock : Carries(q, r, Addr(x, afi, a)) /\ AddrTold(q, x, afi, a, st, sock) =>
                                       AddrTold(r, x, afi, a, st, sock)
           /\ \A afi, g, st : Carries(q, r, Gateway(x, afi, g)) /\ GatewayTold(q, x, afi, g, st) =>
                                 GatewayTold(r, x, afi, g, st)
  BY Zenon DEF Carries, LinkTold, AddrTold, GatewayTold

\* The queue keeps what it holds about the indexes x and y.
Quiet(x, y) ==
    /\ \A n : n.index = x \/ n.index = y => Carries(queue, queue', n)
    /\ Ordered(queue, x, y) => Ordered(queue', x, y)
    /\ Announced(queue, y) => Announced(queue', y)

LEMMA QuietSteps ==
    ASSUME NEW x, NEW y
    PROVE  /\ queue' = queue => Quiet(x, y)
           /\ \A a : Appended(queue, a, queue') /\ a.index # x /\ a.index # y => Quiet(x, y)
           /\ \A a : Removes(queue, a, queue') /\ a.index # x /\ a.index # y => Quiet(x, y)
  <1>1. ASSUME queue' = queue PROVE Quiet(x, y)
    BY <1>1, Zenon DEF Quiet, Carries
  <1>2. ASSUME NEW a, Appended(queue, a, queue'), a.index # x, a.index # y PROVE Quiet(x, y)
    <2>1. ASSUME NEW n, n.index = x \/ n.index = y PROVE Carries(queue, queue', n)
      <3>1. ~SameKind(a, n)
        BY <1>2, <2>1, Zenon DEF SameKind
      <3> QED
        BY <1>2, <3>1, AppendOther
    <2>2. ~SameKind(a, Link(x, FALSE))
      BY <1>2, LinkKind, Zenon
    <2>3. Ordered(queue, x, y) => Ordered(queue', x, y)
      BY <1>2, <2>2, AppendOrdered, Zenon
    <2>4. Announced(queue, y) => Announced(queue', y)
      BY <1>2, AppendAnnounced, Zenon
    <2> QED
      BY <2>1, <2>3, <2>4, Zenon DEF Quiet
  <1>3. ASSUME NEW a, Removes(queue, a, queue'), a.index # x, a.index # y PROVE Quiet(x, y)
    <2>1. ASSUME NEW n, n.index = x \/ n.index = y PROVE Carries(queue, queue', n)
      <3>1. ~SameKind(a, n)
        BY <1>3, <2>1, Zenon DEF SameKind
      <3> QED
        BY <1>3, <3>1, RemoveOther
    <2>2. a # Link(y, TRUE)
      <3>1. Link(y, TRUE).index = y
        BY MessageFields, Zenon
      <3> QED
        BY <1>3, <3>1, Zenon
    <2>3. Ordered(queue, x, y) => Ordered(queue', x, y)
      BY <1>3, RemoveOrdered, Zenon
    <2>4. Announced(queue, y) => Announced(queue', y)
      BY <1>3, <2>2, RemoveAnnounced, Zenon
    <2> QED
      BY <2>1, <2>3, <2>4, Zenon DEF Quiet
  <1> QED
    BY <1>1, <1>2, <1>3, Zenon

\* The kernel and lispd keep what they have of interface i.
SameKernel(i) ==
    /\ kern'.index[i] = kern.index[i] /\ kern'.up[i] = kern.up[i]
    /\ \A p \in Pairs : p[1] = i => kern'.addr[p] = kern.addr[p] /\ kern'.gw[p] = kern.gw[p]

SameDaemon(i) ==
    /\ iface_index'[i] = iface_index[i] /\ status'[i] = status[i]
    /\ \A p \in Configured : p[1] = i => address'[p] = address[p] /\ out_socket'[p] = out_socket[p]
    /\ \A afi \in Afis : gateway'[<<i, afi>>] = gateway[<<i, afi>>]

LEMMA PairOf ==
    /\ Configured \subseteq Pairs
    /\ \A i \in Ifaces : \A afi \in Afis : <<i, afi>> \in Pairs /\ <<i, afi>>[1] = i
  BY InterfacesAssumption DEF Pairs

LEMMA QuietFollows ==
    ASSUME NEW i \in Ifaces, Follow(i), SameKernel(i), SameDaemon(i),
           Quiet(iface_index[i], kern.index[i])
    PROVE  Follow(i)'
  <1>1. PICK x, y : x = iface_index[i] /\ y = kern.index[i]
    BY Zenon
  <1>2. kern'.index[i] = y /\ iface_index'[i] = x /\ kern'.up[i] = kern.up[i] /\ status'[i] = status[i]
    BY <1>1 DEF SameKernel, SameDaemon
  <1>3. \A p \in Configured : p[1] = i => /\ kern'.addr[p] = kern.addr[p] /\ address'[p] = address[p]
                                          /\ out_socket'[p] = out_socket[p]
    BY PairOf, Zenon DEF SameKernel, SameDaemon
  <1>4. \A afi \in Afis : /\ kern'.gw[<<i, afi>>] = kern.gw[<<i, afi>>]
                          /\ gateway'[<<i, afi>>] = gateway[<<i, afi>>]
    BY PairOf, Zenon DEF SameKernel, SameDaemon
  <1>5. \A up, afi, a : /\ Carries(queue, queue', Link(x, up)) /\ Carries(queue, queue', Link(y, up))
                        /\ Carries(queue, queue', Addr(y, afi, a)) /\ Carries(queue, queue', Gateway(y, afi, a))
    <2>1. \A n : n.index = x \/ n.index = y => Carries(queue, queue', n)
      BY <1>1, Zenon DEF Quiet
    <2>2. TAKE up, afi, a
    <2>3. /\ Link(x, up).index = x /\ Link(y, up).index = y
          /\ Addr(y, afi, a).index = y /\ Gateway(y, afi, a).index = y
      BY DEF Link, Addr, Gateway, Message
    <2> QED
      BY <2>1, <2>3, Zenon
  <1>6. CASE x = y
    <2>1. Told(i)
      BY <1>1, <1>6, Zenon DEF Follow
    <2>2. LinkTold(queue', y, kern'.up[i], status'[i])
      BY <1>1, <1>2, <1>5, <2>1, Carried, Zenon DEF Told
    <2>3. ASSUME NEW p \in Configured, p[1] = i
          PROVE  AddrTold(queue', y, p[2], kern'.addr[p], address'[p], out_socket'[p])
      <3>1. AddrTold(queue, y, p[2], kern.addr[p], address[p], out_socket[p])
        BY <1>1, <2>1, <2>3, Zenon DEF Told
      <3>2. AddrTold(queue', y, p[2], kern.addr[p], address[p], out_socket[p])
        BY <1>5, <3>1, Carried, Zenon
      <3> QED
        BY <1>3, <2>3, <3>2, Zenon
    <2>4. ASSUME NEW afi \in Afis
          PROVE  GatewayTold(queue', y, afi, kern'.gw[<<i, afi>>], gateway'[<<i, afi>>])
      <3>1. GatewayTold(queue, y, afi, kern.gw[<<i, afi>>], gateway[<<i, afi>>])
        BY <1>1, <2>1, Zenon DEF Told
      <3>2. GatewayTold(queue', y, afi, kern.gw[<<i, afi>>], gateway[<<i, afi>>])
        BY <1>5, <3>1, Carried, Zenon
      <3> QED
        BY <1>4, <3>2, Zenon
    <2>5. Told(i)'
      BY <1>2, <2>2, <2>3, <2>4, Zenon DEF Told
    <2> QED
      BY <1>2, <1>6, <2>5, Zenon DEF Follow
  <1>7. CASE x # y
    <2>1. ToldAgain(i)
      BY <1>1, <1>7, Zenon DEF Follow
    <2>2. LinkTold(queue', x, FALSE, status'[i])
      <3>1. LinkTold(queue, x, FALSE, status[i])
        BY <1>1, <2>1, Zenon DEF ToldAgain
      <3>2. LinkTold(queue', x, FALSE, status[i])
        BY <1>5, <3>1, Carried, Zenon
      <3> QED
        BY <1>2, <3>2, Zenon
    <2>7. LinkTold(queue', y, kern'.up[i], FALSE)
      <3>1. LinkTold(queue, y, kern.up[i], FALSE)
        BY <1>1, <2>1, Zenon DEF ToldAgain
      <3>2. LinkTold(queue', y, kern.up[i], FALSE)
        BY <1>5, <3>1, Carried, Zenon
      <3> QED
        BY <1>2, <3>2, Zenon
    <2>3. ASSUME NEW p \in Configured, p[1] = i, kern'.addr[p] # NO_ADDR
          PROVE  LastIs(queue', Addr(y, p[2], kern'.addr[p]))
      <3>1. LastIs(queue, Addr(y, p[2], kern.addr[p]))
        BY <1>1, <1>3, <2>1, <2>3, Zenon DEF ToldAgain
      <3> QED
        BY <1>3, <1>5, <2>3, <3>1, Zenon DEF Carries
    <2>4. ASSUME NEW afi \in Afis, kern'.gw[<<i, afi>>] # NO_ADDR
          PROVE  LastIs(queue', Gateway(y, afi, kern'.gw[<<i, afi>>]))
      <3>1. LastIs(queue, Gateway(y, afi, kern.gw[<<i, afi>>]))
        BY <1>1, <1>4, <2>1, <2>4, Zenon DEF ToldAgain
      <3> QED
        BY <1>4, <1>5, <3>1, Zenon DEF Carries
    <2>5. Ordered(queue', x, y) /\ Announced(queue', y)
      BY <1>1, <2>1, Zenon DEF ToldAgain, Quiet
    <2>6. ToldAgain(i)'
      BY <1>2, <2>2, <2>3, <2>4, <2>5, <2>7, Zenon DEF ToldAgain
    <2> QED
      BY <1>2, <1>7, <2>6, Zenon DEF Follow
  <1> QED
    BY <1>6, <1>7, Zenon

-----------------------------------------------------------------------------
(* A change of the kernel.                                                 *)

\* What a change of interface i may notify.
About(i, ms) ==
    \/ ms = << >>
    \/ \E a \in MessageSet : /\ ms = <<a>> /\ a.index # 0
                             /\ a.index = kern.index[i] \/ a.index = kern.next

LEMMA NotifySame ==
    ASSUME NEW i, NEW ms, Notify(i, ms)
    PROVE  /\ \A j : SameDaemon(j)
           /\ stage' = stage
           /\ status' = status /\ address' = address /\ iface_index' = iface_index
           /\ gateway' = gateway /\ out_socket' = out_socket
           /\ stage = "running" => unseen' = unseen /\ queue' = queue \o ms
           /\ stage \in {"configured", "ready"} => unseen' = unseen \cup {i}
  BY DEF Notify, SameDaemon, ifaceVars

LEMMA OthersFollow ==
    ASSUME TypeInv, Follows, NEW i \in Ifaces, NEW ms, Notify(i, ms), About(i, ms),
           \A j \in Ifaces \ {i} : SameKernel(j),
           stage = "running" /\ i \notin unseen => Follow(i)'
    PROVE  Follows'
  <1>1. /\ stage' = stage
        /\ status' = status /\ address' = address /\ iface_index' = iface_index
        /\ gateway' = gateway /\ out_socket' = out_socket
        /\ stage = "running" => unseen' = unseen /\ queue' = queue \o ms
        /\ stage \in {"configured", "ready"} => unseen' = unseen \cup {i}
    BY NotifySame
  <1>2. ASSUME NEW j \in Ifaces, j # i, j \notin unseen, stage = "running"
        PROVE  Follow(j)'
    <2>1. Follow(j) /\ SameKernel(j) /\ SameDaemon(j)
      BY <1>2, NotifySame, Zenon DEF Follows
    <2>2. PICK x, y : x = iface_index[j] /\ y = kern.index[j]
      BY Zenon
    <2>3. queue' = queue \o ms /\ queue \in Seq(MessageSet)
      BY <1>1, <1>2 DEF TypeInv, DaemonTypes
    <2>4. ASSUME ms = << >> PROVE Quiet(x, y)
      <3>1. queue' = queue
        BY <2>3, <2>4
      <3> QED
        BY <3>1, QuietSteps
    <2>5. ASSUME NEW a \in MessageSet, ms = <<a>>, a.index # 0,
                 a.index = kern.index[i] \/ a.index = kern.next
          PROVE  Quiet(x, y)
      <3>1. Appended(queue, a, queue')
        BY <2>3, <2>5, AppendedIs
      <3>2. a.index # x
        <4>1. x \in Nat /\ kern.next \in Nat /\ x < kern.next /\ x # kern.index[i]
          BY <1>2, <2>2 DEF TypeInv, DaemonTypes, Kern, DaemonIndexes, Started
        <4> QED
          BY <2>5, <4>1
      <3>3. a.index # y
        <4>1. y \in Nat /\ kern.next \in Nat /\ y < kern.next /\ (y = kern.index[i] => y = 0)
          BY <1>2, <2>2 DEF TypeInv, DaemonTypes, Kern, KernelIndexes
        <4> QED
          BY <2>5, <4>1
      <3> QED
        BY <3>1, <3>2, <3>3, QuietSteps, Zenon
    <2>6. Quiet(x, y)
      BY <2>4, <2>5, Zenon DEF About
    <2> QED
      BY <2>1, <2>2, <2>6, QuietFollows, Zenon
  <1>3. ASSUME NEW j \in Ifaces, j # i, j \notin unseen, stage \in {"configured", "ready"}
        PROVE  Read(j)'
    <2>1. Read(j) /\ SameKernel(j)
      BY <1>3 DEF Follows
    <2>2. \A p \in Configured : p \in Pairs
      BY PairOf
    <2> QED
      BY <1>1, <2>1, <2>2, Zenon DEF Read, SameKernel
  <1>4. stage' \in {"configured", "ready"} => \A j \in Ifaces \ unseen' : Read(j)'
    BY <1>1, <1>3
  <1>5. stage' = "running" => \A j \in Ifaces \ unseen' : Follow(j)'
    BY <1>1, <1>2
  <1> QED
    BY <1>4, <1>5, Zenon DEF Follows

\* A change of interface i that keeps its index, and its notification a.
Changes(i, a) ==
    /\ a.index = kern.index[i] /\ kern'.index[i] = kern.index[i]
    /\ \/ kern'.up[i] = kern.up[i] /\ a.type # "NEWLINK"
       \/ a = Link(kern.index[i], kern'.up[i])
    /\ \A p \in Configured : p[1] = i =>
          \/ kern'.addr[p] = NO_ADDR
          \/ kern'.addr[p] = kern.addr[p] /\ (a.type # "NEWADDR" \/ a.afi # p[2])
          \/ a = Addr(kern.index[i], p[2], kern'.addr[p])
    /\ \A afi \in Afis :
          \/ kern'.gw[<<i, afi>>] = NO_ADDR
          \/ kern'.gw[<<i, afi>>] = kern.gw[<<i, afi>>] /\ (a.type # "NEWROUTE" \/ a.afi # afi)
          \/ a = Gateway(kern.index[i], afi, kern'.gw[<<i, afi>>])
    /\ a.type = "NEWLINK" \/ kern.up[i] = TRUE

Notified(i, a) == SameDaemon(i) /\ Appended(queue, a, queue') /\ Changes(i, a)

LEMMA OwnFollows ==
    ASSUME NEW i \in Ifaces, Follow(i), NEW a, Notified(i, a)
    PROVE  Follow(i)'
  <1>1. PICK x, y : x = iface_index[i] /\ y = kern.index[i]
    BY Zenon
  <1>2. kern'.index[i] = y /\ iface_index'[i] = x /\ status'[i] = status[i] /\ a.index = y
    BY <1>1, Zenon DEF Notified, Changes, SameDaemon
  <1>3. \A p \in Configured : p[1] = i => address'[p] = address[p] /\ out_socket'[p] = out_socket[p]
    BY Zenon DEF Notified, Changes, SameDaemon
  <1>4. \A afi \in Afis : gateway'[<<i, afi>>] = gateway[<<i, afi>>]
    BY Zenon DEF Notified, Changes, SameDaemon
  <1>5. Appended(queue, a, queue') /\ LastIs(queue', a)
    BY AppendOwn, Zenon DEF Notified, Changes
  <1>6. \A n : ~SameKind(a, n) => Carries(queue, queue', n)
    BY <1>5, AppendOther, Zenon
  <1>7. ASSUME NEW st, LinkTold(queue, y, kern.up[i], st)
        PROVE  LinkTold(queue', y, kern'.up[i], st)
    <2>1. CASE kern'.up[i] = kern.up[i] /\ a.type # "NEWLINK"
      <3>1. Carries(queue, queue', Link(y, kern.up[i]))
        BY <1>6, <2>1, LinkKind, Zenon
      <3>2. LinkTold(queue', y, kern.up[i], st)
        BY <1>7, <3>1, Carried, Zenon
      <3> QED
        BY <2>1, <3>2, Zenon
    <2>2. CASE a = Link(y, kern'.up[i])
      BY <1>5, <2>2, Zenon DEF LinkTold
    <2> QED
      BY <1>1, <2>1, <2>2, Zenon DEF Notified, Changes
  <1>8. ASSUME NEW p \in Configured, p[1] = i, kern'.addr[p] # NO_ADDR
        PROVE  \/ LastIs(queue', Addr(y, p[2], kern'.addr[p]))
               \/ /\ kern'.addr[p] = kern.addr[p]
                  /\ Carries(queue, queue', Addr(y, p[2], kern.addr[p]))
    <2>1. CASE kern'.addr[p] = kern.addr[p] /\ (a.type # "NEWADDR" \/ a.afi # p[2])
      <3>1. ~SameKind(a, Addr(y, p[2], kern.addr[p]))
        <4>1. SameKind(a, Addr(y, p[2], kern.addr[p])) => a.type = "NEWADDR" /\ a.afi = p[2]
          BY DEF SameKind, Addr, Message
        <4> QED
          BY <2>1, <4>1, Zenon
      <3> QED
        BY <1>6, <2>1, <3>1, Zenon
    <2>2. CASE a = Addr(y, p[2], kern'.addr[p])
      BY <1>5, <2>2, Zenon
    <2> QED
      BY <1>1, <1>8, <2>1, <2>2, Zenon DEF Notified, Changes
  <1>9. ASSUME NEW afi \in Afis, kern'.gw[<<i, afi>>] # NO_ADDR
        PROVE  \/ LastIs(queue', Gateway(y, afi, kern'.gw[<<i, afi>>]))
               \/ /\ kern'.gw[<<i, afi>>] = kern.gw[<<i, afi>>]
                  /\ Carries(queue, queue', Gateway(y, afi, kern.gw[<<i, afi>>]))
    <2>1. CASE kern'.gw[<<i, afi>>] = kern.gw[<<i, afi>>] /\ (a.type # "NEWROUTE" \/ a.afi # afi)
      <3>1. ~SameKind(a, Gateway(y, afi, kern.gw[<<i, afi>>]))
        BY <2>1, GatewayKind, Zenon
      <3> QED
        BY <1>6, <2>1, <3>1, Zenon
    <2>2. CASE a = Gateway(y, afi, kern'.gw[<<i, afi>>])
      BY <1>5, <2>2, Zenon
    <2> QED
      BY <1>1, <1>9, <2>1, <2>2, Zenon DEF Notified, Changes
  <1>10. CASE x = y
    <2>1. Told(i)
      BY <1>1, <1>10, Zenon DEF Follow
    <2>2. LinkTold(queue', y, kern'.up[i], status'[i])
      BY <1>1, <1>2, <1>7, <2>1, Zenon DEF Told
    <2>3. ASSUME NEW p \in Configured, p[1] = i
          PROVE  AddrTold(queue', y, p[2], kern'.addr[p], address'[p], out_socket'[p])
      <3>1. AddrTold(queue, y, p[2], kern.addr[p], address[p], out_socket[p])
        BY <1>1, <2>1, <2>3, Zenon DEF Told
      <3>2. CASE kern'.addr[p] = kern.addr[p] /\ Carries(queue, queue', Addr(y, p[2], kern.addr[p]))
        <4>1. AddrTold(queue', y, p[2], kern.addr[p], address[p], out_socket[p])
          BY <3>1, <3>2, Carried, Zenon
        <4> QED
          BY <1>3, <2>3, <3>2, <4>1, Zenon
      <3>3. CASE LastIs(queue', Addr(y, p[2], kern'.addr[p])) \/ kern'.addr[p] = NO_ADDR
        BY <3>3, Zenon DEF AddrTold
      <3> QED
        BY <1>8, <2>3, <3>2, <3>3, Zenon
    <2>4. ASSUME NEW afi \in Afis
          PROVE  GatewayTold(queue', y, afi, kern'.gw[<<i, afi>>], gateway'[<<i, afi>>])
      <3>1. GatewayTold(queue, y, afi, kern.gw[<<i, afi>>], gateway[<<i, afi>>])
        BY <1>1, <2>1, Zenon DEF Told
      <3>2. CASE /\ kern'.gw[<<i, afi>>] = kern.gw[<<i, afi>>]
                 /\ Carries(queue, queue', Gateway(y, afi, kern.gw[<<i, afi>>]))
        <4>1. GatewayTold(queue', y, afi, kern.gw[<<i, afi>>], gateway[<<i, afi>>])
          BY <3>1, <3>2, Carried, Zenon
        <4> QED
          BY <1>4, <3>2, <4>1, Zenon
      <3>3. CASE LastIs(queue', Gateway(y, afi, kern'.gw[<<i, afi>>])) \/ kern'.gw[<<i, afi>>] = NO_ADDR
        BY <3>3, Zenon DEF GatewayTold
      <3> QED
        BY <1>9, <3>2, <3>3, Zenon
    <2>5. Told(i)'
      BY <1>2, <2>2, <2>3, <2>4, Zenon DEF Told
    <2> QED
      BY <1>2, <1>10, <2>5, Zenon DEF Follow
  <1>11. CASE x # y
    <2>1. ToldAgain(i)
      BY <1>1, <1>11, Zenon DEF Follow
    <2>2. LinkTold(queue', x, FALSE, status'[i])
      <3>1. LinkTold(queue, x, FALSE, status[i])
        BY <1>1, <2>1, Zenon DEF ToldAgain
      <3>2. Carries(queue, queue', Link(x, FALSE))
        BY <1>2, <1>6, <1>11, LinkKind, Zenon
      <3>3. LinkTold(queue', x, FALSE, status[i])
        BY <3>1, <3>2, Carried, Zenon
      <3> QED
        BY <1>2, <3>3, Zenon
    <2>3. LinkTold(queue, y, kern.up[i], FALSE)
      BY <1>1, <2>1, Zenon DEF ToldAgain
    <2>4. LinkTold(queue', y, kern'.up[i], FALSE)
      BY <1>7, <2>3, Zenon
    <2>5. ASSUME NEW p \in Configured, p[1] = i, kern'.addr[p] # NO_ADDR
          PROVE  LastIs(queue', Addr(y, p[2], kern'.addr[p]))
      <3>1. kern.addr[p] # NO_ADDR => LastIs(queue, Addr(y, p[2], kern.addr[p]))
        BY <1>1, <2>1, <2>5, Zenon DEF ToldAgain
      <3> QED
        BY <1>8, <2>5, <3>1, Zenon DEF Carries
    <2>6. ASSUME NEW afi \in Afis, kern'.gw[<<i, afi>>] # NO_ADDR
          PROVE  LastIs(queue', Gateway(y, afi, kern'.gw[<<i, afi>>]))
      <3>1. kern.gw[<<i, afi>>] # NO_ADDR => LastIs(queue, Gateway(y, afi, kern.gw[<<i, afi>>]))
        BY <1>1, <2>1, Zenon DEF ToldAgain
      <3> QED
        BY <1>9, <2>6, <3>1, Zenon DEF Carries
    <2>7. Ordered(queue', x, y)
      <3>1. ~SameKind(a, Link(x, FALSE))
        BY <1>2, <1>11, LinkKind, Zenon
      <3>2. Ordered(queue, x, y)
        BY <1>1, <2>1, Zenon DEF ToldAgain
      <3> QED
        BY <1>5, <3>1, <3>2, AppendOrdered, Zenon
    <2>8. Announced(queue', y)
      <3>1. Announced(queue, y)
        BY <1>1, <2>1, Zenon DEF ToldAgain
      <3>2. kern.up[i] = TRUE => LastIs(queue, Link(y, TRUE))
        BY <2>3, Zenon DEF LinkTold
      <3>3. a.type = "NEWLINK" \/ LastIs(queue, Link(y, TRUE))
        BY <3>2, Zenon DEF Notified, Changes
      <3> QED
        BY <1>5, <3>1, <3>3, AppendAnnounced, Zenon
    <2>9. ToldAgain(i)'
      BY <1>2, <2>2, <2>4, <2>5, <2>6, <2>7, <2>8, Zenon DEF ToldAgain
    <2> QED
      BY <1>2, <1>11, <2>9, Zenon DEF Follow
  <1> QED
    BY <1>10, <1>11, Zenon

\* No notification has the index of an interface that is not there, or one
\* that was not yet given.
LEMMA NoSuchIndex ==
    ASSUME NEW q, NEW y, \A n \in 1 .. Len(q) : q[n].index # y, NEW x
    PROVE  /\ \A n : n.index = y => NoneLike(q, n) /\ ~LastIs(q, n)
           /\ Ordered(q, x, y) /\ Announced(q, y)
  BY Zenon DEF NoneLike, LastIs, Ordered, Announced, SameKind

LEMMA RemovedFollows ==
    ASSUME TypeInv, NEW i \in Ifaces, Follow(i), Removed(i), stage = "running"
    PROVE  Follow(i)'
  <1>1. PICK x, y : x = iface_index[i] /\ y = kern.index[i]
    BY Zenon
  <1>2. /\ Kern(kern) /\ queue \in Seq(MessageSet) /\ Messages
        /\ x \in Nat /\ x # 0 /\ y \in Nat /\ y # 0 /\ y < kern.next
    BY <1>1 DEF TypeInv, DaemonTypes, DaemonIndexes, KernelIndexes, Started, Removed, Kern
  <1>3. /\ kern'.index[i] = 0 /\ kern'.up[i] = FALSE /\ kern'.next = kern.next
        /\ \A p \in Pairs : p[1] = i => kern'.addr[p] = NO_ADDR /\ kern'.gw[p] = NO_ADDR
    BY <1>2 DEF Kern, Removed, Flushed
  <1>4. /\ iface_index'[i] = x /\ status'[i] = status[i]
        /\ kern.up[i] = TRUE => queue' = queue \o <<Link(y, FALSE)>>
        /\ kern.up[i] = FALSE => queue' = queue \o << >>
        /\ kern.up[i] \in BOOLEAN
    BY <1>1, <1>2, NotifySame, Zenon DEF Removed, Link, Kern
  <1>5. kern.up[i] = TRUE => Appended(queue, Link(y, FALSE), queue')
    <2>1. Link(y, FALSE) \in MessageSet
      BY <1>2 DEF Link, Message, MessageSet, Afis
    <2> QED
      BY <1>2, <1>4, <2>1, AppendedIs, Zenon
  <1>6. kern.up[i] = FALSE => queue' = queue
    BY <1>2, <1>4
  <1>7. LinkTold(queue', x, FALSE, status[i])
    <2>1. CASE x = y
      <3>1. LinkTold(queue, y, kern.up[i], status[i])
        BY <1>1, <2>1, Zenon DEF Follow, Told
      <3>2. CASE kern.up[i] = TRUE
        <4>1. LastIs(queue', Link(y, FALSE))
          BY <1>5, <3>2, AppendOwn, Zenon
        <4> QED
          BY <2>1, <4>1, Zenon DEF LinkTold
      <3>3. CASE kern.up[i] = FALSE
        BY <1>6, <2>1, <3>1, <3>3, Zenon
      <3> QED
        BY <1>4, <3>2, <3>3, Zenon
    <2>2. CASE x # y
      <3>1. LinkTold(queue, x, FALSE, status[i])
        BY <1>1, <2>2, Zenon DEF Follow, ToldAgain
      <3>2. CASE kern.up[i] = TRUE
        <4>1. ~SameKind(Link(y, FALSE), Link(x, FALSE))
          BY <2>2 DEF SameKind, Link, Message
        <4>2. Carries(queue, queue', Link(x, FALSE))
          BY <1>5, <3>2, <4>1, AppendOther, Zenon
        <4> QED
          BY <3>1, <4>2, Carried, Zenon
      <3>3. CASE kern.up[i] = FALSE
        BY <1>6, <3>1, <3>3, Zenon
      <3> QED
        BY <1>4, <3>2, <3>3, Zenon
    <2> QED
      BY <2>1, <2>2, Zenon
  <1>8. \A n \in 1 .. Len(queue') : queue'[n].index # 0
    <2>1. \A n \in 1 .. Len(queue) : queue[n].index # 0
      BY <1>2, Zenon DEF Messages, MessageOK
    <2>2. Link(y, FALSE).index # 0
      BY <1>2 DEF Link, Message
    <2>3. CASE kern.up[i] = TRUE
      <3>1. \A n \in 1 .. Len(queue') : n \in 1 .. Len(queue) \/ n = Len(queue) + 1
        BY <1>5, <2>3, AppendedPositions, Zenon
      <3> QED
        BY <1>5, <2>1, <2>2, <2>3, <3>1, Zenon DEF Appended
    <2> QED
      BY <1>4, <1>6, <2>1, <2>3, Zenon
  <1>9. /\ NoneLike(queue', Link(0, FALSE)) /\ Ordered(queue', x, 0) /\ Announced(queue', 0)
    <2>1. Link(0, FALSE).index = 0
      BY DEF Link, Message
    <2> QED
      BY <1>8, <2>1, NoSuchIndex, Zenon
  <1>10. LinkTold(queue', 0, FALSE, FALSE)
    BY <1>9, Zenon DEF LinkTold
  <1>11. /\ \A p \in Configured : p[1] = i => kern'.addr[p] = NO_ADDR
         /\ \A afi \in Afis : kern'.gw[<<i, afi>>] = NO_ADDR
    BY <1>3, PairOf, Zenon
  <1>12. ToldAgain(i)'
    BY <1>3, <1>4, <1>7, <1>9, <1>10, <1>11, Zenon DEF ToldAgain
  <1> QED
    BY <1>2, <1>3, <1>4, <1>12, Zenon DEF Follow

LEMMA CreatedFollows ==
    ASSUME TypeInv, NEW i \in Ifaces, Follow(i), CreatedAgain(i), stage = "running"
    PROVE  Follow(i)'
  <1>1. PICK x, y : x = iface_index[i] /\ y = kern.next
    BY Zenon
  <1>2. /\ Kern(kern) /\ queue \in Seq(MessageSet) /\ Messages
        /\ x \in Nat /\ x # 0 /\ y \in Nat /\ x < y /\ kern.index[i] = 0
    BY <1>1 DEF TypeInv, DaemonTypes, DaemonIndexes, KernelIndexes, Started, CreatedAgain, Kern
  <1>3. /\ kern'.index[i] = y /\ kern'.up[i] = kern.up[i]
        /\ kern'.addr = kern.addr /\ kern'.gw = kern.gw
    BY <1>1, <1>2 DEF Kern, CreatedAgain
  <1>4. /\ iface_index'[i] = x /\ status'[i] = status[i]
        /\ queue' = queue \o <<Link(y, FALSE)>>
    BY <1>1, <1>2, NotifySame, Zenon DEF CreatedAgain, Link
  <1>5. Appended(queue, Link(y, FALSE), queue') /\ LastIs(queue', Link(y, FALSE))
    <2>1. Link(y, FALSE) \in MessageSet
      BY <1>2 DEF Link, Message, MessageSet, Afis
    <2> QED
      BY <1>2, <1>4, <2>1, AppendedIs, AppendOwn, Zenon
  <1>6. ToldAgain(i)
    BY <1>1, <1>2, Zenon DEF Follow
  <1>7. kern.up[i] = FALSE
    BY <1>2 DEF TypeInv, KernelIndexes, Kern
  <1>8. /\ \A n \in 1 .. Len(queue) : queue[n].index # 0
        /\ \A n \in 1 .. Len(queue) : queue[n].index # y
    <2> SUFFICES ASSUME NEW n \in 1 .. Len(queue)
                 PROVE  queue[n].index # 0 /\ queue[n].index # y
      BY Zenon
    <2>1. MessageOK(queue[n], y)
      BY <1>1, <1>2, Zenon DEF Messages
    <2>2. queue[n].index \in Nat /\ queue[n].index # 0 /\ queue[n].index < y
      BY <2>1, Zenon DEF MessageOK
    <2> QED
      BY <1>2, <2>2
  <1>9. ASSUME NEW p \in Configured, p[1] = i PROVE kern.addr[p] = NO_ADDR
    <2>1. Addr(0, p[2], kern.addr[p]).index = 0
      BY DEF Addr, Message
    <2>2. ~LastIs(queue, Addr(0, p[2], kern.addr[p]))
      BY <1>8, <2>1, NoSuchIndex, Zenon
    <2> QED
      BY <1>2, <1>6, <1>9, <2>2, Zenon DEF ToldAgain
  <1>10. ASSUME NEW afi \in Afis PROVE kern.gw[<<i, afi>>] = NO_ADDR
    <2>1. Gateway(0, afi, kern.gw[<<i, afi>>]).index = 0
      BY DEF Gateway, Message
    <2>2. ~LastIs(queue, Gateway(0, afi, kern.gw[<<i, afi>>]))
      BY <1>8, <2>1, NoSuchIndex, Zenon
    <2> QED
      BY <1>2, <1>6, <2>2, Zenon DEF ToldAgain
  <1>11. x # y
    BY <1>2
  <1>12. ~SameKind(Link(y, FALSE), Link(x, FALSE)) /\ Link(y, FALSE).type = "NEWLINK"
    BY <1>11 DEF SameKind, Link, Message
  <1>13. LinkTold(queue', x, FALSE, status[i])
    <2>1. LinkTold(queue, x, FALSE, status[i])
      BY <1>1, <1>6, Zenon DEF ToldAgain
    <2>2. Carries(queue, queue', Link(x, FALSE))
      BY <1>5, <1>12, AppendOther, Zenon
    <2> QED
      BY <2>1, <2>2, Carried, Zenon
  <1>14. LinkTold(queue', y, FALSE, FALSE)
    BY <1>5, Zenon DEF LinkTold
  <1>15. Ordered(queue', x, y) /\ Announced(queue', y)
    <2>1. Ordered(queue, x, y) /\ Announced(queue, y)
      BY <1>8, NoSuchIndex, Zenon
    <2>2. Ordered(queue', x, y)
      BY <1>5, <1>12, <2>1, AppendOrdered, Zenon
    <2>3. Announced(queue', y)
      BY <1>5, <1>12, <2>1, AppendAnnounced, Zenon
    <2> QED
      BY <2>2, <2>3, Zenon
  <1>16. ToldAgain(i)'
    BY <1>3, <1>4, <1>7, <1>9, <1>10, <1>13, <1>14, <1>15, Zenon DEF ToldAgain
  <1> QED
    BY <1>3, <1>4, <1>11, <1>16, Zenon DEF Follow

LEMMA ChangedFollows ==
    ASSUME TypeInv, Follows, NEW i \in Ifaces, NEW a \in MessageSet, NEW ms, ms = <<a>>,
           Notify(i, ms), a.index # 0, Changes(i, a), \A j \in Ifaces \ {i} : SameKernel(j)
    PROVE  Follows'
  <1>1. About(i, ms)
    BY Zenon DEF About, Changes
  <1>2. ASSUME stage = "running", i \notin unseen PROVE Follow(i)'
    <2>1. queue' = queue \o ms /\ SameDaemon(i)
      BY <1>2, NotifySame
    <2>2. Appended(queue, a, queue')
      BY <2>1, AppendedIs DEF TypeInv, DaemonTypes
    <2>3. Notified(i, a) /\ Follow(i)
      BY <1>2, <2>1, <2>2, Zenon DEF Notified, Follows
    <2> QED
      BY <2>3, OwnFollows
  <1> QED
    BY <1>1, <1>2, OthersFollow

LEMMA AddressChanged ==
    ASSUME TypeInv, Follows, NEW i \in Ifaces, NEW afi \in Afis,
           NEW a \in KernelAddrs[<<i, afi>>], NewAddress(i, afi, a)
    PROVE  Follows'
  <1>1. Kern(kern) /\ KernelIndexes /\ Pairs = Ifaces \X Afis /\ Configured \subseteq Pairs
    BY PairOf DEF TypeInv, Pairs
  <1>2. <<i, afi>> \in Pairs /\ a \in Addrs
    <2>1. <<i, afi>> \in Pairs
      BY PairOf, Zenon
    <2>2. \A p \in Pairs : KernelAddrs[p] \subseteq AddrsOf[p[2]]
      BY HostAssumption, Zenon
    <2>3. <<i, afi>>[2] = afi
      OBVIOUS
    <2>4. a \in AddrsOf[afi]
      BY <2>1, <2>2, <2>3, Zenon
    <2> QED
      BY <2>1, <2>4, Zenon DEF Addrs, Afis
  <1>3. PICK y, m, ms : y = kern.index[i] /\ m = Addr(y, afi, a) /\ ms = <<m>>
    BY Zenon
  <1>4. /\ kern.up[i] = TRUE /\ kern' = [kern EXCEPT !.addr = [kern.addr EXCEPT ![<<i, afi>>] = a]]
        /\ Notify(i, ms)
    BY <1>1, <1>3 DEF NewAddress, Addr, Kern
  <1>5. /\ kern'.index = kern.index /\ kern'.up = kern.up /\ kern'.gw = kern.gw
        /\ kern'.addr = [kern.addr EXCEPT ![<<i, afi>>] = a]
    BY <1>1, <1>4 DEF Kern
  <1>6. y \in Nat /\ y # 0
    BY <1>1, <1>3, <1>4 DEF KernelIndexes, Kern
  <1>7. /\ m \in MessageSet /\ m.index = y /\ m.index # 0 /\ m.type = "NEWADDR" /\ m.afi = afi
    BY <1>2, <1>3, <1>6 DEF Addr, Message, MessageSet
  <1>8. ASSUME NEW j \in Ifaces \ {i} PROVE SameKernel(j)
    BY <1>1, <1>5 DEF SameKernel, Kern
  <1>9. ASSUME NEW p \in Configured, p[1] = i
        PROVE  \/ kern'.addr[p] = kern.addr[p] /\ (m.type # "NEWADDR" \/ m.afi # p[2])
               \/ m = Addr(y, p[2], kern'.addr[p])
    <2>1. p = <<i, p[2]>> /\ p \in Pairs
      BY <1>1, <1>9
    <2>2. IF p[2] = afi THEN kern'.addr[p] = a ELSE kern'.addr[p] = kern.addr[p]
      BY <1>1, <1>5, <2>1 DEF Kern
    <2> QED
      BY <1>3, <1>7, <2>2
  <1>10. Changes(i, m)
    <2>1. m.type # "NEWLINK" /\ m.type # "NEWROUTE"
      BY <1>7
    <2>2. \A f \in Afis : kern'.gw[<<i, f>>] = kern.gw[<<i, f>>]
      BY <1>5, Zenon
    <2>3. m.index = kern.index[i] /\ kern'.index[i] = kern.index[i] /\ kern'.up[i] = kern.up[i]
      BY <1>3, <1>5, <1>7, Zenon
    <2> QED
      BY <1>3, <1>4, <1>9, <2>1, <2>2, <2>3, Zenon DEF Changes
  <1> QED
    BY <1>3, <1>4, <1>7, <1>8, <1>10, ChangedFollows, Zenon

LEMMA GatewayChanged ==
    ASSUME TypeInv, Follows, NEW i \in Ifaces, NEW afi \in Afis, NEW g \in Gateways[afi],
           NewDefaultRoute(i, afi, g)
    PROVE  Follows'
  <1>1. Kern(kern) /\ KernelIndexes /\ Pairs = Ifaces \X Afis /\ Configured \subseteq Pairs
    BY PairOf DEF TypeInv, Pairs
  <1>2. <<i, afi>> \in Pairs /\ g \in GatewayAddrs
    BY <1>1 DEF GatewayAddrs, Afis
  <1>3. PICK y, m, ms : y = kern.index[i] /\ m = Gateway(y, afi, g) /\ ms = <<m>>
    BY Zenon
  <1>4. /\ kern.up[i] = TRUE /\ kern' = [kern EXCEPT !.gw = [kern.gw EXCEPT ![<<i, afi>>] = g]]
        /\ Notify(i, ms)
    BY <1>1, <1>3 DEF NewDefaultRoute, Gateway, Kern
  <1>5. /\ kern'.index = kern.index /\ kern'.up = kern.up /\ kern'.addr = kern.addr
        /\ kern'.gw = [kern.gw EXCEPT ![<<i, afi>>] = g]
    BY <1>1, <1>4 DEF Kern
  <1>6. y \in Nat /\ y # 0
    BY <1>1, <1>3, <1>4 DEF KernelIndexes, Kern
  <1>7. /\ m \in MessageSet /\ m.index = y /\ m.index # 0 /\ m.type = "NEWROUTE" /\ m.afi = afi
    BY <1>2, <1>3, <1>6 DEF Gateway, Message, MessageSet
  <1>8. ASSUME NEW j \in Ifaces \ {i} PROVE SameKernel(j)
    BY <1>1, <1>5 DEF SameKernel, Kern
  <1>9. ASSUME NEW f \in Afis
        PROVE  \/ kern'.gw[<<i, f>>] = kern.gw[<<i, f>>] /\ (m.type # "NEWROUTE" \/ m.afi # f)
               \/ m = Gateway(y, f, kern'.gw[<<i, f>>])
    <2>1. <<i, f>> \in Pairs
      BY <1>1
    <2>2. IF f = afi THEN kern'.gw[<<i, f>>] = g ELSE kern'.gw[<<i, f>>] = kern.gw[<<i, f>>]
      BY <1>1, <1>5, <2>1 DEF Kern
    <2> QED
      BY <1>3, <1>7, <2>2
  <1>10. Changes(i, m)
    <2>1. m.type # "NEWLINK" /\ m.type # "NEWADDR"
      BY <1>7
    <2>2. \A p \in Configured : kern'.addr[p] = kern.addr[p]
      BY <1>5, Zenon
    <2>3. m.index = kern.index[i] /\ kern'.index[i] = kern.index[i] /\ kern'.up[i] = kern.up[i]
      BY <1>3, <1>5, <1>7, Zenon
    <2> QED
      BY <1>3, <1>4, <1>9, <2>1, <2>2, <2>3, Zenon DEF Changes
  <1> QED
    BY <1>3, <1>4, <1>7, <1>8, <1>10, ChangedFollows, Zenon

LEMMA LinkChanged ==
    ASSUME TypeInv, Follows, NEW i \in Ifaces, LinkDown(i) \/ LinkUp(i)
    PROVE  Follows'
  <1>1. Kern(kern) /\ KernelIndexes /\ Pairs = Ifaces \X Afis /\ Configured \subseteq Pairs
    BY PairOf DEF TypeInv, Pairs
  <1>3. PICK y, m, ms : y = kern.index[i] /\ m = Link(y, kern'.up[i]) /\ ms = <<m>>
    BY Zenon
  <1>4. /\ Notify(i, ms) /\ kern'.index = kern.index /\ kern'.addr = kern.addr
        /\ y \in Nat /\ y # 0 /\ kern'.up[i] \in BOOLEAN
        /\ \A j \in Ifaces \ {i} : kern'.up[j] = kern.up[j]
        /\ \A p \in Pairs : kern'.gw[p] = kern.gw[p] \/ (p[1] = i /\ kern'.gw[p] = NO_ADDR)
    <2>1. CASE LinkDown(i)
      <3>1. kern' = Flushed(kern, i) /\ kern.up[i] = TRUE
        BY <1>1, <2>1 DEF LinkDown, Kern
      <3>2. /\ kern'.index = kern.index /\ kern'.addr = kern.addr
            /\ kern'.up = [kern.up EXCEPT ![i] = FALSE]
            /\ kern'.gw = [p \in Pairs |-> IF p[1] = i THEN NO_ADDR ELSE kern.gw[p]]
        BY <1>1, <3>1 DEF Flushed, Kern
      <3>3. kern'.up[i] = FALSE /\ \A j \in Ifaces \ {i} : kern'.up[j] = kern.up[j]
        BY <1>1, <3>2 DEF Kern
      <3>4. Notify(i, ms)
        BY <1>3, <2>1, <3>3, Zenon DEF LinkDown, Link
      <3>5. y \in Nat /\ y # 0
        BY <1>1, <1>3, <3>1 DEF KernelIndexes, Kern
      <3> QED
        BY <3>2, <3>3, <3>4, <3>5, Zenon
    <2>2. CASE LinkUp(i)
      <3>1. kern' = [kern EXCEPT !.up = [kern.up EXCEPT ![i] = TRUE]]
        BY <2>2 DEF LinkUp
      <3>2. /\ kern'.index = kern.index /\ kern'.addr = kern.addr /\ kern'.gw = kern.gw
            /\ kern'.up = [kern.up EXCEPT ![i] = TRUE]
        BY <1>1, <3>1 DEF Kern
      <3>3. kern'.up[i] = TRUE /\ \A j \in Ifaces \ {i} : kern'.up[j] = kern.up[j]
        BY <1>1, <3>2 DEF Kern
      <3>4. Notify(i, ms)
        BY <1>3, <2>2, <3>3, Zenon DEF LinkUp, Link
      <3>5. y \in Nat /\ y # 0
        BY <1>1, <1>3, <2>2 DEF LinkUp, Kern
      <3> QED
        BY <3>2, <3>3, <3>4, <3>5, Zenon
    <2> QED
      BY <2>1, <2>2
  <1>5. m \in MessageSet /\ m.index = y /\ m.index # 0 /\ m.type = "NEWLINK"
    BY <1>3, <1>4 DEF Link, Message, MessageSet, Afis
  <1>6. ASSUME NEW j \in Ifaces \ {i} PROVE SameKernel(j)
    <2>1. kern'.index[j] = kern.index[j] /\ kern'.up[j] = kern.up[j] /\ j # i
      BY <1>4
    <2> QED
      BY <1>4, <2>1, Zenon DEF SameKernel
  <1>7. Changes(i, m)
    <2>1. m.type # "NEWADDR" /\ m.type # "NEWROUTE"
      BY <1>5
    <2>2. \A f \in Afis : kern'.gw[<<i, f>>] = kern.gw[<<i, f>>] \/ kern'.gw[<<i, f>>] = NO_ADDR
      BY <1>4, PairOf, Zenon
    <2> QED
      BY <1>3, <1>4, <1>5, <2>1, <2>2, Zenon DEF Changes
  <1> QED
    BY <1>3, <1>4, <1>5, <1>6, <1>7, ChangedFollows, Zenon

LEMMA RemovedChanged ==
    ASSUME TypeInv, Follows, NEW i \in Ifaces, Removed(i) \/ CreatedAgain(i)
    PROVE  Follows'
  <1>1. Kern(kern) /\ KernelIndexes /\ Pairs = Ifaces \X Afis
    BY DEF TypeInv, Pairs
  <1>2. ASSUME stage = "running", i \notin unseen PROVE Follow(i)'
    BY <1>2, RemovedFollows, CreatedFollows, Zenon DEF Follows
  <1>3. CASE Removed(i)
    <2>1. PICK m : m = Link(kern.index[i], FALSE)
      BY Zenon
    <2>2. PICK ms : ms = IF kern.up[i] THEN <<m>> ELSE << >>
      BY Zenon
    <2>3. Notify(i, ms)
      BY <1>3, <2>1, <2>2 DEF Removed, Link
    <2>4. m \in MessageSet /\ m.index # 0 /\ m.index = kern.index[i]
      BY <1>1, <1>3, <2>1 DEF Removed, Kern, Link, Message, MessageSet, Afis
    <2>5. About(i, ms)
      BY <2>2, <2>4 DEF About
    <2>6. /\ kern'.index = [kern.index EXCEPT ![i] = 0] /\ kern'.up = [kern.up EXCEPT ![i] = FALSE]
          /\ kern'.addr = [p \in Pairs |-> IF p[1] = i THEN NO_ADDR ELSE kern.addr[p]]
          /\ kern'.gw = [p \in Pairs |-> IF p[1] = i THEN NO_ADDR ELSE kern.gw[p]]
      BY <1>1, <1>3 DEF Removed, Flushed, Kern
    <2>7. ASSUME NEW j \in Ifaces \ {i} PROVE SameKernel(j)
      <3>1. kern'.index[j] = kern.index[j] /\ kern'.up[j] = kern.up[j]
        BY <1>1, <2>6, Zenon DEF Kern
      <3>2. \A p \in Pairs : p[1] = j => kern'.addr[p] = kern.addr[p] /\ kern'.gw[p] = kern.gw[p]
        BY <2>6, Zenon
      <3> QED
        BY <3>1, <3>2, Zenon DEF SameKernel
    <2> QED
      BY <1>2, <2>3, <2>5, <2>7, OthersFollow
  <1>4. CASE CreatedAgain(i)
    <2>1. PICK m, ms : m = Link(kern.next, FALSE) /\ ms = <<m>>
      BY Zenon
    <2>2. Notify(i, ms)
      BY <1>4, <2>1 DEF CreatedAgain, Link
    <2>3. m \in MessageSet /\ m.index # 0 /\ m.index = kern.next
      <3>1. kern.next \in Nat /\ kern.index[i] \in Nat
        BY <1>1, Zenon DEF Kern
      <3>2. kern.index[i] < kern.next
        BY <1>1, Zenon DEF KernelIndexes
      <3>3. kern.next # 0
        BY <3>1, <3>2
      <3>4. m \in MessageSet
        BY <2>1, <3>1, Zenon DEF Link, Message, MessageSet, Afis
      <3>5. m.index = kern.next
        BY <2>1, Zenon DEF Link, Message
      <3> QED
        BY <3>3, <3>4, <3>5, Zenon
    <2>4. About(i, ms)
      BY <2>1, <2>3, Zenon DEF About
    <2>5. /\ kern'.index = [kern.index EXCEPT ![i] = kern.next] /\ kern'.up = kern.up
          /\ kern'.addr = kern.addr /\ kern'.gw = kern.gw
      BY <1>1, <1>4 DEF CreatedAgain, Kern
    <2>6. \A j \in Ifaces \ {i} : SameKernel(j)
      BY <1>1, <2>5 DEF SameKernel, Kern
    <2> QED
      BY <1>2, <2>2, <2>4, <2>6, OthersFollow
  <1> QED
    BY <1>3, <1>4

LEMMA KernelFollows ==
    ASSUME TypeInv, Follows, KernelNext
    PROVE  Follows'
  BY AddressChanged, GatewayChanged, LinkChanged, RemovedChanged, Zenon DEF KernelNext

-----------------------------------------------------------------------------
(* A notification is served.                                               *)

\* What lispd knows and its socket before and after it serves m.
LinkStep(m, x, old, new) ==
    IF m.type = "NEWLINK" /\ m.index = x THEN new = m.up ELSE new = old

AddrStep(m, x, afi, a, old, sock, new, bound) ==
    IF m.type = "NEWADDR" /\ m.index = x /\ m.afi = afi
    THEN new = m.addr /\ (a = m.addr => bound = m.addr) ELSE new = old /\ bound = sock

GatewayStep(m, x, afi, old, new) ==
    IF m.type = "NEWROUTE" /\ m.index = x /\ m.afi = afi THEN new = m.addr ELSE new = old

LEMMA LinkServed ==
    ASSUME NEW q, NEW m, NEW r, Removes(q, m, r), m.type = "NEWLINK" => m.afi = "v4",
           NEW x, NEW up, NEW old, NEW new, LinkTold(q, x, up, old), LinkStep(m, x, old, new)
    PROVE  LinkTold(r, x, up, new)
  <1>1. PICK n : n = Link(x, up)
    BY Zenon
  <1>2. SameKind(m, n) <=> m.type = "NEWLINK" /\ m.index = x
    BY <1>1, LinkKind, Zenon
  <1>3. CASE LastIs(q, n)
    <2>1. CASE LastIs(r, n)
      BY <1>1, <2>1, Zenon DEF LinkTold
    <2>2. CASE m = n /\ NoneLike(r, n)
      <3>1. m.type = "NEWLINK" /\ m.index = x /\ m.up = up
        BY <1>1, <2>2 DEF Link, Message
      <3> QED
        BY <1>1, <2>2, <3>1, Zenon DEF LinkTold, LinkStep
    <2> QED
      BY <1>3, <2>1, <2>2, RemoveOwn, Zenon
  <1>4. CASE NoneLike(q, n) /\ old = up
    <2>1. ~SameKind(m, n)
      BY <1>4, NoneLikeHead, Zenon
    <2>2. new = up
      BY <1>2, <1>4, <2>1, Zenon DEF LinkStep
    <2>3. NoneLike(r, n)
      BY <1>4, <2>1, RemoveOther, Zenon DEF Carries
    <2> QED
      BY <1>1, <2>2, <2>3, Zenon DEF LinkTold
  <1> QED
    BY <1>1, <1>3, <1>4, Zenon DEF LinkTold

LEMMA AddrServed ==
    ASSUME NEW q, NEW m, NEW r, Removes(q, m, r),
           NEW x, NEW afi, NEW a, NEW old, NEW new, NEW sock, NEW bound,
           AddrTold(q, x, afi, a, old, sock), AddrStep(m, x, afi, a, old, sock, new, bound)
    PROVE  AddrTold(r, x, afi, a, new, bound)
  <1> SUFFICES ASSUME a # NO_ADDR PROVE AddrTold(r, x, afi, a, new, bound)
    BY Zenon DEF AddrTold
  <1>1. PICK n : n = Addr(x, afi, a)
    BY Zenon
  <1>2. SameKind(m, n) <=> m.type = "NEWADDR" /\ m.index = x /\ m.afi = afi
    BY <1>1, AddrKind, Zenon
  <1>3. CASE LastIs(q, n)
    <2>1. CASE LastIs(r, n)
      BY <1>1, <2>1, Zenon DEF AddrTold
    <2>2. CASE m = n /\ NoneLike(r, n)
      <3>1. m.type = "NEWADDR" /\ m.index = x /\ m.afi = afi /\ m.addr = a
        BY <1>1, <2>2 DEF Addr, Message
      <3>2. new = a /\ bound = a
        BY <3>1, Zenon DEF AddrStep
      <3> QED
        BY <1>1, <2>2, <3>2, Zenon DEF AddrTold
    <2> QED
      BY <1>3, <2>1, <2>2, RemoveOwn, Zenon
  <1>4. CASE NoneLike(q, n) /\ old = a /\ sock = a
    <2>1. ~SameKind(m, n)
      BY <1>4, NoneLikeHead, Zenon
    <2>2. new = a /\ bound = a
      BY <1>2, <1>4, <2>1, Zenon DEF AddrStep
    <2>3. NoneLike(r, n)
      BY <1>4, <2>1, RemoveOther, Zenon DEF Carries
    <2> QED
      BY <1>1, <2>2, <2>3, Zenon DEF AddrTold
  <1> QED
    BY <1>1, <1>3, <1>4, Zenon DEF AddrTold

LEMMA GatewayServed ==
    ASSUME NEW q, NEW m, NEW r, Removes(q, m, r),
           NEW x, NEW afi, NEW g, NEW old, NEW new, GatewayTold(q, x, afi, g, old),
           GatewayStep(m, x, afi, old, new)
    PROVE  GatewayTold(r, x, afi, g, new)
  <1> SUFFICES ASSUME g # NO_ADDR PROVE GatewayTold(r, x, afi, g, new)
    BY Zenon DEF GatewayTold
  <1>1. PICK n : n = Gateway(x, afi, g)
    BY Zenon
  <1>2. SameKind(m, n) <=> m.type = "NEWROUTE" /\ m.index = x /\ m.afi = afi
    BY <1>1, GatewayKind, Zenon
  <1>3. CASE LastIs(q, n)
    <2>1. CASE LastIs(r, n)
      BY <1>1, <2>1, Zenon DEF GatewayTold
    <2>2. CASE m = n /\ NoneLike(r, n)
      <3>1. m.type = "NEWROUTE" /\ m.index = x /\ m.afi = afi /\ m.addr = g
        BY <1>1, <2>2 DEF Gateway, Message
      <3>2. new = g
        BY <3>1, Zenon DEF GatewayStep
      <3> QED
        BY <1>1, <2>2, <3>2, Zenon DEF GatewayTold
    <2> QED
      BY <1>3, <2>1, <2>2, RemoveOwn, Zenon
  <1>4. CASE NoneLike(q, n) /\ old = g
    <2>1. ~SameKind(m, n)
      BY <1>4, NoneLikeHead, Zenon
    <2>2. new = g
      BY <1>2, <1>4, <2>1, Zenon DEF GatewayStep
    <2>3. NoneLike(r, n)
      BY <1>4, <2>1, RemoveOther, Zenon DEF Carries
    <2> QED
      BY <1>1, <2>2, <2>3, Zenon DEF GatewayTold
  <1> QED
    BY <1>1, <1>3, <1>4, Zenon DEF GatewayTold

\* What serving m does to interface i, when it keeps its index.
Effect(i, m) ==
    /\ iface_index'[i] = iface_index[i]
    /\ LinkStep(m, iface_index[i], status[i], status'[i])
    /\ \A p \in Configured : p[1] = i =>
          AddrStep(m, iface_index[i], p[2], kern.addr[p],
                   address[p], out_socket[p], address'[p], out_socket'[p])
    /\ \A afi \in Afis :
          GatewayStep(m, iface_index[i], afi, gateway[<<i, afi>>], gateway'[<<i, afi>>])
    /\ m.index # iface_index[i] => m # Link(kern.index[i], TRUE)

LEMMA ServedFollows ==
    ASSUME NEW i \in Ifaces, Follow(i), kern.up[i] \in BOOLEAN, NEW m, Removes(queue, m, queue'),
           m.type = "NEWLINK" => m.afi = "v4", Effect(i, m), SameLinks(kern, kern')
    PROVE  Follow(i)'
  <1>1. PICK x, y : x = iface_index[i] /\ y = kern.index[i]
    BY Zenon
  <1>2. /\ kern'.index[i] = y /\ kern'.up[i] = kern.up[i] /\ kern'.addr = kern.addr /\ kern'.gw = kern.gw
    BY <1>1, Zenon DEF SameLinks
  <1>3. iface_index'[i] = x
    BY <1>1, Zenon DEF Effect
  <1>4. LinkStep(m, x, status[i], status'[i])
    BY <1>1, Zenon DEF Effect
  <1>7. \A n : ~SameKind(m, n) => Carries(queue, queue', n)
    BY RemoveOther, Zenon
  <1>8. ASSUME NEW z, NEW afi, NEW a, NEW old, NEW new, NEW sock, NEW bound,
               AddrTold(queue, z, afi, a, old, sock), AddrStep(m, z, afi, a, old, sock, new, bound)
        PROVE  AddrTold(queue', z, afi, a, new, bound)
    BY <1>8, AddrServed, Zenon
  <1>9. ASSUME NEW z, NEW afi, NEW g, NEW old, NEW new,
               GatewayTold(queue, z, afi, g, old), GatewayStep(m, z, afi, old, new)
        PROVE  GatewayTold(queue', z, afi, g, new)
    BY <1>9, GatewayServed, Zenon
  <1>5. CASE x = y
    <2>1. Told(i)
      BY <1>1, <1>5, Zenon DEF Follow
    <2>2. LinkTold(queue', y, kern.up[i], status'[i])
      <3>1. LinkTold(queue, y, kern.up[i], status[i])
        BY <1>1, <2>1, Zenon DEF Told
      <3> QED
        BY <1>4, <1>5, <3>1, LinkServed, ZenonT(20)
    <2>3. ASSUME NEW p \in Configured, p[1] = i
          PROVE  AddrTold(queue', y, p[2], kern.addr[p], address'[p], out_socket'[p])
      <3>1. AddrTold(queue, y, p[2], kern.addr[p], address[p], out_socket[p])
        BY <1>1, <2>1, <2>3, Zenon DEF Told
      <3>2. AddrStep(m, y, p[2], kern.addr[p], address[p], out_socket[p], address'[p], out_socket'[p])
        BY <1>1, <1>5, <2>3, Zenon DEF Effect
      <3> QED
        BY <1>8, <3>1, <3>2, Zenon
    <2>4. ASSUME NEW afi \in Afis
          PROVE  GatewayTold(queue', y, afi, kern.gw[<<i, afi>>], gateway'[<<i, afi>>])
      <3>1. GatewayTold(queue, y, afi, kern.gw[<<i, afi>>], gateway[<<i, afi>>])
        BY <1>1, <2>1, Zenon DEF Told
      <3>2. GatewayStep(m, y, afi, gateway[<<i, afi>>], gateway'[<<i, afi>>])
        BY <1>1, <1>5, Zenon DEF Effect
      <3> QED
        BY <1>9, <3>1, <3>2, Zenon
    <2>5. Told(i)'
      BY <1>2, <2>2, <2>3, <2>4, Zenon DEF Told
    <2> QED
      BY <1>2, <1>3, <1>5, <2>5, Zenon DEF Follow
  <1>6. CASE x # y
    <2>1. ToldAgain(i)
      BY <1>1, <1>6, Zenon DEF Follow
    <2>2. LinkTold(queue', x, FALSE, status'[i])
      <3>1. LinkTold(queue, x, FALSE, status[i])
        BY <1>1, <2>1, Zenon DEF ToldAgain
      <3> QED
        BY <1>4, <3>1, LinkServed, Zenon
    <2>3. m # Link(y, TRUE)
      <3>1. Link(y, TRUE).index = y
        BY DEF Link, Message
      <3> QED
        BY <1>1, <1>6, <3>1, Zenon DEF Effect
    <2>4. LinkTold(queue', y, kern.up[i], FALSE)
      <3>1. LinkTold(queue, y, kern.up[i], FALSE)
        BY <1>1, <2>1, Zenon DEF ToldAgain
      <3>2. CASE LastIs(queue, Link(y, kern.up[i]))
        <4>1. CASE m = Link(y, kern.up[i]) /\ NoneLike(queue', Link(y, kern.up[i]))
          <5>1. kern.up[i] = FALSE
            BY <2>3, <4>1, Zenon
          <5> QED
            BY <4>1, <5>1, Zenon DEF LinkTold
        <4>2. \A n : LastIs(queue, n) => LastIs(queue', n) \/ (m = n /\ NoneLike(queue', n))
          BY RemoveOwn, Zenon
        <4> QED
          BY <3>2, <4>1, <4>2, Zenon DEF LinkTold
      <3>3. CASE NoneLike(queue, Link(y, kern.up[i])) /\ FALSE = kern.up[i]
        <4>1. ~SameKind(m, Link(y, kern.up[i]))
          <5>1. \A n : NoneLike(queue, n) => ~SameKind(m, n)
            BY NoneLikeHead, Zenon
          <5> QED
            BY <3>3, <5>1, Zenon
        <4>2. NoneLike(queue', Link(y, kern.up[i]))
          BY <1>7, <3>3, <4>1, Zenon DEF Carries
        <4> QED
          BY <3>3, <4>2, Zenon DEF LinkTold
      <3> QED
        BY <3>1, <3>2, <3>3, Zenon DEF LinkTold
    <2>5. Announced(queue, y) /\ Ordered(queue, x, y)
      BY <1>1, <2>1, Zenon DEF ToldAgain
    <2>6. m.index = y => m.type = "NEWLINK"
      BY <2>5, AnnouncedHead, Zenon
    <2>7. ASSUME NEW p \in Configured, p[1] = i, kern.addr[p] # NO_ADDR
          PROVE  LastIs(queue', Addr(y, p[2], kern.addr[p]))
      <3>1. LastIs(queue, Addr(y, p[2], kern.addr[p]))
        BY <1>1, <2>1, <2>7, Zenon DEF ToldAgain
      <3>2. ~SameKind(m, Addr(y, p[2], kern.addr[p]))
        BY <2>6 DEF SameKind, Addr, Message
      <3> QED
        BY <1>7, <3>1, <3>2, Zenon DEF Carries
    <2>8. ASSUME NEW afi \in Afis, kern.gw[<<i, afi>>] # NO_ADDR
          PROVE  LastIs(queue', Gateway(y, afi, kern.gw[<<i, afi>>]))
      <3>1. LastIs(queue, Gateway(y, afi, kern.gw[<<i, afi>>]))
        BY <1>1, <2>1, <2>8, Zenon DEF ToldAgain
      <3>2. ~SameKind(m, Gateway(y, afi, kern.gw[<<i, afi>>]))
        BY <2>6 DEF SameKind, Gateway, Message
      <3> QED
        BY <1>7, <3>1, <3>2, Zenon DEF Carries
    <2>9. Ordered(queue', x, y) /\ Announced(queue', y)
      BY <2>3, <2>5, RemoveOrdered, RemoveAnnounced, Zenon
    <2>10. ToldAgain(i)'
      BY <1>2, <1>3, <2>2, <2>4, <2>7, <2>8, <2>9, Zenon DEF ToldAgain
    <2> QED
      BY <1>2, <1>3, <1>6, <2>10, Zenon DEF Follow
  <1> QED
    BY <1>5, <1>6, Zenon

\* The link of an interface that came back with another index.
LEMMA RejoinFollows ==
    ASSUME NEW i \in Ifaces, Follow(i), NEW m, Removes(queue, m, queue'),
           m.type = "NEWLINK" /\ m.afi = "v4", m.index = kern.index[i], m.index # iface_index[i],
           SameLinks(kern, kern'), iface_index'[i] = m.index, status'[i] = m.up
    PROVE  Follow(i)'
  <1>1. PICK y : y = kern.index[i]
    BY Zenon
  <1>2. /\ kern'.index[i] = y /\ kern'.up[i] = kern.up[i] /\ kern'.addr = kern.addr /\ kern'.gw = kern.gw
    BY <1>1, Zenon DEF SameLinks
  <1>8. \A n : ~SameKind(m, n) => Carries(queue, queue', n)
    BY RemoveOther, Zenon
  <1>3. ToldAgain(i)
    BY Zenon DEF Follow
  <1>4. LinkTold(queue', y, kern.up[i], status'[i])
    <2>1. LinkTold(queue, y, kern.up[i], FALSE)
      BY <1>1, <1>3, Zenon DEF ToldAgain
    <2>2. LinkStep(m, y, FALSE, status'[i])
      BY <1>1, Zenon DEF LinkStep
    <2> QED
      BY <2>1, <2>2, LinkServed, Zenon
  <1>5. ASSUME NEW p \in Configured, p[1] = i
        PROVE  AddrTold(queue', y, p[2], kern.addr[p], address'[p], out_socket'[p])
    <2>1. kern.addr[p] # NO_ADDR => LastIs(queue, Addr(y, p[2], kern.addr[p]))
      BY <1>1, <1>3, <1>5, Zenon DEF ToldAgain
    <2>2. ~SameKind(m, Addr(y, p[2], kern.addr[p]))
      BY DEF SameKind, Addr, Message
    <2> QED
      BY <1>8, <2>1, <2>2, Zenon DEF Carries, AddrTold
  <1>6. ASSUME NEW afi \in Afis
        PROVE  GatewayTold(queue', y, afi, kern.gw[<<i, afi>>], gateway'[<<i, afi>>])
    <2>1. kern.gw[<<i, afi>>] # NO_ADDR => LastIs(queue, Gateway(y, afi, kern.gw[<<i, afi>>]))
      BY <1>1, <1>3, Zenon DEF ToldAgain
    <2>2. ~SameKind(m, Gateway(y, afi, kern.gw[<<i, afi>>]))
      BY DEF SameKind, Gateway, Message
    <2> QED
      BY <1>8, <2>1, <2>2, Zenon DEF Carries, GatewayTold
  <1>7. Told(i)'
    BY <1>2, <1>4, <1>5, <1>6, Zenon DEF Told
  <1> QED
    BY <1>1, <1>2, <1>7, Zenon DEF Follow

\* Notification m has an index of interface i, of the kernel or of lispd.
Concerns(i, m) == m.index = iface_index[i] \/ m.index = kern.index[i]

LEMMA ServingRemoves ==
    ASSUME TypeInv, NEW m, Serving(m)
    PROVE  /\ Removes(queue, m, queue') /\ stage = "running" /\ stage' = "running"
           /\ m.index # 0 /\ m.up \in BOOLEAN /\ m.afi \in Afis
           /\ m.type = "NEWLINK" => m.afi = "v4"
  <1>1. queue \in Seq(MessageSet) /\ queue # << >> /\ m = Head(queue) /\ queue' = Tail(queue)
    BY DEF TypeInv, DaemonTypes, Serving
  <1>2. Removes(queue, m, queue')
    BY <1>1, RemovesIs
  <1>3. MessageOK(m, kern.next)
    BY ServedMessage
  <1>4. stage = "running" /\ stage' = "running"
    BY DEF Serving
  <1> QED
    BY <1>2, <1>3, <1>4 DEF MessageOK

LEMMA ConcernsOne ==
    ASSUME TypeInv, stage = "running", NEW m, m.index # 0, NEW i \in Ifaces, NEW j \in Ifaces,
           Concerns(i, m), Concerns(j, m)
    PROVE  i = j
  <1>1. DaemonIndexes /\ KernelIndexes /\ Started
    BY DEF TypeInv, Started
  <1> QED
    BY <1>1 DEF DaemonIndexes, KernelIndexes, Concerns

LEMMA SameLinksKernel ==
    ASSUME SameLinks(kern, kern'), NEW i
    PROVE  SameKernel(i)
  BY DEF SameLinks, SameKernel

LEMMA ServedOthers ==
    ASSUME TypeInv, Follows, NEW m, Serving(m), unseen' = unseen, SameLinks(kern, kern'),
           \A j \in Ifaces : ~Concerns(j, m) => SameDaemon(j),
           \A i \in Ifaces : Concerns(i, m) /\ i \notin unseen => Follow(i)'
    PROVE  Follows'
  <1>1. Removes(queue, m, queue') /\ stage = "running" /\ stage' = "running"
    BY ServingRemoves
  <1>2. ASSUME NEW j \in Ifaces, j \notin unseen, ~Concerns(j, m) PROVE Follow(j)'
    <2>1. Follow(j) /\ SameDaemon(j) /\ SameKernel(j)
      BY <1>1, <1>2, SameLinksKernel, Zenon DEF Follows
    <2>2. Quiet(iface_index[j], kern.index[j])
      BY <1>1, <1>2, QuietSteps, Zenon DEF Concerns
    <2> QED
      BY <2>1, <2>2, QuietFollows
  <1>3. \A j \in Ifaces \ unseen' : Follow(j)'
    BY <1>2, Zenon
  <1>4. stage' \notin {"configured", "ready"}
    BY <1>1
  <1> QED
    BY <1>3, <1>4, Zenon DEF Follows

LEMMA EffectFollows ==
    ASSUME TypeInv, Follows, NEW m, Serving(m), SameLinks(kern, kern'), NEW i \in Ifaces,
           i \notin unseen, Effect(i, m)
    PROVE  Follow(i)'
  <1>1. Removes(queue, m, queue') /\ stage = "running" /\ (m.type = "NEWLINK" => m.afi = "v4")
    BY ServingRemoves
  <1>2. Follow(i)
    BY <1>1, Zenon DEF Follows
  <1>3. kern.up[i] \in BOOLEAN
    BY DEF TypeInv, Kern
  <1> QED
    BY <1>1, <1>2, <1>3, ServedFollows

LEMMA NothingServed ==
    ASSUME UNCHANGED <<ifaceVars, kern, iface_index, gateway, out_socket, rlocs, unseen>>
    PROVE  /\ SameLinks(kern, kern') /\ unseen' = unseen /\ \A j : SameDaemon(j)
           /\ status' = status /\ address' = address /\ iface_index' = iface_index
           /\ gateway' = gateway /\ out_socket' = out_socket
  BY DEF SameLinks, SameDaemon, ifaceVars

\* Nothing is done for m, and nothing had to be.
LEMMA NothingEffect ==
    ASSUME NEW m, NEW i \in Ifaces,
           UNCHANGED <<ifaceVars, kern, iface_index, gateway, out_socket, rlocs, unseen>>,
           m.type = "NEWLINK" /\ m.index = iface_index[i] => status[i] = m.up,
           m.type = "NEWADDR" /\ m.index = iface_index[i] => <<i, m.afi>> \notin Configured,
           m.type = "NEWROUTE" => m.index # iface_index[i],
           m.index # iface_index[i] => m # Link(kern.index[i], TRUE)
    PROVE  Effect(i, m)
  <1>1. /\ status' = status /\ address' = address /\ iface_index' = iface_index
        /\ gateway' = gateway /\ out_socket' = out_socket
    BY NothingServed
  <1>2. LinkStep(m, iface_index[i], status[i], status'[i])
    BY <1>1, Zenon DEF LinkStep
  <1>3. ASSUME NEW p \in Configured, p[1] = i
        PROVE  AddrStep(m, iface_index[i], p[2], kern.addr[p],
                        address[p], out_socket[p], address'[p], out_socket'[p])
    <2>1. p = <<i, p[2]>>
      BY <1>3, InterfacesAssumption
    <2> QED
      BY <1>1, <1>3, <2>1, Zenon DEF AddrStep
  <1>4. ASSUME NEW afi \in Afis
        PROVE  GatewayStep(m, iface_index[i], afi, gateway[<<i, afi>>], gateway'[<<i, afi>>])
    BY <1>1, Zenon DEF GatewayStep
  <1> QED
    BY <1>1, <1>2, <1>3, <1>4, Zenon DEF Effect

LEMMA NotLink ==
    ASSUME NEW m, m.type # "NEWLINK"
    PROVE  \A x, up : m # Link(x, up)
  BY DEF Link, Message

LEMMA AddressFollows ==
    ASSUME TypeInv, Follows, NEW m, Serving(m), m.type = "NEWADDR", process_nl_add_address(m)
    PROVE  Follows'
  <1>1. /\ stage = "running" /\ m.index # 0 /\ m.afi \in Afis
        /\ m.type # "NEWLINK" /\ m.type # "NEWROUTE" /\ \A x, up : m # Link(x, up)
    BY ServingRemoves, NotLink
  <1>2. ASSUME UNCHANGED <<ifaceVars, kern, iface_index, gateway, out_socket, rlocs, unseen>>,
               \A k \in KnownByIndex(m.index) : <<k, m.afi>> \notin Configured
        PROVE  Follows'
    <2>1. ASSUME NEW i \in Ifaces, i \notin unseen PROVE Follow(i)'
      <3>1. m.index = iface_index[i] => <<i, m.afi>> \notin Configured
        BY <1>2, Zenon DEF KnownByIndex
      <3>2. Effect(i, m)
        BY <1>1, <1>2, <3>1, NothingEffect, Zenon
      <3> QED
        BY <1>2, <2>1, <3>2, EffectFollows, NothingServed, Zenon
    <2> QED
      BY <1>2, <2>1, ServedOthers, NothingServed, Zenon
  <1>3. ASSUME NEW k \in KnownByIndex(m.index), NEW p, p = <<k, m.afi>>, p \in Configured,
               address_changed(k, m.afi, m.addr),
               kern' = tun_updated_addr_rules(kern, iface_index[k], address[p], m.addr),
               out_socket' = [out_socket EXCEPT ![p] = bind_socket(kern, p, m.addr, @)],
               UNCHANGED <<iface_index, gateway, unseen>>
        PROVE  Follows'
    <2>1. /\ address' = [address EXCEPT ![p] = m.addr] /\ status' = status /\ iface_index' = iface_index
          /\ gateway' = gateway /\ unseen' = unseen
      BY <1>3 DEF address_changed, tun_updated_addr
    <2>2. SameLinks(kern, kern')
      BY <1>3, RuleRequests, Zenon DEF TypeInv, OnlyRules
    <2>3. k \in Ifaces /\ m.index = iface_index[k] /\ Concerns(k, m)
      BY <1>3, Zenon DEF KnownByIndex, Concerns
    <2>4. /\ address'[p] = m.addr /\ (kern.addr[p] = m.addr => out_socket'[p] = m.addr)
          /\ \A o \in Configured : o # p => address'[o] = address[o] /\ out_socket'[o] = out_socket[o]
      BY <1>3, <2>1, Zenon DEF TypeInv, DaemonTypes, bind_socket
    <2>5. ASSUME NEW j \in Ifaces, ~Concerns(j, m) PROVE SameDaemon(j)
      <3>1. j # k
        BY <2>3, <2>5, Zenon
      <3>2. p[1] = k
        BY <1>3
      <3>3. \A o \in Configured : o[1] = j => o # p
        BY <3>1, <3>2, Zenon
      <3> QED
        BY <2>1, <2>4, <3>3, Zenon DEF SameDaemon
    <2>6. Effect(k, m)
      <3>1. LinkStep(m, iface_index[k], status[k], status'[k])
        BY <1>1, <2>1, Zenon DEF LinkStep
      <3>2. ASSUME NEW o \in Configured, o[1] = k
            PROVE  AddrStep(m, iface_index[k], o[2], kern.addr[o],
                            address[o], out_socket[o], address'[o], out_socket'[o])
        <4>1. o = <<k, o[2]>>
          BY <3>2, InterfacesAssumption
        <4>2. CASE o[2] = m.afi
          <5>1. o = p
            BY <1>3, <4>1, <4>2, Zenon
          <5> QED
            BY <1>1, <2>3, <2>4, <4>2, <5>1, Zenon DEF AddrStep
        <4>3. CASE o[2] # m.afi
          <5>1. o # p
            <6>1. p[2] = m.afi
              BY <1>3
            <6> QED
              BY <4>3, <6>1, Zenon
          <5> QED
            BY <2>4, <4>3, <5>1, Zenon DEF AddrStep
        <4> QED
          BY <4>2, <4>3, Zenon
      <3>3. ASSUME NEW afi \in Afis
            PROVE  GatewayStep(m, iface_index[k], afi, gateway[<<k, afi>>], gateway'[<<k, afi>>])
        BY <1>1, <2>1, Zenon DEF GatewayStep
      <3> QED
        BY <2>1, <2>3, <3>1, <3>2, <3>3, Zenon DEF Effect
    <2>7. ASSUME NEW i \in Ifaces, Concerns(i, m), i \notin unseen PROVE Follow(i)'
      <3>1. i = k
        BY <1>1, <2>3, <2>7, ConcernsOne
      <3> QED
        BY <2>2, <2>6, <2>7, <3>1, EffectFollows, Zenon
    <2> QED
      BY <2>1, <2>2, <2>5, <2>7, ServedOthers, Zenon
  <1>4. CASE KnownByIndex(m.index) = {}
    <2>1. \A k \in KnownByIndex(m.index) : <<k, m.afi>> \notin Configured
      BY <1>4
    <2> QED
      BY <1>2, <1>4, <2>1, Zenon DEF process_nl_add_address, Discarded
  <1>5. CASE KnownByIndex(m.index) # {}
    <2>1. PICK k \in KnownByIndex(m.index) :
            \/ /\ <<k, m.afi>> \notin Configured
               /\ UNCHANGED <<ifaceVars, kern, iface_index, gateway, out_socket, rlocs, unseen>>
            \/ /\ <<k, m.afi>> \in Configured
               /\ address_changed(k, m.afi, m.addr)
               /\ kern' = tun_updated_addr_rules(kern, iface_index[k], address[<<k, m.afi>>], m.addr)
               /\ out_socket' = [out_socket EXCEPT ![<<k, m.afi>>] = bind_socket(kern, <<k, m.afi>>, m.addr, @)]
               /\ UNCHANGED <<iface_index, gateway, unseen>>
      BY <1>5, Zenon DEF process_nl_add_address
    <2>2. \A l \in KnownByIndex(m.index) : l = k
      <3>1. \A l \in KnownByIndex(m.index) : l \in Ifaces /\ Concerns(l, m)
        BY Zenon DEF KnownByIndex, Concerns
      <3> QED
        BY <1>1, <3>1, ConcernsOne, Zenon
    <2>3. CASE <<k, m.afi>> \notin Configured
      BY <1>2, <2>1, <2>2, <2>3, Zenon
    <2>4. CASE <<k, m.afi>> \in Configured
      BY <1>3, <2>1, <2>4, Zenon
    <2> QED
      BY <2>3, <2>4, Zenon
  <1> QED
    BY <1>4, <1>5, Zenon

LEMMA GatewayFollows ==
    ASSUME TypeInv, Follows, NEW m, Serving(m), m.type = "NEWROUTE",
           process_nl_new_unicast_route(m)
    PROVE  Follows'
  <1>1. /\ stage = "running" /\ m.index # 0 /\ m.afi \in Afis
        /\ m.type # "NEWLINK" /\ m.type # "NEWADDR" /\ \A x, up : m # Link(x, up)
    BY ServingRemoves, NotLink
  <1>2. CASE KnownByIndex(m.index) = {}
    <2>0. UNCHANGED <<ifaceVars, kern, iface_index, gateway, out_socket, rlocs, unseen>>
      BY <1>2, Zenon DEF process_nl_new_unicast_route, Discarded
    <2>1. ASSUME NEW i \in Ifaces, i \notin unseen PROVE Follow(i)'
      <3>1. m.index # iface_index[i]
        BY <1>2 DEF KnownByIndex
      <3>2. Effect(i, m)
        BY <1>1, <2>0, <3>1, NothingEffect, Zenon
      <3> QED
        BY <2>0, <2>1, <3>2, EffectFollows, NothingServed, Zenon
    <2> QED
      BY <2>0, <2>1, ServedOthers, NothingServed, Zenon
  <1>3. CASE KnownByIndex(m.index) # {}
    <2>0. PICK k \in KnownByIndex(m.index) :
            /\ tun_process_new_gateway(k, m.afi, m.addr)
            /\ UNCHANGED <<ifaceVars, iface_index, out_socket, unseen>>
      BY <1>3, Zenon DEF process_nl_new_unicast_route
    <2>1. /\ address' = address /\ status' = status /\ iface_index' = iface_index
          /\ out_socket' = out_socket /\ unseen' = unseen
      BY <2>0 DEF ifaceVars
    <2>2. SameLinks(kern, kern')
      <3>1. kern' = kern \/ kern' = add_route(kern, GatewayRoute(m.afi, iface_index[k], m.addr))
        BY <2>0, Zenon DEF tun_process_new_gateway
      <3>2. Kern(kern)
        BY DEF TypeInv
      <3> QED
        BY <3>1, <3>2 DEF add_route, SameLinks, Kern
    <2>3. k \in Ifaces /\ m.index = iface_index[k] /\ Concerns(k, m)
      BY <2>0, Zenon DEF KnownByIndex, Concerns
    <2>4. /\ gateway'[<<k, m.afi>>] = m.addr
          /\ \A o \in Pairs : o # <<k, m.afi>> => gateway'[o] = gateway[o]
      <3>1. gateway \in [Pairs -> GatewayAddrs \cup {NO_ADDR}] /\ <<k, m.afi>> \in Pairs
        BY <1>1, <2>3, PairOf DEF TypeInv, DaemonTypes
      <3> QED
        BY <2>0, <3>1 DEF tun_process_new_gateway
    <2>5. ASSUME NEW j \in Ifaces, ~Concerns(j, m) PROVE SameDaemon(j)
      <3>1. j # k
        BY <2>3, <2>5, Zenon
      <3>2. \A afi \in Afis : <<j, afi>> \in Pairs /\ <<j, afi>> # <<k, m.afi>>
        BY <3>1, PairOf
      <3> QED
        BY <2>1, <2>4, <3>2, Zenon DEF SameDaemon
    <2>6. Effect(k, m)
      <3>1. LinkStep(m, iface_index[k], status[k], status'[k])
        BY <1>1, <2>1, Zenon DEF LinkStep
      <3>2. ASSUME NEW o \in Configured, o[1] = k
            PROVE  AddrStep(m, iface_index[k], o[2], kern.addr[o],
                            address[o], out_socket[o], address'[o], out_socket'[o])
        BY <1>1, <2>1, Zenon DEF AddrStep
      <3>3. ASSUME NEW afi \in Afis
            PROVE  GatewayStep(m, iface_index[k], afi, gateway[<<k, afi>>], gateway'[<<k, afi>>])
        <4>1. CASE afi = m.afi
          BY <1>1, <2>3, <2>4, <4>1, Zenon DEF GatewayStep
        <4>2. CASE afi # m.afi
          <5>1. <<k, afi>> \in Pairs /\ <<k, afi>> # <<k, m.afi>>
            BY <2>3, <4>2, PairOf
          <5> QED
            BY <2>4, <4>2, <5>1, Zenon DEF GatewayStep
        <4> QED
          BY <4>1, <4>2, Zenon
      <3> QED
        BY <2>1, <2>3, <3>1, <3>2, <3>3, Zenon DEF Effect
    <2>7. ASSUME NEW i \in Ifaces, Concerns(i, m), i \notin unseen PROVE Follow(i)'
      <3>1. i = k
        BY <1>1, <2>3, <2>7, ConcernsOne
      <3> QED
        BY <2>2, <2>6, <2>7, <3>1, EffectFollows, Zenon
    <2> QED
      BY <2>1, <2>2, <2>5, <2>7, ServedOthers, Zenon
  <1> QED
    BY <1>2, <1>3, Zenon

\* An interface that went away is down for lispd when the first notification
\* of its new index is served.
LEMMA DownBefore ==
    ASSUME TypeInv, Follows, NEW m, Serving(m), NEW i \in Ifaces, i \notin unseen,
           m.index = kern.index[i], m.index # iface_index[i]
    PROVE  status[i] = FALSE
  <1>1. Removes(queue, m, queue') /\ stage = "running"
    BY ServingRemoves
  <1>2. PICK x, y : x = iface_index[i] /\ y = kern.index[i]
    BY Zenon
  <1>3. ToldAgain(i)
    BY <1>1, Zenon DEF Follows, Follow
  <1>4. Ordered(queue, x, y) /\ LinkTold(queue, x, FALSE, status[i])
    BY <1>2, <1>3, Zenon DEF ToldAgain
  <1>5. ~LastIs(queue, Link(x, FALSE))
    BY <1>1, <1>2, <1>4, OrderedHead, Zenon
  <1> QED
    BY <1>4, <1>5, Zenon DEF LinkTold

LEMMA LinkFollows ==
    ASSUME TypeInv, Follows, NEW m, Serving(m), m.type = "NEWLINK", process_nl_new_link(m)
    PROVE  Follows'
  <1>1. /\ stage = "running" /\ m.index # 0 /\ m.up \in BOOLEAN /\ m.afi = "v4"
        /\ m.type # "NEWADDR" /\ m.type # "NEWROUTE" /\ Removes(queue, m, queue')
    BY ServingRemoves
  <1>2. \A k \in LinkIfaces(m.index) : k \in Ifaces /\ Concerns(k, m)
    BY Zenon DEF LinkIfaces, KnownByIndex, KnownByName, Concerns
  <1>3. ASSUME NEW i \in Ifaces, Concerns(i, m) PROVE i \in LinkIfaces(m.index)
    <2>1. CASE m.index = iface_index[i]
      BY <2>1 DEF LinkIfaces, KnownByIndex
    <2>2. CASE m.index # iface_index[i]
      <3>1. KnownByIndex(m.index) = {}
        <4>1. ASSUME NEW l \in Ifaces, iface_index[l] = m.index PROVE FALSE
          <5>1. Concerns(l, m)
            BY <4>1, Zenon DEF Concerns
          <5>2. l = i
            BY <1>1, <1>3, <5>1, ConcernsOne
          <5> QED
            BY <2>2, <4>1, <5>2, Zenon
        <4> QED
          BY <4>1 DEF KnownByIndex
      <3>2. i \in KnownByName(m.index)
        BY <1>3, <2>2 DEF KnownByName, Concerns
      <3> QED
        BY <3>1, <3>2, Zenon DEF LinkIfaces
    <2> QED
      BY <2>1, <2>2, Zenon
  <1>4. ASSUME UNCHANGED <<ifaceVars, kern, iface_index, gateway, out_socket, rlocs, unseen>>,
               \A k \in LinkIfaces(m.index) : status[k] = m.up
        PROVE  Follows'
    <2>1. ASSUME NEW i \in Ifaces, Concerns(i, m), i \notin unseen PROVE Follow(i)'
      <3>1. status[i] = m.up
        BY <1>3, <1>4, <2>1, Zenon
      <3>2. ASSUME m.index # iface_index[i] PROVE m # Link(kern.index[i], TRUE)
        <4>1. m.index = kern.index[i]
          BY <2>1, <3>2, Zenon DEF Concerns
        <4>2. m.up = FALSE
          BY <2>1, <3>1, <3>2, <4>1, DownBefore, Zenon
        <4>3. Link(kern.index[i], TRUE).up = TRUE
          BY DEF Link, Message
        <4> QED
          BY <4>2, <4>3, Zenon
      <3>3. Effect(i, m)
        BY <1>1, <1>4, <3>1, <3>2, NothingEffect, Zenon
      <3> QED
        BY <1>4, <2>1, <3>3, EffectFollows, NothingServed, Zenon
    <2> QED
      BY <1>4, <2>1, ServedOthers, NothingServed, Zenon
  <1>5. ASSUME NEW k \in LinkIfaces(m.index), status[k] # m.up,
               kern' = tun_updated_link_rules(kern, k, m.index),
               iface_index' = [iface_index EXCEPT ![k] = m.index],
               out_socket' = tun_updated_link_sockets(k, m.index),
               link_changed(k),
               UNCHANGED <<gateway, unseen>>
        PROVE  Follows'
    <2>1. /\ k \in Ifaces /\ Concerns(k, m)
          /\ status' = [status EXCEPT ![k] = ~@] /\ address' = address
          /\ gateway' = gateway /\ unseen' = unseen
      BY <1>2, <1>5 DEF link_changed
    <2>2. SameLinks(kern, kern')
      BY <1>5, RuleRequests, Zenon DEF TypeInv, OnlyRules
    <2>3. /\ status'[k] = m.up /\ iface_index'[k] = m.index
          /\ \A j \in Ifaces : j # k => status'[j] = status[j] /\ iface_index'[j] = iface_index[j]
      <3>1. status \in [Ifaces -> BOOLEAN] /\ iface_index \in [Ifaces -> Nat]
        BY DEF TypeInv, DaemonTypes
      <3>2. status[k] \in BOOLEAN
        BY <2>1, <3>1
      <3>3. m.up = ~status[k]
        BY <1>1, <1>5, <3>2, Zenon
      <3> QED
        BY <1>5, <2>1, <3>1, <3>3
    <2>4. \A o \in Configured : o[1] # k \/ m.index = iface_index[k] => out_socket'[o] = out_socket[o]
      BY <1>5 DEF tun_updated_link_sockets
    <2>5. ASSUME NEW j \in Ifaces, ~Concerns(j, m) PROVE SameDaemon(j)
      <3>1. j # k
        BY <2>1, <2>5, Zenon
      <3> QED
        BY <2>1, <2>3, <2>4, <3>1, Zenon DEF SameDaemon
    <2>6. ASSUME k \notin unseen PROVE Follow(k)'
      <3>1. CASE m.index = iface_index[k]
        <4>1. LinkStep(m, iface_index[k], status[k], status'[k])
          BY <2>3, <3>1, Zenon DEF LinkStep
        <4>2. ASSUME NEW o \in Configured, o[1] = k
              PROVE  AddrStep(m, iface_index[k], o[2], kern.addr[o],
                              address[o], out_socket[o], address'[o], out_socket'[o])
          BY <1>1, <2>1, <2>4, <3>1, Zenon DEF AddrStep
        <4>3. ASSUME NEW afi \in Afis
              PROVE  GatewayStep(m, iface_index[k], afi, gateway[<<k, afi>>], gateway'[<<k, afi>>])
          BY <1>1, <2>1, Zenon DEF GatewayStep
        <4>4. Effect(k, m)
          BY <2>3, <3>1, <4>1, <4>2, <4>3, Zenon DEF Effect
        <4> QED
          BY <2>1, <2>2, <2>6, <4>4, EffectFollows, Zenon
      <3>2. CASE m.index # iface_index[k]
        <4>1. m.index = kern.index[k]
          BY <2>1, <3>2, Zenon DEF Concerns
        <4>2. Follow(k)
          BY <1>1, <2>1, <2>6, Zenon DEF Follows
        <4> QED
          BY <1>1, <2>1, <2>2, <2>3, <3>2, <4>1, <4>2, RejoinFollows
      <3> QED
        BY <3>1, <3>2, Zenon
    <2>7. ASSUME NEW i \in Ifaces, Concerns(i, m), i \notin unseen PROVE Follow(i)'
      <3>1. i = k
        BY <1>1, <2>1, <2>7, ConcernsOne
      <3> QED
        BY <2>6, <2>7, <3>1, Zenon
    <2> QED
      BY <2>1, <2>2, <2>5, <2>7, ServedOthers, Zenon
  <1>6. CASE \A k \in LinkIfaces(m.index) : status[k] = m.up
    <2>1. UNCHANGED <<ifaceVars, kern, iface_index, gateway, out_socket, rlocs, unseen>>
      BY <1>6, Zenon DEF process_nl_new_link
    <2> QED
      BY <1>4, <1>6, <2>1, Zenon
  <1>7. CASE ~\A k \in LinkIfaces(m.index) : status[k] = m.up
    <2>1. PICK l \in LinkIfaces(m.index) : status[l] # m.up
      BY <1>7, Zenon
    <2>2. PICK k \in LinkIfaces(m.index) :
            /\ kern' = tun_updated_link_rules(kern, k, m.index)
            /\ iface_index' = [iface_index EXCEPT ![k] = m.index]
            /\ out_socket' = tun_updated_link_sockets(k, m.index)
            /\ link_changed(k)
            /\ UNCHANGED <<gateway, unseen>>
      BY <1>7, Zenon DEF process_nl_new_link
    <2>3. l = k
      BY <1>1, <1>2, ConcernsOne
    <2> QED
      BY <1>5, <2>1, <2>2, <2>3, Zenon
  <1> QED
    BY <1>6, <1>7, Zenon

-----------------------------------------------------------------------------
(* The other steps of lispd, and the theorem.                              *)

LEMMA StartFollows ==
    ASSUME TypeInv, Follows,
           \/ \E daemonize \in BOOLEAN : initial_setup(daemonize)
           \/ RemovePidFile
           \/ UNCHANGED allVars
    PROVE  Follows'
  <1>1. CASE stage' \notin {"configured", "ready", "running"}
    BY <1>1 DEF Follows
  <1>2. CASE UNCHANGED allVars
    BY <1>2, ZenonT(40) DEF allVars, hostVars, ifaceVars, Follows, Follow, Read, Told, ToldAgain
  <1> QED
    BY <1>1, <1>2 DEF initial_setup, RemovePidFile

LEMMA ConfigFollows ==
    ASSUME TypeInv, parse_config_file
    PROVE  Follows'
  <1>1. /\ stage' = "configured" /\ iface_index' = kern.index /\ out_socket' = address'
        /\ kern' = tun_add_datap_iface_addr(kern, address')
        /\ unseen' = {i \in Ifaces : \/ kern.up[i] # status'[i]
                                     \/ \E p \in Configured : p[1] = i /\ kern.addr[p] # address'[p]}
    BY Zenon DEF parse_config_file
  <1>2. SameLinks(kern, kern')
    <2>1. Kern(kern)
      BY DEF TypeInv
    <2> QED
      BY <1>1, <2>1, DaemonRequests, Zenon
  <1>3. ASSUME NEW i \in Ifaces \ unseen' PROVE Read(i)'
    <2>1. status'[i] = kern.up[i] /\ \A p \in Configured : p[1] = i => address'[p] = kern.addr[p]
      BY <1>1, <1>3
    <2>2. kern'.index = kern.index /\ kern'.up = kern.up /\ kern'.addr = kern.addr
      BY <1>2, Zenon DEF SameLinks
    <2> QED
      BY <1>1, <2>1, <2>2, Zenon DEF Read
  <1>4. stage' # "running"
    BY <1>1
  <1> QED
    BY <1>3, <1>4, Zenon DEF Follows

LEMMA DataPlaneFollows ==
    ASSUME TypeInv, Follows, datap_init
    PROVE  Follows'
  <1>1. /\ stage = "configured" /\ stage' = "ready" /\ status' = status /\ address' = address
        /\ iface_index' = iface_index /\ out_socket' = out_socket /\ unseen' = unseen
    BY DEF datap_init
  <1>2. kern'.index = kern.index /\ kern'.up = kern.up /\ kern'.addr = kern.addr
    <2>1. kern' = kern \/ kern' = tun_configure_data_plane(kern, mode)
      BY Zenon DEF datap_init
    <2>2. Kern(kern)
      BY DEF TypeInv
    <2>3. SameLinks(kern, kern')
      BY <2>1, <2>2, DaemonRequests, SameLinksSelf
    <2> QED
      BY <2>3 DEF SameLinks
  <1>3. \A i \in Ifaces \ unseen : Read(i)
    BY <1>1 DEF Follows
  <1>4. \A i \in Ifaces \ unseen' : Read(i)'
    BY <1>1, <1>2, <1>3, ZenonT(40) DEF Read
  <1>5. stage' # "running"
    BY <1>1
  <1> QED
    BY <1>4, <1>5, Zenon DEF Follows

LEMMA NetlinkFollows ==
    ASSUME TypeInv, Follows, init_netlink
    PROVE  Follows'
  <1>1. /\ stage = "ready" /\ stage' = "running" /\ status' = status /\ address' = address
        /\ iface_index' = iface_index /\ out_socket' = out_socket /\ unseen' = unseen
        /\ queue' = queue /\ queue = << >>
    BY DEF init_netlink, ifaceVars, TypeInv, Stages
  <1>2. \A p \in Pairs : kern.gw[p] # NO_ADDR /\ iface_index[p[1]] = kern.index[p[1]] =>
                            gateway'[p] = kern.gw[p]
    BY DEF init_netlink
  <1>3. SameLinks(kern, kern')
    <2>1. PICK R : kern' = tun_add_eid_prefix([kern EXCEPT !.routes = R], mode, ConfiguredEids[mode])
      BY Zenon DEF init_netlink
    <2>2. PICK k : k = [kern EXCEPT !.routes = R]
      BY Zenon
    <2>3. Kern(kern) /\ mode \in Modes
      BY DEF TypeInv, DaemonTypes
    <2>4. Kern(k) /\ SameLinks(kern, k)
      BY <2>2, <2>3 DEF Kern, SameLinks
    <2>5. SameLinks(k, kern')
      <3>1. ConfiguredEids[mode] \in SUBSET Eids
        BY <2>3, HostAssumption
      <3>2. kern' = tun_add_eid_prefix(k, mode, ConfiguredEids[mode])
        BY <2>1, <2>2, Zenon
      <3>3. Registered(k, mode, ConfiguredEids[mode], kern')
        BY <2>4, <3>1, <3>2, AddEids
      <3> QED
        BY <3>3 DEF Registered
    <2> QED
      BY <2>4, <2>5 DEF SameLinks
  <1>4. ASSUME NEW n PROVE NoneLike(queue', n)
    BY <1>1 DEF NoneLike
  <1>5. ASSUME NEW i \in Ifaces \ unseen' PROVE Follow(i)'
    <2>1. Read(i)
      BY <1>1, <1>5 DEF Follows
    <2>2. /\ kern'.index = kern.index /\ kern'.up = kern.up /\ kern'.addr = kern.addr
          /\ kern'.gw = kern.gw
      BY <1>3, Zenon DEF SameLinks
    <2>3. PICK y : y = kern'.index[i] /\ y = iface_index'[i]
      BY <1>1, <2>1, <2>2, Zenon DEF Read
    <2>4. LinkTold(queue', y, kern'.up[i], status'[i])
      BY <1>1, <1>4, <2>1, <2>2, Zenon DEF LinkTold, Read
    <2>5. ASSUME NEW p \in Configured, p[1] = i
          PROVE  AddrTold(queue', y, p[2], kern'.addr[p], address'[p], out_socket'[p])
      BY <1>1, <1>4, <2>1, <2>2, <2>5, Zenon DEF AddrTold, Read
    <2>6. ASSUME NEW afi \in Afis
          PROVE  GatewayTold(queue', y, afi, kern'.gw[<<i, afi>>], gateway'[<<i, afi>>])
      <3>1. <<i, afi>> \in Pairs /\ <<i, afi>>[1] = i
        BY PairOf
      <3>2. kern.gw[<<i, afi>>] # NO_ADDR => gateway'[<<i, afi>>] = kern.gw[<<i, afi>>]
        BY <1>2, <2>1, <3>1, Zenon DEF Read
      <3> QED
        BY <1>4, <2>2, <3>2, Zenon DEF GatewayTold
    <2>7. Told(i)'
      BY <2>3, <2>4, <2>5, <2>6, Zenon DEF Told
    <2> QED
      BY <2>3, <2>7, Zenon DEF Follow
  <1>6. stage' \notin {"configured", "ready"}
    BY <1>1
  <1> QED
    BY <1>5, <1>6, Zenon DEF Follows

LEMMA EidsFollow ==
    ASSUME TypeInv, Follows, NEW E \in SUBSET Eids, replace_eids(E)
    PROVE  Follows'
  <1>1. /\ stage = "running" /\ stage' = "running" /\ queue' = queue /\ unseen' = unseen
        /\ \A j : SameDaemon(j)
    BY DEF replace_eids, SameDaemon, ifaceVars
  <1>2. SameLinks(kern, kern')
    <2>1. PICK k : k = tun_remove_eid_prefix(kern, mode, eids)
      BY Zenon
    <2>2. Kern(kern) /\ eids \subseteq Eids
      BY DEF TypeInv, DaemonTypes
    <2>3. Kern(k) /\ SameLinks(kern, k)
      <3>1. Unregistered(kern, mode, eids, k)
        BY <2>1, <2>2, RemoveEids
      <3> QED
        BY <3>1 DEF Unregistered
    <2>4. kern' = tun_add_eid_prefix(k, mode, E)
      BY <2>1, Zenon DEF replace_eids
    <2>5. SameLinks(k, kern')
      <3>1. Registered(k, mode, E, kern')
        BY <2>3, <2>4, AddEids
      <3> QED
        BY <3>1 DEF Registered
    <2> QED
      BY <2>3, <2>5 DEF SameLinks
  <1>3. ASSUME NEW i \in Ifaces \ unseen' PROVE Follow(i)'
    <2>1. Follow(i) /\ SameDaemon(i) /\ SameKernel(i)
      BY <1>1, <1>2, <1>3, SameLinksKernel, Zenon DEF Follows
    <2>2. Quiet(iface_index[i], kern.index[i])
      BY <1>1, QuietSteps, Zenon
    <2> QED
      BY <2>1, <2>2, QuietFollows
  <1>4. stage' \notin {"configured", "ready"}
    BY <1>1
  <1> QED
    BY <1>3, <1>4, Zenon DEF Follows

LEMMA FollowsStep ==
    TypeInv /\ Follows /\ [Next]_allVars => Follows'
  <1> SUFFICES ASSUME TypeInv, Follows, [Next]_allVars PROVE Follows'
    OBVIOUS
  <1>1. CASE KernelNext
    BY <1>1, KernelFollows
  <1>2. CASE \/ \E daemonize \in BOOLEAN : initial_setup(daemonize)
             \/ RemovePidFile
             \/ UNCHANGED allVars
    BY <1>2, StartFollows
  <1>3. CASE process_netlink_msg
    <2>1. PICK m : m = Head(queue)
      BY Zenon
    <2>2. Serving(m)
      BY <1>3, <2>1, Zenon DEF process_netlink_msg, Serving
    <2>3. \/ m.type = "NEWADDR" /\ process_nl_add_address(m)
          \/ m.type = "NEWLINK" /\ process_nl_new_link(m)
          \/ m.type = "NEWROUTE" /\ process_nl_new_unicast_route(m)
      BY <1>3, <2>1, Zenon DEF process_netlink_msg
    <2> QED
      BY <2>2, <2>3, AddressFollows, LinkFollows, GatewayFollows
  <1>4. CASE stage' = "off"
    BY <1>4 DEF Follows
  <1>5. CASE exit_cleanup \/ kill \/ map_server_fails
    BY <1>4, <1>5, Zenon DEF exit_cleanup, kill, map_server_fails, Dies, Ended
  <1>6. CASE parse_config_file \/ datap_init \/ init_netlink \/ \E E \in SUBSET Eids : replace_eids(E)
    BY <1>6, ConfigFollows, DataPlaneFollows, NetlinkFollows, EidsFollow
  <1> QED
    BY <1>1, <1>2, <1>3, <1>5, <1>6, Zenon DEF Next

\* Nothing is left in the queue: what the kernel last notified is known.
LEMMA FollowsAtRest ==
    TypeInv /\ Follows => AtRestFollowsKernel
  <1> SUFFICES ASSUME TypeInv, Follows, stage = "running", queue = << >> PROVE
        /\ rlocs = set_rlocs(address)
        /\ \A i \in Ifaces \ unseen :
              /\ status[i] = kern.up[i]
              /\ \A p \in Configured : p[1] = i /\ kern.addr[p] # NO_ADDR =>
                    address[p] = kern.addr[p] /\ out_socket[p] = kern.addr[p]
              /\ \A afi \in Afis : kern.gw[<<i, afi>>] # NO_ADDR =>
                    gateway[<<i, afi>>] = kern.gw[<<i, afi>>]
    BY DEF AtRestFollowsKernel
  <1>1. rlocs = set_rlocs(address)
    BY DEF TypeInv, Stages
  <1>2. \A n : ~LastIs(queue, n)
    BY DEF LastIs
  <1>3. ASSUME NEW i \in Ifaces \ unseen
        PROVE  /\ status[i] = kern.up[i]
               /\ \A p \in Configured : p[1] = i /\ kern.addr[p] # NO_ADDR =>
                     address[p] = kern.addr[p] /\ out_socket[p] = kern.addr[p]
               /\ \A afi \in Afis : kern.gw[<<i, afi>>] # NO_ADDR =>
                     gateway[<<i, afi>>] = kern.gw[<<i, afi>>]
    <2>1. CASE Told(i)
      BY <1>2, <2>1, Zenon DEF Told, LinkTold, AddrTold, GatewayTold
    <2>2. CASE ToldAgain(i)
      BY <1>2, <2>2, Zenon DEF ToldAgain, LinkTold
    <2> QED
      BY <1>3, <2>1, <2>2, Zenon DEF Follows, Follow
  <1> QED
    BY <1>1, <1>3, Zenon

\* When every notification has been served, lispd agrees with the kernel on the
\* links, the addresses and the gateways of the interfaces it was told of, its
\* sockets are bound to those addresses and its locators are all of them,
\* whatever the kernel did before and however late process_netlink_msg served
\* it: for every set of interfaces and every number of changes.
THEOREM AtRestAlwaysFollows == Spec => []AtRestFollowsKernel
  <1>1. Init => Follows
    BY DEF Init, Follows
  <1>2. TypeInv /\ Follows /\ [Next]_allVars => Follows'
    BY FollowsStep
  <1>3. TypeInv /\ Follows => AtRestFollowsKernel
    BY FollowsAtRest
  <1> QED
    BY <1>1, <1>2, <1>3, AlwaysTypes, PTL DEF Spec

=============================================================================
