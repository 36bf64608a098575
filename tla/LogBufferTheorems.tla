-------------------------- MODULE LogBufferTheorems --------------------------
(* What is proved about the log, for any number of threads, any sizes of      *)
(* records, buffer and files, and any number of puts, faults and crashes.     *)
(*                                                                            *)
(* Base says how the region, the files and the threads belong together: the   *)
(* records fill the files without gaps, the buffer follows what is written,   *)
(* every thread in a call knows what it must, and in_flush counts.  It holds  *)
(* in every behaviour.  On it rest the types and the sync point that only     *)
(* moves forward.  Certain adds what is on the medium, and Told what the      *)
(* threads were told of it.                                                   *)
EXTENDS LogBuffer, ListTheorems, FiniteSetTheorems

-----------------------------------------------------------------------------
(* LSNs are ordered.                                                          *)
Pair == Nat \X Nat

LEMMA Order ==
  \A a, b, c \in Pair :
    /\ ~ Less(a, a)
    /\ Less(a, b) => ~ Less(b, a)
    /\ Less(a, b) /\ Less(b, c) => Less(a, c)
    /\ Less(a, b) /\ ~ Less(c, b) => Less(a, c)
    /\ ~ Less(b, a) /\ Less(b, c) => Less(a, c)
    /\ ~ Less(a, b) /\ ~ Less(b, c) => ~ Less(a, c)
    /\ ~ Less(a, b) /\ ~ Less(b, a) => a = b
<1>1. SUFFICES ASSUME NEW a \in Pair, NEW b \in Pair, NEW c \in Pair
               PROVE  /\ ~ Less(a, a)
                      /\ Less(a, b) => ~ Less(b, a)
                      /\ Less(a, b) /\ Less(b, c) => Less(a, c)
                      /\ Less(a, b) /\ ~ Less(c, b) => Less(a, c)
                      /\ ~ Less(b, a) /\ Less(b, c) => Less(a, c)
                      /\ ~ Less(a, b) /\ ~ Less(b, c) => ~ Less(a, c)
                      /\ ~ Less(a, b) /\ ~ Less(b, a) => a = b
  OBVIOUS
<1>2. /\ a[1] \in Nat /\ a[2] \in Nat /\ b[1] \in Nat /\ b[2] \in Nat
      /\ c[1] \in Nat /\ c[2] \in Nat
  BY DEF Pair
<1>3. a[1] = b[1] /\ a[2] = b[2] => a = b BY DEF Pair
<1>. QED BY <1>2, <1>3 DEF Less

(* An LSN is a pair of numbers.                                               *)
LEMMA LsnPair ==
  ASSUME NEW a \in LSN
  PROVE  /\ a \in Pair /\ a[1] \in Nat /\ a[2] \in Nat /\ a[1] \in 1..Files
         /\ a[2] \in 0..LogSize /\ a = <<a[1], a[2]>>
BY LogBufferAssumption DEF LSN, Pair

-----------------------------------------------------------------------------
(* The fields of LOG, l, and the records of the log.                          *)
LogFields ==
  [lsn : LSN, s_lsn : LSN, t_lsn : LSN, f_lsn : (0..Files) \X (0..LogSize),
   len : 1..LogSize, b_off : 0..(BufferSize - 1), w_off : 0..LogSize, in_flush : Int]

EndOf(r) == r.lsn[2] + r.size

(* The records of a file lie one after the other from its start, and those of *)
(* the current file end where the next one will be put.                       *)
Placed(l, records) ==
  /\ \A r \in records :
       /\ r.lsn[1] < l.lsn[1] \/ (r.lsn[1] = l.lsn[1] /\ EndOf(r) <= l.lsn[2])
       /\ EndOf(r) <= LogSize
       /\ r.lsn[2] = 0 => r = Header(r.lsn[1])
       /\ \A o \in Offset : o < r.lsn[2] => \E s \in records : Covers(s, r.lsn[1], o)
  /\ \A r, s \in records :
       r.lsn[1] = s.lsn[1] /\ r.lsn[2] < EndOf(s) /\ s.lsn[2] < EndOf(r) => r = s
  /\ \A o \in Offset : o < l.lsn[2] => \E s \in records : Covers(s, l.lsn[1], o)
  /\ Header(1) \in records

(* All before this LSN is in the files.                                       *)
Safe(l) == IF l.b_off = 0 THEN l.lsn ELSE l.f_lsn

(* The buffer follows what is written, f_lsn is the record that owns its      *)
(* first unit, and the sync point is not beyond what is in the files; files   *)
(* that are done with are synced.                                             *)
Buffered(l, records) ==
  /\ l.w_off + l.b_off = l.lsn[2]
  /\ l.b_off # 0 => \E r \in records : r.lsn = l.f_lsn /\ Covers(r, l.lsn[1], l.w_off)
  /\ ~ Less(Safe(l), l.s_lsn)
  /\ \A r \in records : r.lsn[1] < l.lsn[1] => Less(r.lsn, l.s_lsn)
  /\ Less(l.t_lsn, l.lsn)

(* f_lsn is of the current file, unless nothing was put since recovery.       *)
FileKnown(l) == l.f_lsn[1] = l.lsn[1] \/ l.s_lsn = l.lsn

LastIs(l, records) == \E r \in records : r.lsn = LastRecord(l) /\ r.size = l.len

LogOK(l, records) ==
  Placed(l, records) /\ Buffered(l, records) /\ FileKnown(l) /\ LastIs(l, records)

(* What the fields of a record are.                                           *)
LEMMA RecordFields ==
  ASSUME NEW r \in Record
  PROVE  /\ r.id \in Nat /\ r.lsn \in LSN /\ r.lsn \in Pair /\ r.lsn[1] \in Nat
         /\ r.lsn[2] \in Nat /\ r.size \in Nat /\ r.size >= 1 /\ r.size <= LogSize
         /\ EndOf(r) \in Nat /\ r.lsn = <<r.lsn[1], r.lsn[2]>>
<1>1. r.id \in Nat /\ r.lsn \in LSN /\ r.size \in 1..LogSize BY DEF Record
<1>. QED BY <1>1, LsnPair, LogBufferAssumption DEF EndOf

LEMMA LogFieldTypes ==
  ASSUME NEW l \in LogFields
  PROVE  /\ l.lsn \in LSN /\ l.lsn \in Pair /\ l.lsn[1] \in Nat /\ l.lsn[2] \in Nat
         /\ l.lsn = <<l.lsn[1], l.lsn[2]>>
         /\ l.s_lsn \in Pair /\ l.t_lsn \in Pair /\ l.f_lsn \in Pair /\ Safe(l) \in Pair
         /\ l.b_off \in Nat /\ l.b_off < BufferSize /\ l.w_off \in Nat /\ l.len \in Nat
<1>1. l.lsn \in LSN /\ l.s_lsn \in LSN /\ l.t_lsn \in LSN BY DEF LogFields
<1>2. l.f_lsn \in Pair BY LogBufferAssumption DEF LogFields, Pair
<1>3. l.b_off \in Nat /\ l.b_off < BufferSize /\ l.w_off \in Nat /\ l.len \in Nat
  BY LogBufferAssumption DEF LogFields
<1>. QED BY <1>1, <1>2, <1>3, LsnPair DEF Safe

(* No two records of the log share an LSN.                                    *)
LEMMA LsnsUnique ==
  ASSUME NEW l, NEW records \in SUBSET Record, Placed(l, records),
         NEW r \in records, NEW s \in records, r.lsn = s.lsn
  PROVE  r = s
<1>1. r.size \in Nat /\ r.size >= 1 /\ r.lsn[2] \in Nat BY RecordFields
<1>2. s.size \in Nat /\ s.size >= 1 /\ s.lsn[2] \in Nat BY RecordFields
<1>. QED BY <1>1, <1>2 DEF Placed, EndOf

(* What is left in the buffer after n units.                                  *)
LEMMA Remainder ==
  ASSUME NEW a \in Nat
  PROVE  /\ a % BufferSize \in Nat /\ a % BufferSize < BufferSize
         /\ a < BufferSize => a % BufferSize = a
         /\ a >= BufferSize => a % BufferSize <= a - BufferSize
<1>1. BufferSize \in Nat /\ BufferSize > 0 BY LogBufferAssumption
<1>. QED BY <1>1, Z3

(* __log_fill appends a record.                                               *)
LEMMA FillKeeps ==
  ASSUME NEW l \in LogFields, NEW records \in SUBSET Record,
         Placed(l, records), Buffered(l, records),
         NEW r \in Record, r.lsn = l.lsn, EndOf(r) <= LogSize,
         r.lsn[2] = 0 => r = Header(r.lsn[1])
  PROVE  /\ Fill(l, r.size) \in LogFields
         /\ LogOK(Fill(l, r.size), records \cup {r})
         /\ ~ Less(Safe(Fill(l, r.size)), Safe(l))
         /\ Less(l.lsn, Fill(l, r.size).lsn)
         /\ Fill(l, r.size).lsn = <<l.lsn[1], l.lsn[2] + r.size>>
         /\ Fill(l, r.size).f_lsn[1] = l.lsn[1]
         /\ Fill(l, r.size).s_lsn = l.s_lsn /\ Fill(l, r.size).t_lsn = l.t_lsn
         /\ Fill(l, r.size).in_flush = l.in_flush
<1>. DEFINE all == records \cup {r}
<1>0. PICK m : m = Fill(l, r.size) OBVIOUS
<1>1. /\ l.lsn \in LSN /\ l.lsn \in Pair /\ l.lsn[1] \in Nat /\ l.lsn[2] \in Nat
      /\ l.s_lsn \in Pair /\ l.t_lsn \in Pair /\ l.f_lsn \in Pair /\ Safe(l) \in Pair
      /\ l.b_off \in Nat /\ l.b_off < BufferSize /\ l.w_off \in Nat
  BY LogFieldTypes
<1>2. r.size \in Nat /\ r.size >= 1 /\ r.size <= LogSize /\ EndOf(r) = l.lsn[2] + r.size
  BY RecordFields DEF EndOf
<1>3. PICK a : a = l.b_off + r.size OBVIOUS
<1>4. a \in Nat BY <1>1, <1>2, <1>3
<1>5. PICK left : left = a % BufferSize OBVIOUS
<1>6. /\ left \in Nat /\ left < BufferSize
      /\ a < BufferSize => left = a
      /\ a >= BufferSize => left <= a - BufferSize
  BY <1>4, <1>5, Remainder
<1>7. /\ m.lsn = <<l.lsn[1], l.lsn[2] + r.size>> /\ m.len = r.size
      /\ m.s_lsn = l.s_lsn /\ m.t_lsn = l.t_lsn /\ m.in_flush = l.in_flush
      /\ m.b_off = left /\ m.w_off = l.w_off + (a - left)
      /\ m.f_lsn = IF l.b_off = 0 \/ a > BufferSize THEN l.lsn ELSE l.f_lsn
  <2>1. /\ m.lsn = <<l.lsn[1], l.lsn[2] + r.size>> /\ m.len = r.size
        /\ m.s_lsn = l.s_lsn /\ m.t_lsn = l.t_lsn /\ m.in_flush = l.in_flush
        /\ m.f_lsn = IF l.b_off = 0 \/ l.b_off + r.size > BufferSize THEN l.lsn ELSE l.f_lsn
    BY <1>0 DEF Fill, LogFields
  <2>2. /\ m.b_off = (l.b_off + r.size) % BufferSize
        /\ m.w_off = l.w_off + (l.b_off + r.size - ((l.b_off + r.size) % BufferSize))
    BY <1>0 DEF Fill, LogFields
  <2>3. (l.b_off + r.size) % BufferSize = left BY <1>3, <1>5, Zenon
  <2>4. m.b_off = left /\ m.w_off = l.w_off + (l.b_off + r.size - left) BY <2>2, <2>3, Zenon
  <2>. QED BY <1>1, <1>2, <1>3, <1>4, <1>6, <2>1, <2>4, LogBufferAssumption
<1>8. l.w_off + l.b_off = l.lsn[2] BY DEF Buffered
<1>9. m.w_off + m.b_off = m.lsn[2] /\ m.lsn[2] = EndOf(r) /\ m.w_off \in Nat /\ m.lsn[1] = l.lsn[1]
  <2>1. m.lsn[2] = l.lsn[2] + r.size /\ m.lsn[1] = l.lsn[1] BY <1>7
  <2>2. a - left \in Nat BY <1>4, <1>6, LogBufferAssumption
  <2>. QED BY <1>1, <1>2, <1>3, <1>4, <1>6, <1>7, <1>8, <2>1, <2>2
<1>10. m \in LogFields
  <2>1. m.lsn \in LSN /\ l.lsn \in (0..Files) \X (0..LogSize)
    BY <1>1, <1>2, <1>7, LogBufferAssumption DEF LSN
  <2>2. m.w_off \in 0..LogSize /\ m.b_off \in 0..(BufferSize - 1) /\ m.len \in 1..LogSize
    BY <1>1, <1>2, <1>6, <1>7, <1>9, LogBufferAssumption
  <2>3. m.f_lsn \in (0..Files) \X (0..LogSize) BY <1>7, <2>1 DEF LogFields
  <2>4. m.lsn[2] = l.lsn[2] + r.size /\ r.size \in 1..LogSize
    BY <1>7, <2>2
  <2>5. <<l.lsn[1], l.lsn[2] + r.size>> \in LSN BY <1>7, <2>1
  <2>6. (l.b_off + r.size) % BufferSize = left BY <1>3, <1>5, Zenon
  <2>7. (l.b_off + r.size) % BufferSize \in 0..(BufferSize - 1) BY <1>7, <2>2, <2>6, Zenon
  <2>8. l.w_off + (l.b_off + r.size - ((l.b_off + r.size) % BufferSize)) \in 0..LogSize
    <3>1. PICK x : x = (l.b_off + r.size) % BufferSize OBVIOUS
    <3>2. l.w_off + (l.b_off + r.size - x) \in 0..LogSize
      <4>1. x = left BY <2>6, <3>1, Zenon
      <4>. QED BY <1>1, <1>2, <1>3, <1>4, <1>6, <1>7, <2>2, <4>1
    <3>. QED BY <3>1, <3>2, Zenon
  <2>9. (IF l.b_off = 0 \/ l.b_off + r.size > BufferSize THEN l.lsn ELSE l.f_lsn)
          \in (0..Files) \X (0..LogSize)
    BY <1>3, <1>7, <2>3, Zenon
  <2>. QED BY <1>0, <2>4, <2>5, <2>7, <2>8, <2>9 DEF Fill, LogFields
<1>11. m.lsn \in Pair /\ Less(l.lsn, m.lsn)
  BY <1>1, <1>2, <1>7, <1>9 DEF Less, Pair
<1>12. l.b_off # 0 => l.f_lsn[1] = l.lsn[1] /\ ~ Less(l.lsn, l.f_lsn)
  <2>1. SUFFICES ASSUME l.b_off # 0 PROVE l.f_lsn[1] = l.lsn[1] /\ ~ Less(l.lsn, l.f_lsn) OBVIOUS
  <2>2. PICK s \in records : s.lsn = l.f_lsn /\ Covers(s, l.lsn[1], l.w_off)
    BY <2>1 DEF Buffered
  <2>3. s.lsn[2] \in Nat /\ s.lsn[2] <= l.w_off /\ s.lsn[1] = l.lsn[1] /\ s.lsn[1] \in Nat
    BY <2>2, RecordFields DEF Covers
  <2>. QED BY <1>1, <1>8, <2>2, <2>3 DEF Less
<1>13. m.f_lsn[1] = l.lsn[1] BY <1>7, <1>12
<1>14. m.b_off # 0 => \E s \in all : s.lsn = m.f_lsn /\ Covers(s, m.lsn[1], m.w_off)
  <2>1. SUFFICES ASSUME m.b_off # 0
                 PROVE \E s \in all : s.lsn = m.f_lsn /\ Covers(s, m.lsn[1], m.w_off)
    OBVIOUS
  <2>2. CASE l.b_off = 0 \/ a > BufferSize
    <3>1. l.lsn[2] = l.w_off + l.b_off /\ EndOf(r) = m.w_off + left /\ left > 0
      BY <1>6, <1>7, <1>8, <1>9, <2>1
    <3>2. a - left >= l.b_off
      <4>1. CASE l.b_off = 0 BY <1>1, <1>3, <1>4, <1>6, <4>1, LogBufferAssumption
      <4>2. CASE a > BufferSize BY <1>1, <1>4, <1>6, <4>2, LogBufferAssumption
      <4>. QED BY <2>2, <4>1, <4>2
    <3>3. m.w_off >= l.lsn[2] /\ m.w_off < EndOf(r)
      BY <1>1, <1>4, <1>6, <1>7, <1>9, <3>1, <3>2
    <3>. QED BY <1>7, <1>9, <2>2, <3>3 DEF Covers, EndOf
  <2>3. CASE l.b_off # 0 /\ ~ a > BufferSize
    <3>1. m.w_off = l.w_off
      BY <1>1, <1>2, <1>3, <1>4, <1>6, <1>7, <1>8, <2>1, <2>3, LogBufferAssumption
    <3>. QED BY <1>7, <1>9, <2>3, <3>1 DEF Buffered
  <2>. QED BY <2>2, <2>3
<1>15. Safe(m) \in Pair /\ ~ Less(Safe(m), Safe(l))
  <2>1. Safe(m) \in Pair BY <1>10, LogFieldTypes
  <2>2. Safe(m) \in {m.lsn, l.lsn, l.f_lsn}
        /\ (Safe(m) = l.f_lsn => Safe(l) = l.f_lsn \/ Safe(m) \in {m.lsn, l.lsn})
    BY <1>7 DEF Safe
  <2>3. Safe(l) \in {l.lsn, l.f_lsn} /\ ~ Less(l.lsn, Safe(l)) BY <1>1, <1>12, Order DEF Safe
  <2>4. ~ Less(m.lsn, Safe(l)) BY <1>1, <1>11, <2>3, Order
  <2>. QED BY <1>1, <2>1, <2>2, <2>3, <2>4, Order
<1>16. ~ Less(Safe(m), l.s_lsn) BY <1>1, <1>15, Order DEF Buffered
<1>17. Placed(m, all)
  <2>1. \A s \in all :
          /\ s.lsn[1] < m.lsn[1] \/ (s.lsn[1] = m.lsn[1] /\ EndOf(s) <= m.lsn[2])
          /\ EndOf(s) <= LogSize
          /\ s.lsn[2] = 0 => s = Header(s.lsn[1])
          /\ \A o \in Offset : o < s.lsn[2] => \E q \in all : Covers(q, s.lsn[1], o)
    <3>1. TAKE s \in all
    <3>2. CASE s = r
      BY <1>1, <1>2, <1>9, <3>2 DEF Placed
    <3>3. CASE s \in records
      <4>1. EndOf(s) \in Nat BY <3>3, RecordFields
      <4>2. s.lsn[1] = l.lsn[1] => EndOf(s) <= m.lsn[2]
        BY <1>1, <1>2, <1>9, <3>3, <4>1 DEF Placed
      <4>. QED BY <1>9, <3>3, <4>2 DEF Placed
    <3>. QED BY <3>2, <3>3
  <2>2. \A s, q \in all :
          s.lsn[1] = q.lsn[1] /\ s.lsn[2] < EndOf(q) /\ q.lsn[2] < EndOf(s) => s = q
    <3>1. \A s \in records : s.lsn[1] = l.lsn[1] => ~ r.lsn[2] < EndOf(s)
      BY <1>1, RecordFields DEF Placed
    <3>. QED BY <3>1 DEF Placed
  <2>3. \A o \in Offset : o < m.lsn[2] => \E s \in all : Covers(s, m.lsn[1], o)
    <3>1. TAKE o \in Offset
    <3>2. HAVE o < m.lsn[2]
    <3>3. o \in Nat BY <3>1, LogBufferAssumption DEF Offset
    <3>4. CASE o < l.lsn[2] BY <1>9, <3>4 DEF Placed
    <3>5. CASE ~ o < l.lsn[2] BY <1>1, <1>9, <3>2, <3>3, <3>5 DEF Covers, EndOf
    <3>. QED BY <3>4, <3>5
  <2>. QED BY <2>1, <2>2, <2>3 DEF Placed
<1>18. Buffered(m, all)
  <2>1. \A s \in all : s.lsn[1] < m.lsn[1] => Less(s.lsn, m.s_lsn)
    BY <1>1, <1>7, <1>9 DEF Buffered
  <2>2. Less(m.t_lsn, m.lsn)
    BY <1>1, <1>7, <1>11, Order DEF Buffered
  <2>. QED BY <1>7, <1>9, <1>14, <1>16, <2>1, <2>2 DEF Buffered
<1>19. LastIs(m, all)
  <2>1. LastRecord(m) = <<l.lsn[1], l.lsn[2]>> BY <1>1, <1>2, <1>7, <1>9 DEF LastRecord
  <2>. QED BY <1>1, <1>7, <2>1, LsnPair DEF LastIs
<1>20. FileKnown(m) BY <1>9, <1>13 DEF FileKnown
<1>. QED BY <1>7, <1>10, <1>11, <1>13, <1>15, <1>17, <1>18, <1>19, <1>20, <1>0 DEF LogOK

(* Writing the buffer changes nothing but what is in the files.               *)
LEMMA DrainKeeps ==
  ASSUME NEW l \in LogFields, NEW records \in SUBSET Record, LogOK(l, records)
  PROVE  /\ DrainBuffer(l) \in LogFields
         /\ LogOK(DrainBuffer(l), records)
         /\ ~ Less(Safe(DrainBuffer(l)), Safe(l)) /\ Safe(DrainBuffer(l)) = l.lsn
         /\ DrainBuffer(l).w_off = l.lsn[2]
         /\ \A field \in {"lsn", "s_lsn", "t_lsn", "f_lsn", "len", "in_flush"} :
              DrainBuffer(l)[field] = l[field]
<1>. DEFINE m == DrainBuffer(l)
<1>1. /\ l.lsn \in LSN /\ l.lsn \in Pair /\ l.lsn[1] \in Nat /\ l.lsn[2] \in Nat
      /\ l.s_lsn \in Pair /\ l.t_lsn \in Pair /\ l.f_lsn \in Pair /\ Safe(l) \in Pair
      /\ l.b_off \in Nat /\ l.b_off < BufferSize /\ l.w_off \in Nat
  BY LogFieldTypes
<1>2. l.w_off + l.b_off = l.lsn[2] BY DEF LogOK, Buffered
<1>3. /\ m.lsn = l.lsn /\ m.s_lsn = l.s_lsn /\ m.t_lsn = l.t_lsn /\ m.f_lsn = l.f_lsn
      /\ m.len = l.len /\ m.in_flush = l.in_flush
      /\ m.b_off = 0 /\ m.w_off = l.lsn[2]
  BY <1>2 DEF DrainBuffer, LogFields
<1>4. m \in LogFields
  <2>1. l.lsn[2] \in 0..LogSize /\ 0 \in 0..(BufferSize - 1)
    BY <1>1, LsnPair, LogBufferAssumption
  <2>2. m = [l EXCEPT !.w_off = l.lsn[2], !.b_off = 0] BY <1>2 DEF DrainBuffer, LogFields
  <2>. QED BY <2>1, <2>2 DEF LogFields
<1>5. Safe(m) = l.lsn BY <1>3 DEF Safe
<1>6. ~ Less(l.lsn, Safe(l))
  <2>1. CASE l.b_off = 0 BY <1>1, <2>1, Order DEF Safe
  <2>2. CASE l.b_off # 0
    <3>1. PICK s \in records : s.lsn = l.f_lsn /\ Covers(s, l.lsn[1], l.w_off)
      BY <2>2 DEF LogOK, Buffered
    <3>2. s.lsn[2] \in Nat /\ s.lsn[2] <= l.w_off /\ s.lsn[1] = l.lsn[1] /\ s.lsn[1] \in Nat
      BY <3>1, RecordFields DEF Covers
    <3>. QED BY <1>1, <1>2, <2>2, <3>1, <3>2 DEF Less, Safe
  <2>. QED BY <2>1, <2>2
<1>. HIDE DEF m
<1>7. Placed(m, records) BY <1>3 DEF LogOK, Placed
<1>8. Buffered(m, records)
  <2>1. ~ Less(l.lsn, l.s_lsn) BY <1>1, <1>6, Order DEF LogOK, Buffered
  <2>2. m.w_off + m.b_off = m.lsn[2] BY <1>1, <1>3
  <2>. QED BY <1>3, <1>5, <2>1, <2>2 DEF LogOK, Buffered
<1>9. FileKnown(m) /\ LastIs(m, records)
  BY <1>3 DEF LogOK, FileKnown, LastIs, LastRecord
<1>. QED BY <1>3, <1>4, <1>5, <1>6, <1>7, <1>8, <1>9 DEF LogOK, m

(* Every record of the log is before its end, and none is behind the last.    *)
LEMMA RecordsBefore ==
  ASSUME NEW l \in LogFields, NEW records \in SUBSET Record, Placed(l, records),
         NEW r \in records
  PROVE  Less(r.lsn, l.lsn)
<1>1. r.lsn[1] \in Nat /\ r.lsn[2] \in Nat /\ r.size \in Nat /\ r.size >= 1 BY RecordFields
<1>2. l.lsn[1] \in Nat /\ l.lsn[2] \in Nat BY LogFieldTypes
<1>. QED BY <1>1, <1>2 DEF Placed, EndOf, Less

LEMMA LastIsLast ==
  ASSUME NEW l \in LogFields, NEW records \in SUBSET Record, LogOK(l, records)
  PROVE  /\ LastRecord(l) \in LSN /\ Less(LastRecord(l), l.lsn)
         /\ \A r \in records : ~ Less(LastRecord(l), r.lsn)
<1>1. PICK q \in records : q.lsn = LastRecord(l) /\ q.size = l.len BY DEF LogOK, LastIs
<1>2. /\ q.lsn \in LSN /\ q.lsn[1] \in Nat /\ q.lsn[2] \in Nat /\ q.size \in Nat /\ q.size >= 1
      /\ q \in Record
  BY RecordFields
<1>3. l.lsn[1] \in Nat /\ l.lsn[2] \in Nat /\ l.lsn \in Pair /\ l.len \in Nat BY LogFieldTypes
<1>4. q.lsn[1] = l.lsn[1] /\ q.lsn[2] = l.lsn[2] - l.len BY <1>1 DEF LastRecord
<1>5. Less(q.lsn, l.lsn) BY RecordsBefore DEF LogOK
<1>6. \A r \in records : ~ Less(q.lsn, r.lsn)
  <2>1. TAKE r \in records
  <2>2. r.lsn[1] \in Nat /\ r.lsn[2] \in Nat /\ r.size \in Nat /\ r.size >= 1 BY RecordFields
  <2>3. SUFFICES ASSUME Less(q.lsn, r.lsn) PROVE FALSE OBVIOUS
  <2>4. r.lsn[1] = l.lsn[1] /\ EndOf(r) <= l.lsn[2] /\ q.lsn[2] < r.lsn[2]
    BY <1>2, <1>3, <1>4, <2>2, <2>3 DEF LogOK, Placed, Less
  <2>5. EndOf(q) = l.lsn[2] BY <1>1, <1>2, <1>3, <1>4 DEF EndOf
  <2>6. r = q BY <1>2, <1>3, <1>4, <2>2, <2>4, <2>5 DEF LogOK, Placed, EndOf
  <2>. QED BY <2>4, <2>6, <1>2
<1>. QED BY <1>1, <1>2, <1>5, <1>6

(* When its last record is synced the buffer is empty, and __log_newfile may  *)
(* start the next file.                                                       *)
LEMMA NewFileKeeps ==
  ASSUME NEW l \in LogFields, NEW records \in SUBSET Record, LogOK(l, records),
         Less(LastRecord(l), l.s_lsn), l.lsn[1] < Files
  PROVE  LET h == Header(l.lsn[1] + 1) IN
         /\ l.b_off = 0 /\ l.w_off = l.lsn[2]
         /\ h \in Record /\ NewFile(l) \in LogFields
         /\ LogOK(NewFile(l), records \cup {h})
         /\ ~ Less(Safe(NewFile(l)), Safe(l))
         /\ Less(l.lsn, NewFile(l).lsn)
         /\ NewFile(l).lsn = <<l.lsn[1] + 1, 1>>
         /\ NewFile(l).f_lsn[1] = l.lsn[1] + 1
         /\ NewFile(l).s_lsn = l.s_lsn /\ NewFile(l).t_lsn = l.t_lsn
         /\ NewFile(l).in_flush = l.in_flush
<1>. DEFINE h == Header(l.lsn[1] + 1)
<1>0. PICK m : m = [l EXCEPT !.lsn = <<@[1] + 1, 0>>, !.w_off = 0] OBVIOUS
<1>1. /\ l.lsn \in LSN /\ l.lsn \in Pair /\ l.lsn[1] \in Nat /\ l.lsn[2] \in Nat
      /\ l.s_lsn \in Pair /\ l.t_lsn \in Pair /\ l.f_lsn \in Pair /\ Safe(l) \in Pair
      /\ l.b_off \in Nat /\ l.b_off < BufferSize /\ l.w_off \in Nat
  BY LogFieldTypes
<1>2. /\ LastRecord(l) \in LSN /\ LastRecord(l) \in Pair
      /\ \A r \in records : ~ Less(LastRecord(l), r.lsn) /\ r.lsn \in Pair
  BY LastIsLast, LsnPair, RecordFields
<1>3. l.b_off = 0
  <2>1. SUFFICES ASSUME l.b_off # 0 PROVE FALSE OBVIOUS
  <2>2. \E r \in records : r.lsn = Safe(l) BY <2>1 DEF LogOK, Buffered, Safe
  <2>3. ~ Less(LastRecord(l), Safe(l)) BY <1>2, <2>2
  <2>4. ~ Less(Safe(l), l.s_lsn) BY DEF LogOK, Buffered
  <2>. QED BY <1>1, <1>2, <2>3, <2>4, Order
<1>4. l.w_off = l.lsn[2] BY <1>1, <1>3 DEF LogOK, Buffered
<1>5. h \in Record /\ h.lsn = <<l.lsn[1] + 1, 0>> /\ h.size = 1 /\ EndOf(h) = 1
  BY <1>1, LogBufferAssumption DEF Header, Record, LSN, EndOf
<1>6. /\ m.lsn = h.lsn /\ m.w_off = 0 /\ m.b_off = 0 /\ m.s_lsn = l.s_lsn /\ m.t_lsn = l.t_lsn
      /\ m.in_flush = l.in_flush
  BY <1>0, <1>3, <1>5 DEF LogFields
<1>7. m \in LogFields
  <2>1. <<l.lsn[1] + 1, 0>> \in LSN BY <1>1, LogBufferAssumption DEF LSN
  <2>2. 0 \in 0..LogSize BY LogBufferAssumption
  <2>. QED BY <1>0, <2>1, <2>2 DEF LogFields
<1>8. m.lsn \in Pair /\ m.lsn[1] = l.lsn[1] + 1 /\ m.lsn[2] = 0 /\ Less(l.lsn, m.lsn)
  BY <1>1, <1>5, <1>6 DEF Pair, Less
<1>9. Placed(m, records)
  <2>1. \A r \in records : r.lsn[1] < m.lsn[1]
    BY <1>1, <1>8, RecordFields DEF LogOK, Placed
  <2>2. \A o \in Offset : ~ o < m.lsn[2] BY <1>8, LogBufferAssumption DEF Offset
  <2>. QED BY <2>1, <2>2 DEF LogOK, Placed
<1>10. Safe(m) = m.lsn /\ Safe(l) = l.lsn BY <1>3, <1>6 DEF Safe
<1>11. Buffered(m, records)
  <2>1. \A r \in records : Less(r.lsn, m.s_lsn) BY <1>1, <1>2, <1>6, Order
  <2>2. Less(m.t_lsn, m.lsn) BY <1>1, <1>6, <1>8, Order DEF LogOK, Buffered
  <2>3. ~ Less(Safe(m), m.s_lsn)
    BY <1>1, <1>6, <1>8, <1>10, Order DEF LogOK, Buffered
  <2>4. m.w_off + m.b_off = m.lsn[2] BY <1>6, <1>8
  <2>. QED BY <1>6, <2>1, <2>2, <2>3, <2>4 DEF Buffered
<1>12. NewFile(l) = Fill(m, h.size) BY <1>0, <1>5 DEF NewFile
<1>13. /\ h.lsn[2] = 0 => h = Header(h.lsn[1])
       /\ EndOf(h) <= LogSize
  BY <1>5, LogBufferAssumption
<1>. HIDE DEF h
<1>14. /\ NewFile(l) \in LogFields /\ LogOK(NewFile(l), records \cup {h})
       /\ ~ Less(Safe(NewFile(l)), Safe(m)) /\ Less(m.lsn, NewFile(l).lsn)
       /\ NewFile(l).lsn = <<m.lsn[1], m.lsn[2] + h.size>>
       /\ NewFile(l).f_lsn[1] = m.lsn[1]
       /\ NewFile(l).s_lsn = m.s_lsn /\ NewFile(l).t_lsn = m.t_lsn
       /\ NewFile(l).in_flush = m.in_flush
  BY <1>5, <1>6, <1>7, <1>9, <1>11, <1>12, <1>13, FillKeeps
<1>15. NewFile(l).lsn \in Pair /\ Safe(NewFile(l)) \in Pair BY <1>14, LogFieldTypes
<1>16. ~ Less(Safe(NewFile(l)), Safe(l)) /\ Less(l.lsn, NewFile(l).lsn)
  BY <1>1, <1>8, <1>10, <1>14, <1>15, Order
<1>. QED BY <1>3, <1>4, <1>5, <1>6, <1>8, <1>14, <1>16 DEF h

(* A record that becomes an abort stays where it is.                          *)
LEMMA AbortKeeps ==
  ASSUME NEW l \in LogFields, NEW records \in SUBSET Record, LogOK(l, records),
         NEW r \in records, r.lsn[2] # 0, NEW q \in Record, q.lsn = r.lsn, q.size = r.size
  PROVE  LogOK(l, (records \ {r}) \cup {q})
<1>. DEFINE new == (records \ {r}) \cup {q}
<1>1. EndOf(q) = EndOf(r) BY DEF EndOf
<1>2. \A f, o : Covers(r, f, o) <=> Covers(q, f, o) BY DEF Covers
<1>3. r.size \in Nat /\ r.size >= 1 /\ r.lsn[2] \in Nat /\ r.lsn[1] \in Nat BY RecordFields
<1>4. \A f, o : (\E s \in records : Covers(s, f, o)) => \E s \in new : Covers(s, f, o)
  BY <1>2
<1>5. Placed(l, new)
  <2>1. \A s \in new : \E p \in records : /\ s.lsn = p.lsn /\ s.size = p.size
                                          /\ (s = p \/ (s = q /\ p = r))
    OBVIOUS
  <2>2. \A s \in new :
          /\ s.lsn[1] < l.lsn[1] \/ (s.lsn[1] = l.lsn[1] /\ EndOf(s) <= l.lsn[2])
          /\ EndOf(s) <= LogSize
          /\ s.lsn[2] = 0 => s = Header(s.lsn[1])
          /\ \A o \in Offset : o < s.lsn[2] => \E p \in new : Covers(p, s.lsn[1], o)
    <3>1. TAKE s \in new
    <3>2. PICK p \in records : s.lsn = p.lsn /\ s.size = p.size /\ (s = p \/ (s = q /\ p = r))
      BY <2>1
    <3>3. EndOf(s) = EndOf(p) BY <3>2 DEF EndOf
    <3>. QED BY <1>4, <3>2, <3>3 DEF LogOK, Placed
  <2>3. \A s, p \in new :
          s.lsn[1] = p.lsn[1] /\ s.lsn[2] < EndOf(p) /\ p.lsn[2] < EndOf(s) => s = p
    <3>1. TAKE s, p \in new
    <3>2. PICK s0 \in records : s.lsn = s0.lsn /\ s.size = s0.size /\ (s = s0 \/ (s = q /\ s0 = r))
      BY <2>1
    <3>3. PICK p0 \in records : p.lsn = p0.lsn /\ p.size = p0.size /\ (p = p0 \/ (p = q /\ p0 = r))
      BY <2>1
    <3>4. EndOf(s) = EndOf(s0) /\ EndOf(p) = EndOf(p0) BY <3>2, <3>3 DEF EndOf
    <3>5. s.lsn[1] = p.lsn[1] /\ s.lsn[2] < EndOf(p) /\ p.lsn[2] < EndOf(s) => s0 = p0
      BY <3>2, <3>3, <3>4 DEF LogOK, Placed
    <3>6. s0 = p0 => s = p
      BY <3>2, <3>3
    <3>. QED BY <3>5, <3>6
  <2>4. \A o \in Offset : o < l.lsn[2] => \E s \in new : Covers(s, l.lsn[1], o)
    BY <1>4 DEF LogOK, Placed
  <2>5. Header(1) \in new BY DEF LogOK, Placed, Header
  <2>. HIDE DEF new
  <2>. QED BY <2>2, <2>3, <2>4, <2>5 DEF Placed
<1>6. Buffered(l, new)
  <2>1. l.b_off # 0 => \E s \in new : s.lsn = l.f_lsn /\ Covers(s, l.lsn[1], l.w_off)
    BY <1>2 DEF LogOK, Buffered
  <2>2. \A s \in new : s.lsn[1] < l.lsn[1] => Less(s.lsn, l.s_lsn)
    BY DEF LogOK, Buffered
  <2>. QED BY <2>1, <2>2 DEF LogOK, Buffered
<1>7. LastIs(l, new) BY DEF LogOK, LastIs
<1>. QED BY <1>5, <1>6, <1>7 DEF LogOK

-----------------------------------------------------------------------------
(* The files.                                                                 *)

(* What is in a file belongs there, and the first file has its header.        *)
FileOK(file, f) ==
  /\ \A o \in Offset :
       file[o] # Zero =>
         /\ file[o] \in Record \X Nat
         /\ file[o][2] < file[o][1].size
         /\ file[o][1].lsn = <<f, o - file[o][2]>>
         /\ EndOf(file[o][1]) <= LogSize
         /\ file[o][1].lsn[2] = 0 => file[o][1] = Header(f)
  /\ f = 1 => file[0] = <<Header(1), 0>>

ImageOK(image) ==
  image \in [1..Files -> [Offset -> Unit]] /\ \A f \in 1..Files : FileOK(image[f], f)

(* All that has left the buffer is written.                                   *)
WrittenOK(image, l, records) ==
  \A r \in records, k \in Offset :
    k < r.size /\ (r.lsn[1] < l.lsn[1] \/ r.lsn[2] + k < l.w_off)
      => image[r.lsn[1]][r.lsn[2] + k] = <<r, k>>

(* The record that owns a unit is found.                                      *)
LEMMA UnitFound ==
  ASSUME NEW l, NEW records \in SUBSET Record, Placed(l, records),
         NEW r \in records, NEW o \in Nat, Covers(r, r.lsn[1], o)
  PROVE  UnitAt(records, r.lsn[1], o) = <<r, o - r.lsn[2]>>
<1>. DEFINE q == CHOOSE q \in records : Covers(q, r.lsn[1], o)
<1>1. q \in records /\ Covers(q, r.lsn[1], o) OBVIOUS
<1>2. r.lsn[2] \in Nat /\ r.size \in Nat BY RecordFields
<1>3. q.lsn[2] \in Nat /\ q.size \in Nat BY <1>1, RecordFields
<1>4. q.lsn[1] = r.lsn[1] /\ q.lsn[2] < EndOf(r) /\ r.lsn[2] < EndOf(q)
  BY <1>1, <1>2, <1>3 DEF Covers, EndOf
<1>5. q = r BY <1>1, <1>4 DEF Placed
<1>. QED BY <1>5, Zenon DEF UnitAt

(* __log_write of the part of the current file that is not written yet, or    *)
(* of a record that changed.                                                  *)
LEMMA WriteKeeps ==
  ASSUME ImageOK(written), NEW l \in LogFields, NEW records \in SUBSET Record,
         Placed(l, records), NEW from \in Nat, NEW to \in Nat, to <= l.lsn[2],
         \A r \in records, k \in Offset :
           (/\ k < r.size /\ (r.lsn[1] < l.lsn[1] \/ r.lsn[2] + k < l.w_off)
            /\ ~ (r.lsn[1] = l.lsn[1] /\ from <= r.lsn[2] + k /\ r.lsn[2] + k < to))
             => written[r.lsn[1]][r.lsn[2] + k] = <<r, k>>
  PROVE  /\ ImageOK(Write(records, l.lsn[1], from, to))
         /\ WrittenOK(Write(records, l.lsn[1], from, to), l, records)
<1>. DEFINE f == l.lsn[1]
            new == Write(records, f, from, to)
            unit(o) == IF from <= o /\ o < to THEN UnitAt(records, f, o) ELSE written[f][o]
<1>1. f \in 1..Files /\ l.lsn[2] \in Nat /\ l.lsn[2] <= LogSize
  BY LogFieldTypes, LsnPair
<1>2. written \in [1..Files -> [Offset -> Unit]] /\ \A g \in 1..Files : FileOK(written[g], g)
  BY DEF ImageOK
<1>3. new = [written EXCEPT ![f] = [o \in Offset |-> unit(o)]] BY DEF Write
<1>4. /\ \A o \in Offset : new[f][o] = unit(o)
      /\ \A g \in 1..Files : g # f => new[g] = written[g]
  BY <1>1, <1>2, <1>3
<1>5. \A o \in Offset : from <= o /\ o < to =>
        \E r \in records : /\ r.lsn[1] = f /\ Covers(r, f, o)
                           /\ unit(o) = <<r, o - r.lsn[2]>>
  <2>1. TAKE o \in Offset
  <2>2. HAVE from <= o /\ o < to
  <2>3. o \in Nat /\ o < l.lsn[2] BY <1>1, <2>2, LogBufferAssumption DEF Offset
  <2>4. PICK r \in records : Covers(r, f, o) BY <2>3 DEF Placed
  <2>5. r.lsn[1] = f BY <2>4 DEF Covers
  <2>6. UnitAt(records, f, o) = <<r, o - r.lsn[2]>> BY <2>3, <2>4, <2>5, UnitFound
  <2>. QED BY <2>2, <2>4, <2>5, <2>6
<1>. HIDE DEF new
<1>6. \A o \in Offset : from <= o /\ o < to =>
        /\ unit(o) \in Record \X Nat /\ unit(o)[2] < unit(o)[1].size
        /\ unit(o)[1].lsn = <<f, o - unit(o)[2]>> /\ EndOf(unit(o)[1]) <= LogSize
        /\ unit(o)[1].lsn[2] = 0 => unit(o)[1] = Header(f)
  <2>1. TAKE o \in Offset
  <2>2. HAVE from <= o /\ o < to
  <2>3. PICK r \in records : /\ r.lsn[1] = f /\ Covers(r, f, o)
                             /\ unit(o) = <<r, o - r.lsn[2]>>
    BY <1>5, <2>2
  <2>4. PICK u : u = unit(o) OBVIOUS
  <2>5. r \in Record /\ r.lsn[2] \in Nat /\ r.size \in Nat /\ r.lsn = <<r.lsn[1], r.lsn[2]>>
    BY RecordFields
  <2>6. o \in Nat BY LogBufferAssumption DEF Offset
  <2>7. PICK k : k = o - r.lsn[2] OBVIOUS
  <2>8. k \in Nat /\ k < r.size /\ o - k = r.lsn[2] BY <2>3, <2>5, <2>6, <2>7 DEF Covers
  <2>9. u = <<r, k>> BY <2>3, <2>4, <2>7, Zenon
  <2>10. EndOf(r) <= LogSize /\ (r.lsn[2] = 0 => r = Header(f)) BY <2>3 DEF Placed
  <2>11. /\ u \in Record \X Nat /\ u[2] < u[1].size
         /\ u[1].lsn = <<f, o - u[2]>> /\ EndOf(u[1]) <= LogSize
         /\ u[1].lsn[2] = 0 => u[1] = Header(f)
    BY <2>3, <2>5, <2>8, <2>9, <2>10
  <2>. QED BY <2>4, <2>11, Zenon
<1>7. \A o \in Offset : unit(o) \in Unit
  BY <1>1, <1>2, <1>6 DEF Unit
<1>. HIDE DEF unit
<1>8. new \in [1..Files -> [Offset -> Unit]] BY <1>1, <1>2, <1>3, <1>7
<1>9. FileOK(new[f], f)
  <2>1. \A o \in Offset :
          new[f][o] # Zero =>
            /\ new[f][o] \in Record \X Nat
            /\ new[f][o][2] < new[f][o][1].size
            /\ new[f][o][1].lsn = <<f, o - new[f][o][2]>>
            /\ EndOf(new[f][o][1]) <= LogSize
            /\ new[f][o][1].lsn[2] = 0 => new[f][o][1] = Header(f)
    <3>1. TAKE o \in Offset
    <3>2. new[f][o] = unit(o) BY <1>4
    <3>3. CASE from <= o /\ o < to BY <1>6, <3>2, <3>3, Zenon
    <3>4. CASE ~ (from <= o /\ o < to)
      <4>1. new[f][o] = written[f][o] BY <3>2, <3>4 DEF unit
      <4>2. FileOK(written[f], f) BY <1>1, <1>2
      <4>. QED BY <4>1, <4>2, Zenon DEF FileOK
    <3>. QED BY <3>3, <3>4
  <2>2. f = 1 => new[f][0] = <<Header(1), 0>>
    <3>1. SUFFICES ASSUME f = 1 PROVE new[f][0] = <<Header(1), 0>> OBVIOUS
    <3>2. 0 \in Offset BY LogBufferAssumption DEF Offset
    <3>3. CASE from <= 0 /\ 0 < to
      <4>1. Covers(Header(1), Header(1).lsn[1], 0) /\ Header(1).lsn = <<1, 0>>
        BY DEF Covers, Header
      <4>2. UnitAt(records, Header(1).lsn[1], 0) = <<Header(1), 0 - Header(1).lsn[2]>>
        BY <4>1, UnitFound DEF Placed
      <4>3. unit(0) = UnitAt(records, 1, 0) BY <3>1, <3>3 DEF unit
      <4>4. 0 - Header(1).lsn[2] = 0 /\ Header(1).lsn[1] = 1 BY <4>1
      <4>5. new[f][0] = unit(0) BY <1>4, <3>2
      <4>. QED BY <4>2, <4>3, <4>4, <4>5
    <3>4. CASE ~ (from <= 0 /\ 0 < to)
      <4>1. new[f][0] = written[f][0] BY <1>4, <3>2, <3>4 DEF unit
      <4>2. FileOK(written[f], f) BY <1>1, <1>2
      <4>. QED BY <3>1, <4>1, <4>2 DEF FileOK
    <3>. QED BY <3>3, <3>4
  <2>. QED BY <2>1, <2>2 DEF FileOK
<1>10. ImageOK(new)
  <2>1. \A g \in 1..Files : FileOK(new[g], g)
    <3>1. TAKE g \in 1..Files
    <3>2. CASE g = f BY <1>9, <3>2
    <3>3. CASE g # f
      <4>1. new[g] = written[g] BY <1>4, <3>3
      <4>. QED BY <1>2, <4>1
    <3>. QED BY <3>2, <3>3
  <2>. QED BY <1>8, <2>1 DEF ImageOK
<1>11. WrittenOK(new, l, records)
  <2>1. SUFFICES ASSUME NEW r \in records, NEW k \in Offset, k < r.size,
                        r.lsn[1] < l.lsn[1] \/ r.lsn[2] + k < l.w_off
                 PROVE  new[r.lsn[1]][r.lsn[2] + k] = <<r, k>>
    BY DEF WrittenOK
  <2>2. r.lsn[1] \in 1..Files /\ r.lsn[2] \in Nat /\ r.size \in Nat /\ EndOf(r) <= LogSize
    BY RecordFields, LsnPair DEF Placed
  <2>3. k \in Nat BY LogBufferAssumption DEF Offset
  <2>4. PICK o : o = r.lsn[2] + k OBVIOUS
  <2>5. o \in Nat /\ o \in Offset /\ Covers(r, r.lsn[1], o) /\ o - r.lsn[2] = k
    BY <2>1, <2>2, <2>3, <2>4, LogBufferAssumption DEF Offset, EndOf, Covers
  <2>6. CASE r.lsn[1] = f /\ from <= o /\ o < to
    <3>1. UnitAt(records, r.lsn[1], o) = <<r, o - r.lsn[2]>> BY <2>5, UnitFound
    <3>2. unit(o) = <<r, k>> BY <2>5, <2>6, <3>1 DEF unit
    <3>. QED BY <1>4, <2>4, <2>5, <2>6, <3>2
  <2>7. CASE ~ (r.lsn[1] = f /\ from <= o /\ o < to)
    <3>1. written[r.lsn[1]][o] = <<r, k>> BY <2>1, <2>4, <2>7
    <3>2. new[r.lsn[1]][o] = written[r.lsn[1]][o]
      BY <1>4, <2>2, <2>5, <2>7 DEF unit
    <3>. QED BY <2>4, <3>1, <3>2
  <2>. QED BY <2>6, <2>7
<1>. QED BY <1>10, <1>11 DEF new

-----------------------------------------------------------------------------
(* Reopening the log.                                                         *)

InWhole(image, f, o) == image[f][o] # Zero /\ Whole(image, image[f][o][1])

(* The log is in the files up to the last that has its header.                *)
IsLast(image, last) ==
  /\ image[last][0] # Zero
  /\ \A g \in 1..Files : g > last => image[g][0] = Zero

(* What reading the files gives: the records that are whole, in a file that   *)
(* is whole before them.                                                      *)
Read(image, last, r) ==
  /\ r.lsn[1] \in 1..last /\ EndOf(r) <= LogSize /\ Whole(image, r)
  /\ \A o \in Offset : o < r.lsn[2] => InWhole(image, r.lsn[1], o)

LEMMA LastFileExists ==
  ASSUME NEW image, ImageOK(image)
  PROVE  \E last \in 1..Files : IsLast(image, last)
<1>. DEFINE T == {Files - f : f \in {g \in 1..Files : image[g][0] # Zero}}
<1>1. Files \in Nat /\ Files >= 1 /\ 0 \in Offset BY LogBufferAssumption DEF Offset
<1>2. image[1][0] # Zero
  <2>1. image[1][0] = <<Header(1), 0>> BY <1>1 DEF ImageOK, FileOK
  <2>. QED BY <2>1 DEF Zero
<1>3. T \in SUBSET Nat /\ T # {} BY <1>1, <1>2
<1>4. PICK n \in T : \A m \in T : n <= m BY <1>3, LeastNat
<1>5. PICK f \in 1..Files : image[f][0] # Zero /\ n = Files - f BY <1>4
<1>6. \A g \in 1..Files : g > f => image[g][0] = Zero
  <2>1. TAKE g \in 1..Files
  <2>2. SUFFICES ASSUME g > f, image[g][0] # Zero PROVE FALSE OBVIOUS
  <2>3. Files - g \in T BY <2>2
  <2>4. Files - f <= Files - g BY <1>4, <1>5, <2>3
  <2>. HIDE DEF T
  <2>5. g \in Nat /\ f \in Nat BY <1>1
  <2>. QED BY <1>1, <2>2, <2>4, <2>5
<1>. QED BY <1>5, <1>6 DEF IsLast

LEMMA ReadableIs ==
  ASSUME NEW image, ImageOK(image)
  PROVE  \E last \in 1..Files :
           /\ IsLast(image, last)
           /\ ReadableLog(image) \in SUBSET Record
           /\ \A r \in Record : r \in ReadableLog(image) <=> Read(image, last, r)
<1>. DEFINE last == CHOOSE f \in 1..Files :
                      /\ image[f][0] /= Zero
                      /\ \A g \in 1..Files : g > f => image[g][0] = Zero
            starts == {u \in (1..last) \X Offset : /\ \A o \in 0..u[2] : InWhole(image, u[1], o)
                                                  /\ image[u[1]][u[2]][2] = 0}
<1>1. last \in 1..Files /\ IsLast(image, last) BY LastFileExists DEF IsLast
<1>2. ReadableLog(image) = {image[u[1]][u[2]][1] : u \in starts}
  BY Zenon DEF ReadableLog, InWhole
<1>. HIDE DEF last
<1>3. Files \in Nat /\ LogSize \in Nat /\ LogSize >= 1 /\ last \in Nat /\ last <= Files
  BY <1>1, LogBufferAssumption
<1>4. \A u \in starts : /\ u[1] \in 1..Files /\ u[2] \in Offset /\ u[2] \in Nat
                        /\ image[u[1]][u[2]] \in Record \X Nat
                        /\ image[u[1]][u[2]][1] \in Record
                        /\ image[u[1]][u[2]][1].lsn = u
                        /\ Read(image, last, image[u[1]][u[2]][1])
  <2>1. TAKE u \in starts
  <2>2. u[1] \in 1..Files /\ u[1] \in 1..last /\ u[2] \in Offset /\ u[2] \in Nat
        /\ u = <<u[1], u[2]>>
    BY <1>3 DEF Offset
  <2>3. InWhole(image, u[1], u[2]) /\ image[u[1]][u[2]][2] = 0 BY <2>2
  <2>4. /\ image[u[1]][u[2]] \in Record \X Nat
        /\ image[u[1]][u[2]][1].lsn = <<u[1], u[2] - 0>>
        /\ EndOf(image[u[1]][u[2]][1]) <= LogSize
    BY <2>2, <2>3 DEF ImageOK, FileOK, InWhole
  <2>5. image[u[1]][u[2]][1].lsn = u BY <2>2, <2>4
  <2>6. \A o \in Offset : o < u[2] => o \in 0..u[2] BY <2>2, <1>3 DEF Offset
  <2>7. Read(image, last, image[u[1]][u[2]][1])
    BY <2>2, <2>3, <2>4, <2>5, <2>6 DEF Read, InWhole
  <2>. QED BY <2>2, <2>4, <2>5, <2>7
<1>5. ReadableLog(image) \in SUBSET Record BY <1>2, <1>4
<1>6. ASSUME NEW r \in Record, Read(image, last, r) PROVE r \in ReadableLog(image)
  <2>1. r.lsn \in LSN /\ r.size \in Nat /\ r.size >= 1 /\ r.lsn[2] \in Nat
        /\ r.lsn = <<r.lsn[1], r.lsn[2]>>
    BY RecordFields
  <2>2. r.lsn[1] \in 1..last /\ EndOf(r) <= LogSize /\ Whole(image, r) BY <1>6 DEF Read
  <2>3. r.lsn[2] \in Offset BY <2>1, <2>2, <1>3 DEF EndOf, Offset
  <2>4. r.lsn \in (1..last) \X Offset BY <2>1, <2>2, <2>3
  <2>5. image[r.lsn[1]][r.lsn[2]] = <<r, 0>>
    <3>1. 0 \in 0..(r.size - 1) /\ r.lsn[2] + 0 = r.lsn[2] BY <2>1
    <3>2. image[r.lsn[1]][r.lsn[2] + 0] = <<r, 0>> BY <2>2, <3>1 DEF Whole
    <3>. QED BY <3>1, <3>2
  <2>6. <<r, 0>> # Zero BY DEF Zero
  <2>7. InWhole(image, r.lsn[1], r.lsn[2]) BY <2>2, <2>5, <2>6 DEF InWhole
  <2>8. \A o \in 0..r.lsn[2] : InWhole(image, r.lsn[1], o)
    BY <1>3, <1>6, <2>1, <2>3, <2>7 DEF Read, Offset
  <2>9. r.lsn \in starts BY <2>4, <2>5, <2>8
  <2>10. r = image[r.lsn[1]][r.lsn[2]][1] BY <2>5
  <2>. QED BY <1>2, <2>9, <2>10
<1>7. \A r \in ReadableLog(image) : Read(image, last, r) BY <1>2, <1>4
<1>. QED BY <1>1, <1>5, <1>6, <1>7

(* There is a last record.                                                    *)
LEMMA LastRecordExists ==
  ASSUME NEW records \in SUBSET Record, NEW f \in Nat,
         \E r \in records : r.lsn[1] = f,
         \A r \in records : r.lsn[1] <= f
  PROVE  /\ LastOf(records) \in records /\ LastOf(records).lsn[1] = f
         /\ \A s \in records : ~ Less(LastOf(records).lsn, s.lsn)
<1>. DEFINE T == {LogSize - r.lsn[2] : r \in {q \in records : q.lsn[1] = f}}
<1>1. \A r \in records : /\ r.lsn \in Pair /\ r.lsn[1] \in Nat /\ r.lsn[2] \in Nat
                         /\ LogSize - r.lsn[2] \in Nat
  BY RecordFields, LsnPair, LogBufferAssumption
<1>2. T \in SUBSET Nat /\ T # {} BY <1>1
<1>3. PICK n \in T : \A m \in T : n <= m BY <1>2, LeastNat
<1>4. PICK r \in records : r.lsn[1] = f /\ n = LogSize - r.lsn[2] BY <1>3
<1>5. \A s \in records : ~ Less(r.lsn, s.lsn)
  <2>1. TAKE s \in records
  <2>2. CASE s.lsn[1] = f
    <3>1. LogSize - s.lsn[2] \in T BY <2>2
    <3>2. LogSize - r.lsn[2] <= LogSize - s.lsn[2] BY <1>3, <1>4, <3>1
    <3>. HIDE DEF T
    <3>3. s.lsn[2] <= r.lsn[2] BY <1>1, <3>2, LogBufferAssumption
    <3>. QED BY <1>1, <1>4, <2>2, <3>3 DEF Less
  <2>3. CASE s.lsn[1] # f
    <3>1. s.lsn[1] < f BY <1>1, <2>3
    <3>. QED BY <1>1, <1>4, <3>1 DEF Less
  <2>. QED BY <2>2, <2>3
<1>6. LastOf(records) \in records /\ \A s \in records : ~ Less(LastOf(records).lsn, s.lsn)
  <2>1. \E q \in records : \A s \in records : ~ Less(q.lsn, s.lsn) BY <1>5
  <2>. HIDE DEF T
  <2>. QED BY <2>1, Zenon DEF LastOf
<1>7. LastOf(records).lsn[1] = f
  <2>1. ~ Less(LastOf(records).lsn, r.lsn) BY <1>6
  <2>2. LastOf(records).lsn[1] \in Nat /\ LastOf(records).lsn[1] <= f BY <1>1, <1>6
  <2>. QED BY <1>4, <2>1, <2>2 DEF Less
<1>. QED BY <1>6, <1>7

Reopened(end, size) ==
  [NewLog EXCEPT !.lsn = end, !.s_lsn = end, !.len = size, !.w_off = end[2], !.f_lsn = <<0, 0>>]

ReopenedOK(image, records, r, end) ==
  /\ records \in SUBSET Record /\ end \in LSN
  /\ Reopened(end, r.size) \in LogFields
  /\ LogOK(Reopened(end, r.size), records)
  /\ ImageOK(ZeroTail(image, end))
  /\ ImageOK([f \in 1..Files |-> IF f > end[1] THEN EmptyFile ELSE image[f]])
  /\ WrittenOK(ZeroTail(image, end), Reopened(end, r.size), records)
  /\ \A s \in records :
       /\ Less(s.lsn, end)
       /\ Whole([f \in 1..Files |-> IF f > end[1] THEN EmptyFile ELSE image[f]], s)

(* What the log is when it is opened again.                                   *)
LEMMA ReopenKeeps ==
  ASSUME NEW image, ImageOK(image), NEW records, records = ReadableLog(image),
         NEW r, r = LastOf(records), NEW end, end = <<r.lsn[1], r.lsn[2] + r.size>>
  PROVE  ReopenedOK(image, records, r, end)
<1>0. PICK last \in 1..Files :
        /\ IsLast(image, last)
        /\ records \in SUBSET Record
        /\ \A s \in Record : s \in records <=> Read(image, last, s)
  BY ReadableIs, Zenon
<1>1. /\ Files \in Nat /\ LogSize \in Nat /\ LogSize >= 1 /\ last \in Nat /\ last <= Files
      /\ last >= 1
      /\ 0 \in Offset
  BY LogBufferAssumption DEF Offset
<1>2. \A f \in 1..Files : FileOK(image[f], f) BY DEF ImageOK
<1>3. \A s \in records :
        /\ s \in Record /\ s.lsn \in LSN /\ s.lsn \in Pair /\ s.lsn[1] \in 1..last
        /\ s.lsn[1] \in Nat /\ s.lsn[2] \in Nat /\ s.size \in Nat /\ s.size >= 1
        /\ EndOf(s) <= LogSize /\ Whole(image, s)
        /\ \A o \in Offset : o < s.lsn[2] => InWhole(image, s.lsn[1], o)
  BY <1>0, RecordFields DEF Read
<1>4. \A f \in 1..last : image[f][0] # Zero
        => Header(f) \in records /\ image[f][0] = <<Header(f), 0>>
  <2>1. TAKE f \in 1..last
  <2>2. SUFFICES ASSUME image[f][0] # Zero
                 PROVE Header(f) \in records /\ image[f][0] = <<Header(f), 0>>
    OBVIOUS
  <2>3. f \in 1..Files BY <1>1
  <2>4. PICK u : u = image[f][0] OBVIOUS
  <2>5. /\ u \in Record \X Nat /\ u[1].lsn = <<f, 0 - u[2]>>
        /\ u[1].lsn[2] = 0 => u[1] = Header(f)
    BY <1>1, <1>2, <2>2, <2>3, <2>4, Zenon DEF FileOK
  <2>6. u[1] \in Record /\ u[2] \in Nat /\ u = <<u[1], u[2]>> BY <2>5
  <2>7. u[1].lsn[2] \in Nat BY <2>6, RecordFields
  <2>8. u[2] = 0 /\ u[1] = Header(f) BY <2>5, <2>6, <2>7
  <2>9. Header(f) \in Record /\ image[f][0] = <<Header(f), 0>> BY <2>4, <2>6, <2>8
  <2>10. Read(image, last, Header(f))
    <3>1. Header(f).lsn = <<f, 0>> /\ Header(f).size = 1 BY DEF Header
    <3>2. Whole(image, Header(f)) BY <2>9, <3>1 DEF Whole
    <3>. QED BY <1>1, <3>1, <3>2 DEF Read, EndOf, Offset
  <2>. QED BY <1>0, <2>9, <2>10
<1>5. /\ r \in records /\ r.lsn[1] = last
      /\ \A s \in records : ~ Less(r.lsn, s.lsn)
  <2>1. Header(last) \in records BY <1>0, <1>1, <1>4 DEF IsLast
  <2>2. Header(last).lsn[1] = last BY DEF Header
  <2>3. \A s \in records : s.lsn[1] <= last BY <1>1, <1>3
  <2>. QED BY <1>0, <1>1, <2>1, <2>2, <2>3, LastRecordExists
<1>6. Header(1) \in records
  <2>1. image[1][0] = <<Header(1), 0>> BY <1>1, <1>2 DEF FileOK
  <2>2. image[1][0] # Zero BY <2>1 DEF Zero
  <2>. QED BY <1>1, <1>4, <2>2
<1>7. /\ end[1] = last /\ end[2] = EndOf(r) /\ end \in LSN /\ end \in Pair /\ end[2] \in Nat
      /\ end[2] >= 1
      /\ end = <<end[1], end[2]>>
  BY <1>1, <1>3, <1>5, LsnPair DEF EndOf, LSN, Pair
<1>8. PICK l : l = Reopened(end, r.size) OBVIOUS
<1>9. /\ l.lsn = end /\ l.s_lsn = end /\ l.len = r.size /\ l.w_off = end[2] /\ l.b_off = 0
      /\ l.t_lsn = <<1, 0>>
  BY <1>8 DEF Reopened, NewLog
<1>10. l \in LogFields
  <2>1. <<1, 0>> \in LSN /\ <<0, 0>> \in (0..Files) \X (0..LogSize) BY <1>1 DEF LSN
  <2>2. r.size \in 1..LogSize /\ end[2] \in 0..LogSize /\ 0 \in 0..(BufferSize - 1)
    BY <1>1, <1>3, <1>5, <1>7, RecordFields, LogBufferAssumption
  <2>3. l = [lsn |-> end, len |-> r.size, b_off |-> 0, w_off |-> end[2], f_lsn |-> <<0, 0>>,
             s_lsn |-> end, t_lsn |-> <<1, 0>>, in_flush |-> 0]
    BY <1>8, Zenon DEF Reopened, NewLog
  <2>. QED BY <1>7, <2>1, <2>2, <2>3 DEF LogFields
<1>11. \A s, q \in records :
         s.lsn[1] = q.lsn[1] /\ s.lsn[2] < EndOf(q) /\ q.lsn[2] < EndOf(s) => s = q
  <2>1. ASSUME NEW s \in records, NEW q \in records, s.lsn[1] = q.lsn[1],
               s.lsn[2] < EndOf(q), q.lsn[2] <= s.lsn[2]
        PROVE  s = q
    <3>1. PICK k : k = s.lsn[2] - q.lsn[2] OBVIOUS
    <3>2. k \in 0..(q.size - 1) /\ q.lsn[2] + k = s.lsn[2] BY <1>3, <2>1, <3>1 DEF EndOf
    <3>3. image[s.lsn[1]][s.lsn[2]] = <<q, k>>
      <4>1. Whole(image, q) BY <1>3
      <4>2. image[q.lsn[1]][q.lsn[2] + k] = <<q, k>> BY <3>2, <4>1, Zenon DEF Whole
      <4>. QED BY <2>1, <3>2, <4>2
    <3>4. image[s.lsn[1]][s.lsn[2]] = <<s, 0>>
      <4>1. 0 \in 0..(s.size - 1) /\ s.lsn[2] + 0 = s.lsn[2] BY <1>3
      <4>2. Whole(image, s) BY <1>3
      <4>3. image[s.lsn[1]][s.lsn[2] + 0] = <<s, 0>> BY <4>1, <4>2, Zenon DEF Whole
      <4>. QED BY <4>1, <4>3
    <3>. QED BY <3>3, <3>4
  <2>. QED BY <1>3, <2>1
<1>12. \A f \in 1..last, o \in Offset :
         InWhole(image, f, o) /\ (\A p \in Offset : p < o => InWhole(image, f, p))
         => \E s \in records : Covers(s, f, o)
  <2>1. TAKE f \in 1..last, o \in Offset
  <2>2. HAVE InWhole(image, f, o) /\ \A p \in Offset : p < o => InWhole(image, f, p)
  <2>3. f \in 1..Files /\ o \in Nat BY <1>1 DEF Offset
  <2>4. PICK u : u = image[f][o] OBVIOUS
  <2>5. /\ u \in Record \X Nat /\ u[2] < u[1].size /\ u[1].lsn = <<f, o - u[2]>>
        /\ EndOf(u[1]) <= LogSize /\ Whole(image, u[1])
    BY <1>2, <2>2, <2>3, <2>4, Zenon DEF FileOK, InWhole
  <2>6. PICK s : s = u[1] OBVIOUS
  <2>7. PICK k : k = u[2] OBVIOUS
  <2>8. s \in Record /\ k \in Nat /\ k < s.size /\ s.lsn = <<f, o - k>> /\ EndOf(s) <= LogSize
        /\ Whole(image, s)
    BY <2>5, <2>6, <2>7
  <2>9. s.lsn[1] = f /\ s.lsn[2] = o - k /\ s.lsn[2] \in Nat /\ s.size \in Nat
    BY <2>8, RecordFields
  <2>10. Read(image, last, s)
    <3>1. \A p \in Offset : p < s.lsn[2] => p < o BY <1>1, <2>3, <2>8, <2>9 DEF Offset
    <3>. QED BY <2>2, <2>8, <2>9, <3>1 DEF Read
  <2>11. Covers(s, f, o) BY <2>3, <2>8, <2>9 DEF Covers
  <2>. QED BY <1>0, <2>8, <2>10, <2>11
<1>13. \A s \in records : s.lsn[1] < l.lsn[1] \/ (s.lsn[1] = l.lsn[1] /\ EndOf(s) <= l.lsn[2])
  <2>1. TAKE s \in records
  <2>2. CASE s.lsn[1] # last BY <1>1, <1>3, <1>7, <1>9, <2>2
  <2>3. CASE s.lsn[1] = last
    <3>1. s.lsn[2] <= r.lsn[2] BY <1>3, <1>5, <2>3 DEF Less
    <3>2. s # r => ~ r.lsn[2] < EndOf(s)
      BY <1>3, <1>5, <1>11, <2>3, <3>1 DEF EndOf
    <3>3. EndOf(s) <= EndOf(r) BY <1>3, <1>5, <3>2 DEF EndOf
    <3>. QED BY <1>7, <1>9, <2>3, <3>3
  <2>. QED BY <2>2, <2>3
<1>14. Placed(l, records)
  <2>1. \A s \in records : \A o \in Offset : o < s.lsn[2] => \E q \in records :
          Covers(q, s.lsn[1], o)
    <3>1. TAKE s \in records
    <3>2. TAKE o \in Offset
    <3>3. HAVE o < s.lsn[2]
    <3>4. \A p \in Offset : p < o => p < s.lsn[2] BY <1>1, <1>3, <3>3 DEF Offset
    <3>. QED BY <1>3, <1>12, <3>3, <3>4
  <2>2. \A s \in records : s.lsn[2] = 0 => s = Header(s.lsn[1])
    <3>1. TAKE s \in records
    <3>2. HAVE s.lsn[2] = 0
    <3>3. image[s.lsn[1]][0] = <<s, 0>>
      <4>1. 0 \in 0..(s.size - 1) /\ s.lsn[2] + 0 = 0 BY <1>3, <3>2
      <4>2. Whole(image, s) BY <1>3
      <4>3. image[s.lsn[1]][s.lsn[2] + 0] = <<s, 0>> BY <4>1, <4>2, Zenon DEF Whole
      <4>. QED BY <4>1, <4>3
    <3>4. <<s, 0>> # Zero BY DEF Zero
    <3>5. s.lsn[1] \in 1..last BY <1>3
    <3>6. image[s.lsn[1]][0] = <<Header(s.lsn[1]), 0>> BY <1>4, <3>3, <3>4, <3>5
    <3>. QED BY <3>3, <3>6
  <2>3. \A o \in Offset : o < l.lsn[2] => \E s \in records : Covers(s, l.lsn[1], o)
    <3>1. TAKE o \in Offset
    <3>2. HAVE o < l.lsn[2]
    <3>3. o \in Nat BY <1>1 DEF Offset
    <3>4. CASE o < r.lsn[2] BY <1>5, <1>7, <1>9, <2>1, <3>4
    <3>5. CASE ~ o < r.lsn[2] BY <1>3, <1>5, <1>7, <1>9, <3>2, <3>3, <3>5 DEF Covers, EndOf
    <3>. QED BY <3>4, <3>5
  <2>. QED BY <1>3, <1>6, <1>11, <1>13, <2>1, <2>2, <2>3 DEF Placed
<1>15. \A s \in records : Less(s.lsn, end) BY <1>0, <1>9, <1>10, <1>14, RecordsBefore
<1>16. LogOK(l, records)
  <2>1. Safe(l) = end BY <1>9 DEF Safe
  <2>2. Less(l.t_lsn, l.lsn) BY <1>1, <1>7, <1>9 DEF Less
  <2>3. ~ Less(end, end) BY <1>7, Order
  <2>4. Buffered(l, records) BY <1>7, <1>9, <1>15, <2>1, <2>2, <2>3 DEF Buffered
  <2>5. FileKnown(l) BY <1>9 DEF FileKnown
  <2>6. LastIs(l, records)
    <3>1. end[2] - r.size = r.lsn[2] BY <1>3, <1>5, <1>7 DEF EndOf
    <3>2. LastRecord(l) = r.lsn BY <1>3, <1>5, <1>7, <1>9, <3>1, LsnPair DEF LastRecord
    <3>. QED BY <1>5, <1>9, <3>2 DEF LastIs
  <2>. QED BY <1>14, <2>4, <2>5, <2>6 DEF LogOK
<1>. DEFINE zeroed == ZeroTail(image, end)
            left == [f \in 1..Files |-> IF f > end[1] THEN EmptyFile ELSE image[f]]
<1>17. image \in [1..Files -> [Offset -> Unit]] BY DEF ImageOK
<1>18. Zero \in Unit /\ EmptyFile \in [Offset -> Unit] /\ \A o \in Offset : EmptyFile[o] = Zero
  BY DEF Unit, EmptyFile
<1>19. \A f \in 1..Files, o \in Offset :
         zeroed[f][o] = IF Less(<<f, o>>, end) THEN image[f][o] ELSE Zero
  BY DEF ZeroTail
<1>20. zeroed \in [1..Files -> [Offset -> Unit]] BY <1>17, <1>18 DEF ZeroTail
<1>21. left \in [1..Files -> [Offset -> Unit]] BY <1>17, <1>18
<1>22. \A f \in 1..Files : left[f] = IF f > end[1] THEN EmptyFile ELSE image[f] OBVIOUS
<1>. HIDE DEF zeroed, left
<1>23. ImageOK(zeroed)
  <2>1. \A f \in 1..Files : FileOK(zeroed[f], f)
    <3>1. TAKE f \in 1..Files
    <3>2. f = 1 => zeroed[f][0] = <<Header(1), 0>>
      <4>1. Less(<<1, 0>>, end) BY <1>1, <1>7 DEF Less
      <4>. QED BY <1>1, <1>2, <1>19, <4>1 DEF FileOK
    <3>3. \A o \in Offset : zeroed[f][o] # Zero => zeroed[f][o] = image[f][o] BY <1>19
    <3>. QED BY <1>2, <3>2, <3>3, Zenon DEF FileOK
  <2>. QED BY <1>20, <2>1 DEF ImageOK
<1>24. ImageOK(left)
  <2>1. \A f \in 1..Files : FileOK(left[f], f)
    <3>1. TAKE f \in 1..Files
    <3>2. CASE f > end[1]
      <4>1. f # 1 BY <1>1, <1>7, <3>2
      <4>. QED BY <1>18, <1>22, <3>2, <4>1 DEF FileOK
    <3>3. CASE ~ f > end[1] BY <1>2, <1>22, <3>3
    <3>. QED BY <3>2, <3>3
  <2>. QED BY <1>21, <2>1 DEF ImageOK
<1>25. WrittenOK(zeroed, l, records)
  <2>1. SUFFICES ASSUME NEW s \in records, NEW k \in Offset, k < s.size
                 PROVE  zeroed[s.lsn[1]][s.lsn[2] + k] = <<s, k>>
    BY DEF WrittenOK
  <2>2. k \in Nat /\ k \in 0..(s.size - 1) BY <1>1, <1>3, <2>1 DEF Offset
  <2>3. image[s.lsn[1]][s.lsn[2] + k] = <<s, k>>
    <3>1. Whole(image, s) BY <1>3
    <3>. QED BY <2>2, <3>1, Zenon DEF Whole
  <2>4. s.lsn[2] + k \in Offset /\ s.lsn[2] + k < EndOf(s) /\ s.lsn[2] + k \in Nat
    BY <1>1, <1>3, <2>1, <2>2 DEF EndOf, Offset
  <2>5. Less(<<s.lsn[1], s.lsn[2] + k>>, end)
    BY <1>3, <1>7, <1>9, <1>13, <2>4 DEF Less, EndOf
  <2>6. s.lsn[1] \in 1..Files BY <1>1, <1>3
  <2>. QED BY <1>19, <2>3, <2>4, <2>5, <2>6
<1>26. \A s \in records : Whole(left, s)
  <2>1. TAKE s \in records
  <2>2. ~ s.lsn[1] > end[1] /\ s.lsn[1] \in 1..Files BY <1>1, <1>3, <1>7
  <2>3. left[s.lsn[1]] = image[s.lsn[1]] BY <1>22, <2>2
  <2>. QED BY <1>3, <2>3 DEF Whole
<1>. QED BY <1>0, <1>7, <1>8, <1>10, <1>15, <1>16, <1>23, <1>24, <1>25, <1>26
         DEF zeroed, left, ReopenedOK

(* What was whole on the medium up to an LSN is read again.                   *)
LEMMA SyncedIsRead ==
  ASSUME NEW image, ImageOK(image), NEW l \in LogFields, NEW records \in SUBSET Record,
         Placed(l, records), NEW s \in Pair,
         \A r \in records : Less(r.lsn, s) => Whole(image, r),
         NEW r \in records, Less(r.lsn, s)
  PROVE  r \in ReadableLog(image)
<1>0. PICK last \in 1..Files :
        /\ IsLast(image, last)
        /\ \A q \in Record : q \in ReadableLog(image) <=> Read(image, last, q)
  BY ReadableIs, Zenon
<1>1. \A q \in records :
        /\ q \in Record /\ q.lsn \in Pair /\ q.lsn[1] \in 1..Files /\ q.lsn[1] \in Nat
        /\ q.lsn[2] \in Nat /\ q.size \in Nat /\ q.size >= 1 /\ EndOf(q) <= LogSize
  BY RecordFields, LsnPair DEF Placed
<1>2. LogSize \in Nat /\ Files \in Nat /\ last \in Nat /\ 0 \in Offset
  BY LogBufferAssumption DEF Offset
<1>3. \A o \in Offset : o < EndOf(r) => InWhole(image, r.lsn[1], o)
  <2>1. TAKE o \in Offset
  <2>2. HAVE o < EndOf(r)
  <2>3. o \in Nat BY <1>2 DEF Offset
  <2>4. PICK q \in records : Covers(q, r.lsn[1], o) /\ ~ Less(r.lsn, q.lsn)
    <3>1. CASE o < r.lsn[2]
      <4>1. PICK q \in records : Covers(q, r.lsn[1], o) BY <3>1 DEF Placed
      <4>2. ~ Less(r.lsn, q.lsn) BY <1>1, <2>3, <3>1, <4>1 DEF Covers, Less
      <4>. QED BY <4>1, <4>2
    <3>2. CASE ~ o < r.lsn[2]
      <4>1. Covers(r, r.lsn[1], o) BY <1>1, <2>2, <2>3, <3>2 DEF Covers, EndOf
      <4>2. ~ Less(r.lsn, r.lsn) BY <1>1, Order
      <4>. QED BY <4>1, <4>2
    <3>. QED BY <3>1, <3>2
  <2>5. Less(q.lsn, s) BY <1>1, <2>4, Order
  <2>6. Whole(image, q) BY <2>5
  <2>7. PICK k : k = o - q.lsn[2] OBVIOUS
  <2>8. k \in 0..(q.size - 1) /\ q.lsn[2] + k = o /\ q.lsn[1] = r.lsn[1]
    BY <1>1, <2>3, <2>4, <2>7 DEF Covers
  <2>9. image[q.lsn[1]][q.lsn[2] + k] = <<q, k>> BY <2>6, <2>8, Zenon DEF Whole
  <2>10. image[r.lsn[1]][o] = <<q, k>> BY <2>8, <2>9
  <2>11. <<q, k>> # Zero /\ <<q, k>>[1] = q BY DEF Zero
  <2>. QED BY <2>6, <2>10, <2>11 DEF InWhole
<1>4. r.lsn[1] \in 1..last
  <2>1. InWhole(image, r.lsn[1], 0) BY <1>1, <1>2, <1>3 DEF EndOf
  <2>2. ~ r.lsn[1] > last BY <1>0, <1>1, <2>1 DEF IsLast, InWhole
  <2>. QED BY <1>1, <1>2, <2>2
<1>5. \A o \in Offset : o < r.lsn[2] => o < EndOf(r)
  BY <1>1, <1>2 DEF EndOf, Offset
<1>6. Read(image, last, r)
  BY <1>1, <1>3, <1>4, <1>5 DEF Read
<1>. QED BY <1>0, <1>1, <1>6

-----------------------------------------------------------------------------
(* The threads.                                                               *)

CallFields ==
  [op : {"none", "switch", "commit", "flush", "again"}, lsn : LSN, flush_lsn : LSN,
   release : BOOLEAN, size : 1..LogSize,
   flags : {"none", "wrnosync", "flush", "all"}, failed : BOOLEAN,
   flushing : BOOLEAN, synced : LSN, covered : {Zero} \cup [Offset -> Unit]]

Shape ==
  /\ lp \in LogFields /\ log \subseteq Record
  /\ commits \in Seq(Thread) /\ marked \subseteq Thread
  /\ region \in Thread \cup {None} /\ mtx_flush \in Thread \cup {None}
  /\ pc \in [Thread -> {"idle", "enter", "wait", "woken", "flush", "sync",
                        "finish", "return"}]
  /\ call \in [Thread -> CallFields]
  /\ promised \in LSN /\ committed \subseteq Nat /\ tail \in 0..Files
  /\ puts \in 0..MaxPuts /\ faults \in 0..MaxFaults /\ crashes \in 0..MaxCrashes
  /\ panicked \in BOOLEAN

(* A thread in a call, l being the fields of LOG and records the log: the     *)
(* record it asks for is there, and a file switch asks for the last one.      *)
CallOK(c, l, records) ==
  /\ c.op # "none" /\ \E r \in records : r.lsn = c.lsn
  /\ c.release <=> c.op \in {"commit", "flush"}
  /\ c.op \in {"commit", "again"} => c.lsn[2] # 0
  /\ c.op = "switch" => /\ c.lsn = LastRecord(l) /\ l.lsn[1] < Files
                        /\ c.size \in Sizes /\ c.flags \in {"none", "wrnosync", "flush"}

(* What an fsync that runs will cover is the file up to an LSN that is beyond *)
(* the record asked for and not beyond what is in the files.                  *)
SyncOK(t) ==
  LET c == call[t] IN
  /\ c.covered \in [Offset -> Unit] /\ FileOK(c.covered, lp.lsn[1])
  /\ ~ Less(c.synced, lp.s_lsn) /\ ~ Less(Safe(lp), c.synced)
  /\ Less(c.flush_lsn, c.synced) /\ ~ Less(c.flush_lsn, c.lsn)
  /\ lp.f_lsn[1] = lp.lsn[1]
  /\ c.flushing /\ ~ c.failed

(* Who waits is in the list, who is marked is to flush for all who wait, and  *)
(* who was woken for no flush has its record synced; the mutexes are held     *)
(* where the code holds them; a flush that did not fail has synced what it    *)
(* was for.                                                                   *)
ThreadOK(t) ==
  LET c == call[t] IN
  /\ pc[t] = "idle" => c = NoCall
  /\ pc[t] # "idle" => CallOK(c, lp, log)
  /\ pc[t] \in {"enter", "wait", "woken", "flush"} => ~ c.failed /\ ~ c.flushing
  /\ pc[t] \in {"enter", "wait", "woken"} => c.release
  /\ pc[t] = "wait" <=> t \in Members(commits)
  /\ t \in marked => pc[t] = "woken"
  /\ pc[t] = "woken" /\ t \notin marked => Less(c.lsn, lp.s_lsn)
  /\ pc[t] = "wait" \/ t \in marked => ~ Less(lp.t_lsn, c.lsn)
  /\ pc[t] = "flush" => ~ Less(c.flush_lsn, c.lsn) /\ Less(c.flush_lsn, lp.lsn)
  /\ pc[t] \in {"flush", "return"} => region = t
  /\ pc[t] \in {"sync", "finish"} /\ ~ c.release => region = t
  /\ region = t => pc[t] \in {"flush", "sync", "finish", "return"}
  /\ mtx_flush = t <=> pc[t] = "sync"
  /\ pc[t] = "sync" => SyncOK(t)
  /\ pc[t] \in {"finish", "return"} /\ ~ c.failed => Less(c.lsn, lp.s_lsn)
  /\ pc[t] \in {"finish", "return"} /\ (~ c.release \/ ~ c.flushing)
       => region = t /\ mtx_flush = None
  /\ c.failed => faults > 0 /\ c.lsn[1] <= FaultyFiles
  /\ c.op = "switch" => puts < MaxPuts

(* in_flush counts those who flush and those who were told to.                *)
InFlight == {t \in Thread : pc[t] \in {"sync", "finish"} /\ call[t].flushing}

CountOK == lp.in_flush = Cardinality(InFlight) + Cardinality(marked)

Base ==
  /\ Shape
  /\ LogOK(lp, log)
  /\ ImageOK(written) /\ ImageOK(stable) /\ WrittenOK(written, lp, log)
  /\ \A t \in Thread : ThreadOK(t)
  /\ CountOK

-----------------------------------------------------------------------------
(* Steps.  A step of a thread t leaves l in the region.                       *)

(* The LSNs of LOG only grow, and no record is lost.                          *)
Grows(l) ==
  /\ \A r \in log : \E q \in log' : q.lsn = r.lsn
  /\ ~ Less(l.s_lsn, lp.s_lsn) /\ ~ Less(l.t_lsn, lp.t_lsn) /\ ~ Less(l.lsn, lp.lsn)
  /\ ~ Less(Safe(l), Safe(lp))
  /\ faults' >= faults

(* What a thread s may rely on while it holds a mutex.                        *)
Respects(l, s) ==
  /\ region = s => /\ l.lsn = lp.lsn /\ l.len = lp.len /\ puts' = puts
                   /\ mtx_flush = None => mtx_flush' = None
  /\ mtx_flush = s => /\ l.s_lsn = lp.s_lsn /\ l.lsn[1] = lp.lsn[1]
                      /\ lp.f_lsn[1] = lp.lsn[1] => l.f_lsn[1] = l.lsn[1]

(* The step is not about s.                                                   *)
LeavesAlone(s) ==
  /\ pc'[s] = pc[s] /\ call'[s] = call[s]
  /\ s \in Members(commits') <=> s \in Members(commits)
  /\ s \in marked' <=> s \in marked
  /\ region' = s <=> region = s
  /\ mtx_flush' = s <=> mtx_flush = s

(* What the variables that are not about threads are after a step of t.       *)
Follows(l, t) ==
  /\ l \in LogFields /\ log' \subseteq Record /\ LogOK(l, log')
  /\ ImageOK(written') /\ ImageOK(stable') /\ WrittenOK(written', l, log')
  /\ Grows(l) /\ \A s \in Thread \ {t} : Respects(l, s)
  /\ tail' \in 0..Files /\ puts' \in 0..MaxPuts /\ faults' \in 0..MaxFaults
  /\ crashes' \in 0..MaxCrashes /\ panicked' \in BOOLEAN

LEMMA CallTypes ==
  ASSUME NEW c \in CallFields
  PROVE  /\ c.lsn \in LSN /\ c.lsn \in Pair /\ c.flush_lsn \in LSN /\ c.flush_lsn \in Pair
         /\ c.synced \in LSN /\ c.synced \in Pair
         /\ c.release \in BOOLEAN /\ c.failed \in BOOLEAN /\ c.flushing \in BOOLEAN
<1>1. /\ c.lsn \in LSN /\ c.flush_lsn \in LSN /\ c.synced \in LSN
      /\ c.release \in BOOLEAN /\ c.failed \in BOOLEAN /\ c.flushing \in BOOLEAN
  BY DEF CallFields
<1>. QED BY <1>1, LsnPair

(* A thread that is left alone keeps what it relies on.                       *)
LEMMA Undisturbed ==
  ASSUME Shape, Shape', NEW s \in Thread, ThreadOK(s), LeavesAlone(s), Grows(lp'),
         Respects(lp', s)
  PROVE  ThreadOK(s)'
<1>1. /\ lp.lsn \in Pair /\ lp.s_lsn \in Pair /\ lp.t_lsn \in Pair /\ Safe(lp) \in Pair
      /\ lp'.lsn \in Pair /\ lp'.s_lsn \in Pair /\ lp'.t_lsn \in Pair /\ Safe(lp') \in Pair
  BY LogFieldTypes DEF Shape
<1>2. call[s] \in CallFields BY DEF Shape
<1>3. /\ call[s].lsn \in Pair /\ call[s].flush_lsn \in Pair /\ call[s].synced \in Pair
      /\ call[s].release \in BOOLEAN /\ call[s].failed \in BOOLEAN /\ call[s].flushing \in BOOLEAN
  BY <1>2, CallTypes
<1>4. PICK c : c = call[s] OBVIOUS
<1>5. PICK p : p = pc[s] OBVIOUS
<1>6. /\ call'[s] = c /\ pc'[s] = p
      /\ s \in Members(commits') <=> s \in Members(commits)
      /\ s \in marked' <=> s \in marked
      /\ region' = s <=> region = s
      /\ mtx_flush' = s <=> mtx_flush = s
  BY <1>4, <1>5 DEF LeavesAlone
<1>7. /\ \A x \in Pair : Less(x, lp.s_lsn) => Less(x, lp'.s_lsn)
      /\ \A x \in Pair : Less(x, lp.lsn) => Less(x, lp'.lsn)
      /\ \A x \in Pair : ~ Less(lp.t_lsn, x) => ~ Less(lp'.t_lsn, x)
      /\ \A x \in Pair : ~ Less(Safe(lp), x) => ~ Less(Safe(lp'), x)
  BY <1>1, Order DEF Grows
<1>12. c.op = "switch" => region = s
  <2>1. pc[s] \in {"idle", "enter", "wait", "woken", "flush", "sync", "finish", "return"}
    BY DEF Shape
  <2>2. pc[s] = "idle" => c.op # "switch" BY <1>4 DEF ThreadOK, NoCall
  <2>3. pc[s] # "idle" => CallOK(c, lp, log) BY <1>4 DEF ThreadOK
  <2>. QED BY <1>4, <2>1, <2>2, <2>3 DEF ThreadOK, CallOK
<1>13. c.op = "switch" => puts' < MaxPuts BY <1>4, <1>12 DEF ThreadOK, Respects
<1>8. pc[s] # "idle" => CallOK(c, lp', log')
  <2>1. SUFFICES ASSUME pc[s] # "idle" PROVE CallOK(c, lp', log') OBVIOUS
  <2>2. CallOK(c, lp, log) BY <1>4, <2>1 DEF ThreadOK
  <2>3. c.op = "switch" => region = s BY <1>12
  <2>4. region = s => lp'.lsn = lp.lsn /\ LastRecord(lp') = LastRecord(lp)
    BY DEF Respects, LastRecord
  <2>5. \E r \in log' : r.lsn = c.lsn BY <2>2 DEF CallOK, Grows
  <2>. QED BY <2>2, <2>3, <2>4, <2>5 DEF CallOK
<1>9. pc[s] = "sync" => SyncOK(s)'
  <2>1. SUFFICES ASSUME pc[s] = "sync" PROVE SyncOK(s)' OBVIOUS
  <2>2. SyncOK(s) /\ mtx_flush = s BY <2>1 DEF ThreadOK
  <2>3. lp'.s_lsn = lp.s_lsn /\ lp'.lsn[1] = lp.lsn[1] /\ lp'.f_lsn[1] = lp'.lsn[1]
    BY <2>2 DEF Respects, SyncOK
  <2>. QED BY <1>3, <1>4, <1>6, <1>7, <2>2, <2>3 DEF SyncOK
<1>10. c.failed => faults' > 0 /\ c.lsn[1] <= FaultyFiles
  <2>1. faults \in Nat /\ faults' \in Nat BY LogBufferAssumption DEF Shape
  <2>. QED BY <1>4, <2>1 DEF ThreadOK, Grows
<1>11. region = s /\ mtx_flush = None => mtx_flush' = None BY DEF Respects
<1>. QED BY <1>3, <1>4, <1>5, <1>6, <1>7, <1>8, <1>9, <1>10, <1>11, <1>13, Zenon DEF ThreadOK

(* So a step keeps the invariant if it does so for its own thread.            *)
LEMMA StepKeeps ==
  ASSUME Base, Shape', NEW t \in Thread, Follows(lp', t), ThreadOK(t)',
         \A s \in Thread \ {t} : LeavesAlone(s), CountOK'
  PROVE  Base'
<1>1. \A s \in Thread : ThreadOK(s)'
  <2>1. TAKE s \in Thread
  <2>2. CASE s = t BY <2>2
  <2>3. CASE s # t BY <2>3, Undisturbed DEF Base, Follows
  <2>. QED BY <2>2, <2>3
<1>. QED BY <1>1 DEF Base, Follows

(* Nothing follows for the log from a step that does not touch it.            *)
LEMMA StandsStill ==
  ASSUME Base, NEW t \in Thread, UNCHANGED <<log, written, stable, puts>>,
         mtx_flush' \in {None, mtx_flush}
  PROVE  /\ Grows(lp) <=> faults' >= faults
         /\ \A s \in Thread : Respects(lp, s)
         /\ log' \subseteq Record /\ LogOK(lp, log')
         /\ ImageOK(written') /\ ImageOK(stable') /\ WrittenOK(written', lp, log')
<1>1. lp.s_lsn \in Pair /\ lp.t_lsn \in Pair /\ lp.lsn \in Pair /\ Safe(lp) \in Pair
  BY LogFieldTypes DEF Base, Shape
<1>2. Grows(lp) <=> faults' >= faults
  BY <1>1, Order DEF Grows
<1>3. \A s \in Thread : Respects(lp, s) BY DEF Respects
<1>. QED BY <1>2, <1>3 DEF Base, Shape

LEMMA NoCallFields ==
  /\ NoCall \in CallFields /\ NoCall.op = "none" /\ NoCall.release = TRUE
  /\ NoCall.failed = FALSE /\ NoCall.flushing = FALSE /\ <<1, 0>> \in LSN
<1>1. <<1, 0>> \in LSN /\ 1 \in 1..LogSize BY LogBufferAssumption DEF LSN
<1>. QED BY <1>1 DEF NoCall, CallFields

(* The call of t returns.                                                     *)
LEMMA AnswerKeeps ==
  ASSUME Base, NEW t \in Thread, NEW lsn, NEW ok \in BOOLEAN, Answer(t, lsn, ok),
         \E r \in log' : r.lsn = lsn,
         pc[t] \in {"idle", "enter", "woken", "return"}, t \notin marked,
         UNCHANGED <<group, mtx_flush>>, Follows(lp', t), lp'.in_flush = lp.in_flush
  PROVE  Base'
<1>1. /\ pc' = [pc EXCEPT ![t] = "idle"] /\ call' = [call EXCEPT ![t] = NoCall]
      /\ region' = IF region = t THEN None ELSE region
      /\ commits' = commits /\ marked' = marked /\ mtx_flush' = mtx_flush
  BY DEF Answer, group
<1>2. pc \in [Thread -> {"idle", "enter", "wait", "woken", "flush", "sync", "finish", "return"}]
      /\ call \in [Thread -> CallFields]
  BY DEF Base, Shape
<1>3. None \notin Thread BY LogBufferAssumption
<1>4. /\ pc'[t] = "idle" /\ call'[t] = NoCall
      /\ \A s \in Thread \ {t} : pc'[s] = pc[s] /\ call'[s] = call[s]
  BY <1>1, <1>2
<1>5. Shape'
  <2>1. pc' \in [Thread -> {"idle", "enter", "wait", "woken", "flush", "sync", "finish", "return"}]
        /\ call' \in [Thread -> CallFields]
    BY <1>1, <1>2, NoCallFields
  <2>2. promised' \in LSN /\ committed' \subseteq Nat
    <3>1. PICK r \in log' : r.lsn = lsn OBVIOUS
    <3>2. lsn \in LSN /\ RecordAt(log', lsn) \in log' /\ log' \subseteq Record
      BY <3>1, RecordFields DEF Follows, RecordAt
    <3>3. RecordAt(log', lsn).id \in Nat BY <3>2, RecordFields
    <3>. QED BY <3>2, <3>3 DEF Answer, Base, Shape
  <2>. QED BY <1>1, <2>1, <2>2 DEF Base, Shape, Follows
<1>6. \A s \in Thread \ {t} : LeavesAlone(s) BY <1>1, <1>3, <1>4 DEF LeavesAlone
<1>7. ThreadOK(t)'
  <2>1. ThreadOK(t) BY DEF Base
  <2>2. t \notin Members(commits) /\ mtx_flush # t BY <2>1 DEF ThreadOK
  <2>3. region' # t BY <1>1, <1>3
  <2>. QED BY <1>1, <1>4, <2>2, <2>3, NoCallFields DEF ThreadOK
<1>8. CountOK'
  <2>1. InFlight' = InFlight BY <1>4 DEF InFlight
  <2>. QED BY <1>1, <2>1 DEF Base, CountOK
<1>. QED BY <1>5, <1>6, <1>7, <1>8, StepKeeps

(* The LSN up to which the waiting commits ask for a flush.                   *)
LEMMA TargetKeeps ==
  ASSUME NEW l \in LogFields, NEW records \in SUBSET Record, LogOK(l, records),
         NEW x \in LSN, Less(x, l.lsn)
  PROVE  LET m == [l EXCEPT !.t_lsn = IF Less(@, x) THEN x ELSE @] IN
         /\ m \in LogFields /\ LogOK(m, records) /\ Safe(m) = Safe(l)
         /\ ~ Less(m.t_lsn, l.t_lsn) /\ ~ Less(m.t_lsn, x)
         /\ \A field \in {"lsn", "s_lsn", "f_lsn", "len", "b_off", "w_off", "in_flush"} :
              m[field] = l[field]
<1>0. PICK m : m = [l EXCEPT !.t_lsn = IF Less(@, x) THEN x ELSE @] OBVIOUS
<1>1. /\ m \in LogFields
      /\ m.lsn = l.lsn /\ m.s_lsn = l.s_lsn /\ m.f_lsn = l.f_lsn /\ m.len = l.len
      /\ m.b_off = l.b_off /\ m.w_off = l.w_off /\ m.in_flush = l.in_flush
      /\ m.t_lsn = IF Less(l.t_lsn, x) THEN x ELSE l.t_lsn
  BY <1>0 DEF LogFields
<1>2. l.t_lsn \in Pair /\ x \in Pair BY LogFieldTypes, LsnPair
<1>3. ~ Less(m.t_lsn, l.t_lsn) /\ ~ Less(m.t_lsn, x) BY <1>1, <1>2, Order
<1>4. Safe(m) = Safe(l) BY <1>1 DEF Safe
<1>5. LogOK(m, records)
  <2>1. Placed(m, records) BY <1>1 DEF LogOK, Placed
  <2>2. Buffered(m, records) BY <1>1, <1>4 DEF LogOK, Buffered
  <2>3. FileKnown(m) /\ LastIs(m, records)
    BY <1>1 DEF LogOK, FileKnown, LastIs, LastRecord
  <2>. QED BY <2>1, <2>2, <2>3 DEF LogOK
<1>. QED BY <1>0, <1>1, <1>3, <1>4, <1>5

(* A thread that holds the region, or could take it, goes into a flush.       *)
NewCall(c, l) ==
  /\ c \in CallFields /\ CallOK(c, l, log') /\ ~ c.failed /\ ~ c.flushing
  /\ c.op = "switch" => puts' < MaxPuts

LEMMA EnterKeeps ==
  ASSUME Base, NEW t \in Thread, NEW l, NEW c, EnterFlush(t, l, c),
         Follows(l, t), NewCall(c, l), l.in_flush = lp.in_flush,
         pc[t] \in {"idle", "enter", "return"}, region \in {None, t},
         mtx_flush' = mtx_flush
  PROVE  Base' /\ Grows(lp')
<1>0. /\ c \in CallFields /\ CallOK(c, l, log') /\ ~ c.failed /\ ~ c.flushing
      /\ c.op = "switch" => puts' < MaxPuts
  BY DEF NewCall
<1>1. pc \in [Thread -> {"idle", "enter", "wait", "woken", "flush", "sync", "finish", "return"}]
      /\ call \in [Thread -> CallFields]
  BY DEF Base, Shape
<1>2. None \notin Thread BY LogBufferAssumption
<1>3. ThreadOK(t) BY DEF Base
<1>4. t \notin Members(commits) /\ t \notin marked /\ mtx_flush # t BY <1>3 DEF ThreadOK
<1>5. PICK r \in log' : r.lsn = c.lsn BY <1>0 DEF CallOK
<1>6. /\ c.lsn \in LSN /\ c.lsn \in Pair /\ Less(c.lsn, l.lsn)
      /\ l \in LogFields /\ log' \in SUBSET Record /\ LogOK(l, log')
      /\ c.release \in BOOLEAN
  BY <1>0, <1>5, CallTypes, RecordsBefore DEF Follows, LogOK
<1>7. CASE ReturnsAtOnce(l, c) /\ lp' = l /\ Answer(t, c.lsn, c.op /= "again") /\ UNCHANGED group
  BY <1>4, <1>5, <1>7, AnswerKeeps DEF Follows
<1>8. CASE /\ ~ ReturnsAtOnce(l, c)
           /\ c.release /\ l.in_flush /= 0
           /\ lp' = [l EXCEPT !.t_lsn = IF Less(@, c.lsn) THEN c.lsn ELSE @]
           /\ commits' = <<t>> \o commits
           /\ call' = [call EXCEPT ![t] = c]
           /\ pc' = [pc EXCEPT ![t] = "wait"]
           /\ region' = None
           /\ UNCHANGED <<marked, told>>
  <2>1. /\ lp' \in LogFields /\ LogOK(lp', log') /\ Safe(lp') = Safe(l)
        /\ ~ Less(lp'.t_lsn, l.t_lsn) /\ ~ Less(lp'.t_lsn, c.lsn)
        /\ lp'.lsn = l.lsn /\ lp'.s_lsn = l.s_lsn /\ lp'.f_lsn = l.f_lsn /\ lp'.len = l.len
        /\ lp'.w_off = l.w_off /\ lp'.in_flush = l.in_flush
    <3>1. PICK m : m = [l EXCEPT !.t_lsn = IF Less(@, c.lsn) THEN c.lsn ELSE @] OBVIOUS
    <3>2. /\ m \in LogFields /\ LogOK(m, log') /\ Safe(m) = Safe(l)
          /\ ~ Less(m.t_lsn, l.t_lsn) /\ ~ Less(m.t_lsn, c.lsn)
          /\ m["lsn"] = l["lsn"] /\ m["s_lsn"] = l["s_lsn"] /\ m["f_lsn"] = l["f_lsn"]
          /\ m["len"] = l["len"] /\ m["w_off"] = l["w_off"] /\ m["in_flush"] = l["in_flush"]
      BY <1>6, <3>1, TargetKeeps
    <3>3. lp' = m BY <1>8, <3>1, Zenon
    <3>. QED BY <3>2, <3>3
  <2>2. Grows(lp')
    <3>1. lp.t_lsn \in Pair /\ l.t_lsn \in Pair /\ lp'.t_lsn \in Pair
      BY <1>6, <2>1, LogFieldTypes DEF Base, Shape
    <3>. QED BY <2>1, <3>1, Order DEF Grows, Follows
  <2>3. Follows(lp', t)
    <3>1. WrittenOK(written', lp', log') BY <2>1 DEF Follows, WrittenOK
    <3>2. \A s \in Thread \ {t} : Respects(lp', s) BY <2>1 DEF Follows, Respects
    <3>. QED BY <2>1, <2>2, <3>1, <3>2 DEF Follows
  <2>4. commits' \in Seq(Thread) /\ Members(commits') = Members(commits) \cup {t}
    <3>1. commits \in Seq(Thread) /\ <<t>> \in Seq(Thread) BY DEF Base, Shape
    <3>2. Members(<<t>>) = {t} BY DEF Members
    <3>3. PICK one : one = <<t>> OBVIOUS
    <3>4. one \in Seq(Thread) /\ Members(one) = {t} BY <3>1, <3>2, <3>3
    <3>5. one \o commits \in Seq(Thread)
          /\ Members(one \o commits) = Members(one) \cup Members(commits)
      BY <3>1, <3>4, ConcatMembers
    <3>6. commits' = one \o commits BY <1>8, <3>3, Zenon
    <3>. QED BY <3>4, <3>5, <3>6
  <2>5. /\ pc'[t] = "wait" /\ call'[t] = c
        /\ \A s \in Thread \ {t} : pc'[s] = pc[s] /\ call'[s] = call[s]
    BY <1>1, <1>8
  <2>6. Shape'
    <3>1. pc' \in [Thread -> {"idle", "enter", "wait", "woken",
                              "flush", "sync", "finish", "return"}]
          /\ call' \in [Thread -> CallFields]
      BY <1>0, <1>1, <1>8
    <3>. QED BY <1>8, <2>1, <2>4, <3>1 DEF Base, Shape, Follows, told
  <2>7. \A s \in Thread \ {t} : LeavesAlone(s)
    BY <1>2, <1>8, <2>4, <2>5 DEF LeavesAlone
  <2>8. ThreadOK(t)'
    <3>1. CallOK(c, lp', log')
      BY <1>0, <2>1 DEF CallOK, LastRecord
    <3>2. t \notin marked' /\ region' # t /\ t \in Members(commits') /\ mtx_flush' # t
      BY <1>2, <1>4, <1>8, <2>4
    <3>. QED BY <1>0, <1>8, <2>1, <2>5, <3>1, <3>2 DEF ThreadOK
  <2>9. CountOK'
    <3>1. InFlight' = InFlight BY <2>5 DEF InFlight
    <3>. QED BY <1>8, <2>1, <3>1 DEF Base, CountOK
  <2>. QED BY <2>2, <2>3, <2>6, <2>7, <2>8, <2>9, StepKeeps
<1>9. CASE /\ ~ ReturnsAtOnce(l, c)
           /\ ~ c.release \/ l.in_flush = 0
           /\ lp' = l
           /\ call' = [call EXCEPT ![t] = [c EXCEPT !.flush_lsn = c.lsn]]
           /\ pc' = [pc EXCEPT ![t] = "flush"]
           /\ region' = t
           /\ UNCHANGED <<group, told>>
  <2>1. PICK d : d = [c EXCEPT !.flush_lsn = c.lsn] OBVIOUS
  <2>2. /\ d \in CallFields /\ d.flush_lsn = c.lsn /\ d.lsn = c.lsn /\ d.op = c.op
        /\ d.release = c.release /\ d.failed = c.failed /\ d.flushing = c.flushing
        /\ d.size = c.size /\ d.flags = c.flags
    BY <1>0, <1>6, <2>1 DEF CallFields
  <2>3. /\ pc'[t] = "flush" /\ call'[t] = d
        /\ \A s \in Thread \ {t} : pc'[s] = pc[s] /\ call'[s] = call[s]
    BY <1>1, <1>9, <2>1
  <2>4. commits' = commits /\ marked' = marked BY <1>9 DEF group
  <2>5. Shape'
    <3>1. call' = [call EXCEPT ![t] = d] BY <1>9, <2>1, Zenon
    <3>2. pc' \in [Thread -> {"idle", "enter", "wait", "woken",
                              "flush", "sync", "finish", "return"}]
          /\ call' \in [Thread -> CallFields]
      BY <1>1, <1>9, <2>2, <3>1
    <3>. QED BY <1>9, <2>4, <3>2 DEF Base, Shape, Follows, told
  <2>6. \A s \in Thread \ {t} : LeavesAlone(s)
    BY <1>2, <1>9, <2>3, <2>4 DEF LeavesAlone
  <2>7. ThreadOK(t)'
    <3>1. CallOK(d, lp', log')
      BY <1>0, <1>9, <2>2 DEF CallOK
    <3>2. ~ Less(d.flush_lsn, d.lsn) /\ Less(d.flush_lsn, lp'.lsn) BY <1>6, <1>9, <2>2, Order
    <3>3. t \notin marked' /\ region' = t /\ t \notin Members(commits') /\ mtx_flush' # t
      BY <1>4, <1>9, <2>4
    <3>. QED BY <1>0, <2>2, <2>3, <3>1, <3>2, <3>3 DEF ThreadOK
  <2>8. CountOK'
    <3>1. InFlight' = InFlight BY <1>0, <2>2, <2>3 DEF InFlight
    <3>. QED BY <1>9, <2>4, <3>1 DEF Base, CountOK
  <2>. QED BY <1>9, <2>5, <2>6, <2>7, <2>8, StepKeeps DEF Follows
<1>. QED BY <1>7, <1>8, <1>9 DEF EnterFlush

-----------------------------------------------------------------------------
(* A put.                                                                     *)

PutAt(newfile) == IF newfile THEN NewFile(lp) ELSE lp

PutLeaves(newfile, n, flags) ==
  LET full == Fill(PutAt(newfile), n) IN IF flags = "wrnosync" THEN DrainBuffer(full) ELSE full

PutNew(newfile, n) == [id |-> puts + 1, form |-> "put", lsn |-> PutAt(newfile).lsn, size |-> n]

PutLog(newfile, n) ==
  log \cup (IF newfile THEN {Header(PutAt(newfile).lsn[1])} ELSE {}) \cup {PutNew(newfile, n)}

PutWritten(newfile, n, flags) ==
  LET l == PutLeaves(newfile, n, flags)
  IN  Write(PutLog(newfile, n), l.lsn[1], IF newfile THEN 0 ELSE lp.w_off, l.w_off)

(* The thread may put its record: it fits, or the file before is synced.      *)
MayPut(newfile, n) ==
  /\ newfile \in BOOLEAN /\ n \in Sizes
  /\ ~ newfile => ~ NeedsNewFile(n)
  /\ newfile => Less(LastRecord(lp), lp.s_lsn) /\ lp.lsn[1] < Files /\ mtx_flush = None

LEMMA Appends ==
  ASSUME Base, NEW newfile, NEW n, NEW flags, MayPut(newfile, n)
  PROVE  LET l == PutLeaves(newfile, n, flags)
             r == PutNew(newfile, n)
             new == PutLog(newfile, n)
         IN  /\ r \in new /\ r.lsn[2] # 0 /\ l \in LogFields /\ new \in SUBSET Record
             /\ LogOK(l, new)
             /\ ~ Less(Safe(l), Safe(lp)) /\ ~ Less(l.lsn, lp.lsn)
             /\ l.s_lsn = lp.s_lsn /\ l.t_lsn = lp.t_lsn /\ l.in_flush = lp.in_flush
             /\ l.f_lsn[1] = l.lsn[1]
             /\ ~ newfile => l.lsn[1] = lp.lsn[1]
             /\ newfile => l.lsn[1] = lp.lsn[1] + 1
             /\ \A q \in new : q \in log \/ (~ Less(q.lsn, lp.lsn) /\ q.lsn[1] = l.lsn[1])
             /\ l.w_off <= l.lsn[2]
<1>1. PICK at : at = PutAt(newfile) OBVIOUS
<1>2. PICK r : r = PutNew(newfile, n) OBVIOUS
<1>3. PICK before : before = log \cup (IF newfile THEN {Header(at.lsn[1])} ELSE {}) OBVIOUS
<1>4. PICK full : full = Fill(at, n) OBVIOUS
<1>5. PICK l : l = PutLeaves(newfile, n, flags) OBVIOUS
<1>6. n \in Nat /\ n >= 1 /\ n <= LogSize - 1 /\ LogSize \in Nat /\ LogSize >= 1
  BY LogBufferAssumption DEF MayPut
<1>7. /\ lp \in LogFields /\ log \in SUBSET Record /\ LogOK(lp, log)
      /\ lp.lsn \in Pair /\ lp.lsn[1] \in Nat /\ lp.lsn[2] \in Nat /\ Safe(lp) \in Pair
  BY LogFieldTypes DEF Base, Shape
<1>8. /\ at \in LogFields /\ before \in SUBSET Record /\ LogOK(at, before)
      /\ ~ Less(Safe(at), Safe(lp)) /\ ~ Less(at.lsn, lp.lsn)
      /\ at.s_lsn = lp.s_lsn /\ at.t_lsn = lp.t_lsn /\ at.in_flush = lp.in_flush
      /\ at.lsn[2] # 0 /\ at.lsn[2] + n <= LogSize
      /\ ~ newfile => at.lsn[1] = lp.lsn[1]
      /\ newfile => at.lsn[1] = lp.lsn[1] + 1
      /\ \A q \in before : q \in log \/ (~ Less(q.lsn, lp.lsn) /\ q.lsn[1] = at.lsn[1])
  <2>1. CASE ~ newfile
    <3>1. at = lp /\ before = log BY <1>1, <1>3, <2>1 DEF PutAt
    <3>. QED BY <1>6, <1>7, <2>1, <3>1, Order DEF MayPut, NeedsNewFile
  <2>2. CASE newfile
    <3>1. at = NewFile(lp) BY <1>1, <2>2 DEF PutAt
    <3>2. PICK h : h = Header(lp.lsn[1] + 1) OBVIOUS
    <3>3. /\ h \in Record /\ at \in LogFields /\ LogOK(at, log \cup {h})
          /\ ~ Less(Safe(at), Safe(lp)) /\ Less(lp.lsn, at.lsn)
          /\ at.lsn = <<lp.lsn[1] + 1, 1>>
          /\ at.s_lsn = lp.s_lsn /\ at.t_lsn = lp.t_lsn /\ at.in_flush = lp.in_flush
      BY <1>7, <2>2, <3>1, <3>2, NewFileKeeps DEF MayPut
    <3>4. at.lsn[1] = lp.lsn[1] + 1 /\ at.lsn[2] = 1 BY <3>3
    <3>5. before = log \cup {h} BY <1>3, <2>2, <3>2, <3>4
    <3>6. at.lsn \in Pair /\ ~ Less(at.lsn, lp.lsn) BY <1>7, <3>3, LogFieldTypes, Order
    <3>7. ~ Less(h.lsn, lp.lsn)
      <4>1. h.lsn = <<lp.lsn[1] + 1, 0>> BY <3>2 DEF Header
      <4>. QED BY <1>7, <4>1 DEF Less
    <3>8. h.lsn[1] = at.lsn[1] BY <3>2, <3>4 DEF Header
    <3>. QED BY <1>6, <1>7, <2>2, <3>3, <3>4, <3>5, <3>6, <3>7, <3>8
  <2>. QED BY <2>1, <2>2
<1>9. /\ r.lsn = at.lsn /\ r.size = n /\ r \in Record /\ EndOf(r) <= LogSize
  <2>1. r = [id |-> puts + 1, form |-> "put", lsn |-> at.lsn, size |-> n]
    BY <1>1, <1>2 DEF PutNew
  <2>2. at.lsn \in LSN /\ puts + 1 \in Nat
    BY <1>8, LogFieldTypes, LogBufferAssumption DEF Base, Shape
  <2>3. n \in 1..LogSize BY <1>6
  <2>4. r.lsn = at.lsn /\ r.size = n /\ r \in Record BY <2>1, <2>2, <2>3 DEF Record
  <2>. QED BY <1>8, <2>4 DEF EndOf
<1>10. /\ full \in LogFields /\ LogOK(full, before \cup {r})
       /\ ~ Less(Safe(full), Safe(at)) /\ Less(at.lsn, full.lsn)
       /\ full.lsn = <<at.lsn[1], at.lsn[2] + n>> /\ full.f_lsn[1] = at.lsn[1]
       /\ full.s_lsn = at.s_lsn /\ full.t_lsn = at.t_lsn /\ full.in_flush = at.in_flush
  BY <1>4, <1>8, <1>9, FillKeeps DEF LogOK
<1>11. /\ l \in LogFields /\ LogOK(l, before \cup {r})
       /\ ~ Less(Safe(l), Safe(full)) /\ l.lsn = full.lsn /\ l.f_lsn = full.f_lsn
       /\ l.s_lsn = full.s_lsn /\ l.t_lsn = full.t_lsn /\ l.in_flush = full.in_flush
  <2>1. CASE flags # "wrnosync"
    <3>1. l = full BY <1>1, <1>4, <1>5, <2>1 DEF PutLeaves
    <3>2. Safe(full) \in Pair BY <1>10, LogFieldTypes
    <3>. QED BY <1>10, <3>1, <3>2, Order
  <2>2. CASE flags = "wrnosync"
    <3>1. l = DrainBuffer(full) BY <1>1, <1>4, <1>5, <2>2 DEF PutLeaves
    <3>2. before \cup {r} \in SUBSET Record BY <1>8, <1>9
    <3>3. /\ l \in LogFields /\ LogOK(l, before \cup {r}) /\ ~ Less(Safe(l), Safe(full))
          /\ l["lsn"] = full["lsn"] /\ l["s_lsn"] = full["s_lsn"] /\ l["t_lsn"] = full["t_lsn"]
          /\ l["f_lsn"] = full["f_lsn"] /\ l["in_flush"] = full["in_flush"]
      BY <1>10, <3>1, <3>2, DrainKeeps
    <3>. QED BY <3>3
  <2>. QED BY <2>1, <2>2
<1>12. /\ Safe(at) \in Pair /\ Safe(full) \in Pair /\ Safe(l) \in Pair /\ at.lsn \in Pair
       /\ full.lsn \in Pair /\ full.lsn[1] = at.lsn[1]
       /\ l.w_off \in Nat /\ l.b_off \in Nat /\ l.lsn[2] \in Nat
  BY <1>8, <1>10, <1>11, LogFieldTypes
<1>13. ~ Less(Safe(l), Safe(lp))
  BY <1>7, <1>8, <1>10, <1>11, <1>12, Order
<1>14. ~ Less(l.lsn, lp.lsn) BY <1>7, <1>8, <1>10, <1>11, <1>12, Order
<1>15. PutLog(newfile, n) = before \cup {r} BY <1>1, <1>2, <1>3 DEF PutLog
<1>16. \A q \in before \cup {r} : q \in log \/ (~ Less(q.lsn, lp.lsn) /\ q.lsn[1] = l.lsn[1])
  <2>1. l.lsn[1] = at.lsn[1] BY <1>11, <1>12
  <2>. QED BY <1>8, <1>9, <2>1
<1>17. l.w_off <= l.lsn[2]
  <2>1. l.w_off + l.b_off = l.lsn[2] BY <1>11 DEF LogOK, Buffered
  <2>. QED BY <1>12, <2>1
<1>. QED BY <1>2, <1>5, <1>8, <1>9, <1>10, <1>11, <1>12, <1>13, <1>14, <1>15, <1>16, <1>17

(* What a put writes is what has left the buffer.                             *)
LEMMA PutWrites ==
  ASSUME Base, NEW newfile, NEW n, NEW flags, MayPut(newfile, n)
  PROVE  /\ ImageOK(PutWritten(newfile, n, flags))
         /\ WrittenOK(PutWritten(newfile, n, flags), PutLeaves(newfile, n, flags), PutLog(newfile, n))
<1>1. PICK l : l = PutLeaves(newfile, n, flags) OBVIOUS
<1>2. PICK new : new = PutLog(newfile, n) OBVIOUS
<1>3. PICK from : from = IF newfile THEN 0 ELSE lp.w_off OBVIOUS
<1>4. /\ l \in LogFields /\ new \in SUBSET Record /\ Placed(l, new) /\ l.w_off <= l.lsn[2]
      /\ ~ newfile => l.lsn[1] = lp.lsn[1]
      /\ newfile => l.lsn[1] = lp.lsn[1] + 1
      /\ \A q \in new : q \in log \/ (~ Less(q.lsn, lp.lsn) /\ q.lsn[1] = l.lsn[1])
  BY <1>1, <1>2, Appends DEF LogOK
<1>5. /\ lp \in LogFields /\ log \in SUBSET Record /\ LogOK(lp, log)
      /\ lp.lsn[1] \in Nat /\ lp.lsn[2] \in Nat /\ lp.w_off \in Nat /\ lp.b_off \in Nat
      /\ l.w_off \in Nat /\ l.lsn[1] \in Nat
  BY <1>4, LogFieldTypes DEF Base, Shape
<1>6. lp.w_off <= lp.lsn[2] /\ (newfile => lp.w_off = lp.lsn[2])
  <2>1. lp.w_off + lp.b_off = lp.lsn[2] BY <1>5 DEF LogOK, Buffered
  <2>2. newfile => lp.w_off = lp.lsn[2] BY <1>5, NewFileKeeps DEF MayPut
  <2>. QED BY <1>5, <2>1, <2>2
<1>7. \A q \in new, k \in Offset :
        (/\ k < q.size /\ (q.lsn[1] < l.lsn[1] \/ q.lsn[2] + k < l.w_off)
         /\ ~ (q.lsn[1] = l.lsn[1] /\ from <= q.lsn[2] + k /\ q.lsn[2] + k < l.w_off))
          => written[q.lsn[1]][q.lsn[2] + k] = <<q, k>>
  <2>0. TAKE q \in new, k \in Offset
  <2>1. HAVE /\ k < q.size /\ (q.lsn[1] < l.lsn[1] \/ q.lsn[2] + k < l.w_off)
             /\ ~ (q.lsn[1] = l.lsn[1] /\ from <= q.lsn[2] + k /\ q.lsn[2] + k < l.w_off)
  <2>2. q.lsn[1] \in Nat /\ q.lsn[2] \in Nat /\ q.size \in Nat /\ k \in Nat
    BY <1>4, RecordFields, LogBufferAssumption DEF Offset
  <2>3. q.lsn[1] <= l.lsn[1] BY <1>4, <1>5, <2>2 DEF Placed
  <2>4. q \in log
    <3>1. SUFFICES ASSUME q \notin log PROVE FALSE OBVIOUS
    <3>2. ~ Less(q.lsn, lp.lsn) /\ q.lsn[1] = l.lsn[1] BY <1>4, <3>1
    <3>. QED BY <1>3, <1>4, <1>5, <1>6, <2>1, <2>2, <2>3, <3>2 DEF Less, MayPut
  <2>5. q.lsn[1] < lp.lsn[1] \/ q.lsn[2] + k < lp.w_off
    <3>1. q.lsn[1] < lp.lsn[1] \/ (q.lsn[1] = lp.lsn[1] /\ EndOf(q) <= lp.lsn[2])
      BY <1>5, <2>4 DEF LogOK, Placed
    <3>. QED BY <1>3, <1>4, <1>5, <1>6, <2>1, <2>2, <3>1 DEF EndOf, MayPut
  <2>. QED BY <2>1, <2>4, <2>5 DEF Base, WrittenOK
<1>8. from \in Nat BY <1>3, <1>5
<1>9. PutWritten(newfile, n, flags) = Write(new, l.lsn[1], from, l.w_off)
  BY <1>1, <1>2, <1>3 DEF PutWritten
<1>10. ImageOK(written) BY DEF Base
<1>11. /\ ImageOK(Write(new, l.lsn[1], from, l.w_off))
       /\ WrittenOK(Write(new, l.lsn[1], from, l.w_off), l, new)
  <2>1. PICK to \in Nat : to = l.w_off BY <1>5
  <2>. QED BY <1>4, <1>7, <1>8, <1>10, <2>1, WriteKeeps
<1>. QED BY <1>1, <1>2, <1>9, <1>11

LEMMA PutKeeps ==
  ASSUME Base, NEW t \in Thread, NEW newfile, NEW n, NEW flags, MayPut(newfile, n),
         PutRecord(t, newfile, n, flags), region \in {None, t},
         pc[t] \in {"idle", "return"}, puts < MaxPuts
  PROVE  Base' /\ Grows(lp')
<1>1. PICK l : l = PutLeaves(newfile, n, flags) OBVIOUS
<1>2. PICK r : r = PutNew(newfile, n) OBVIOUS
<1>3. /\ r \in PutLog(newfile, n) /\ r.lsn[2] # 0 /\ l \in LogFields
      /\ PutLog(newfile, n) \in SUBSET Record /\ LogOK(l, PutLog(newfile, n))
      /\ ~ Less(Safe(l), Safe(lp)) /\ ~ Less(l.lsn, lp.lsn)
      /\ l.s_lsn = lp.s_lsn /\ l.t_lsn = lp.t_lsn /\ l.in_flush = lp.in_flush
      /\ l.f_lsn[1] = l.lsn[1]
      /\ ~ newfile => l.lsn[1] = lp.lsn[1]
  BY <1>1, <1>2, Appends
<1>4. /\ log' = PutLog(newfile, n) /\ written' = PutWritten(newfile, n, flags)
      /\ puts' = puts + 1 /\ UNCHANGED <<stable, tail, mtx_flush, faults, crashes, panicked>>
  BY Zenon DEF PutRecord, PutLog, PutWritten, PutLeaves, PutNew, PutAt
<1>5. \/ /\ flags = "flush"
         /\ EnterFlush(t, l, [NoCall EXCEPT !.op = "commit", !.lsn = r.lsn])
      \/ flags # "flush" /\ lp' = l /\ Answer(t, r.lsn, FALSE) /\ UNCHANGED group
  BY <1>1, <1>2, Zenon DEF PutRecord, PutLeaves, PutNew, PutAt
<1>6. Follows(l, t)
  <2>1. ImageOK(written') /\ WrittenOK(written', l, log') BY <1>1, <1>4, PutWrites
  <2>2. lp.s_lsn \in Pair /\ lp.t_lsn \in Pair /\ faults \in Nat
    BY LogFieldTypes, LogBufferAssumption DEF Base, Shape
  <2>3. \A q \in log : q \in log' BY <1>4 DEF PutLog
  <2>4. Grows(l) BY <1>3, <1>4, <2>2, <2>3, Order DEF Grows
  <2>5. \A s \in Thread \ {t} : Respects(l, s)
    <3>1. None \notin Thread BY LogBufferAssumption
    <3>. QED BY <1>3, <3>1 DEF Respects, MayPut
  <2>6. puts' \in 0..MaxPuts BY <1>4, LogBufferAssumption DEF Base, Shape
  <2>. QED BY <1>3, <1>4, <2>1, <2>4, <2>5, <2>6 DEF Follows, Base, Shape
<1>7. CASE flags = "flush" /\ EnterFlush(t, l, [NoCall EXCEPT !.op = "commit", !.lsn = r.lsn])
  <2>1. PICK c : c = [NoCall EXCEPT !.op = "commit", !.lsn = r.lsn] OBVIOUS
  <2>2. EnterFlush(t, l, c) BY <1>7, <2>1, Zenon
  <2>3. NewCall(c, l)
    <3>1. r.lsn \in LSN BY <1>3, RecordFields
    <3>2. /\ c \in CallFields /\ c.op = "commit" /\ c.lsn = r.lsn /\ c.release = TRUE
          /\ c.failed = FALSE /\ c.flushing = FALSE
      BY <2>1, <3>1, NoCallFields DEF CallFields
    <3>. QED BY <1>3, <1>4, <3>2 DEF NewCall, CallOK
  <2>. QED BY <1>3, <1>4, <1>6, <2>2, <2>3, EnterKeeps
<1>8. CASE lp' = l /\ Answer(t, r.lsn, FALSE) /\ UNCHANGED group
  <2>1. t \notin marked
    <3>1. ThreadOK(t) BY DEF Base
    <3>. QED BY <3>1 DEF ThreadOK
  <2>2. \E q \in log' : q.lsn = r.lsn BY <1>3, <1>4
  <2>. QED BY <1>3, <1>4, <1>6, <1>8, <2>1, <2>2, AnswerKeeps DEF Follows
<1>. QED BY <1>5, <1>7, <1>8

-----------------------------------------------------------------------------
(* The actions.                                                               *)

LEMMA StillFollows ==
  ASSUME Base, NEW t \in Thread, UNCHANGED <<log, disk, bounds>>,
         mtx_flush' \in {None, mtx_flush}, panicked' \in BOOLEAN
  PROVE  Follows(lp, t)
<1>1. /\ UNCHANGED <<log, written, stable, puts>> /\ faults' = faults /\ tail' = tail
      /\ crashes' = crashes
  BY DEF disk, bounds
<1>2. faults \in Nat BY LogBufferAssumption DEF Base, Shape
<1>3. Grows(lp) BY <1>1, <1>2, StandsStill
<1>. QED BY <1>1, <1>3, StandsStill DEF Follows, Base, Shape

LEMMA PutStep ==
  ASSUME Base, NEW t \in Thread, NEW n \in Sizes, NEW flags \in {"none", "wrnosync", "flush"},
         Put(t, n, flags)
  PROVE  Base' /\ Grows(lp')
<1>1. pc[t] = "idle" /\ region = None /\ puts < MaxPuts BY DEF Put
<1>2. CASE ~ NeedsNewFile(n) /\ PutRecord(t, FALSE, n, flags)
  <2>1. MayPut(FALSE, n) BY <1>2 DEF MayPut
  <2>. QED BY <1>1, <1>2, <2>1, PutKeeps
<1>3. CASE /\ lp.lsn[1] < Files
           /\ EnterFlush(t, lp, [NoCall EXCEPT !.op = "switch", !.lsn = LastRecord(lp),
                                               !.release = FALSE, !.size = n, !.flags = flags])
           /\ UNCHANGED <<log, disk, mtx_flush, bounds, panicked>>
  <2>1. PICK c : c = [NoCall EXCEPT !.op = "switch", !.lsn = LastRecord(lp),
                                    !.release = FALSE, !.size = n, !.flags = flags]
    OBVIOUS
  <2>2. EnterFlush(t, lp, c) BY <1>3, <2>1, Zenon
  <2>3. lp \in LogFields /\ log \in SUBSET Record /\ LogOK(lp, log) BY DEF Base, Shape
  <2>4. /\ c \in CallFields /\ c.op = "switch" /\ c.lsn = LastRecord(lp) /\ c.release = FALSE
        /\ c.failed = FALSE /\ c.flushing = FALSE /\ c.size = n /\ c.flags = flags
    <3>1. LastRecord(lp) \in LSN BY <2>3, LastIsLast
    <3>2. n \in 1..LogSize BY LogBufferAssumption
    <3>. QED BY <2>1, <3>1, <3>2, NoCallFields DEF CallFields
  <2>5. NewCall(c, lp)
    <3>1. log' = log /\ puts' = puts BY <1>3 DEF bounds
    <3>2. \E r \in log' : r.lsn = c.lsn BY <2>3, <2>4, <3>1 DEF LogOK, LastIs
    <3>. QED BY <1>1, <1>3, <2>4, <3>1, <3>2 DEF NewCall, CallOK
  <2>6. Follows(lp, t) BY <1>3, StillFollows DEF Base, Shape
  <2>. QED BY <1>1, <1>3, <2>2, <2>5, <2>6, EnterKeeps
<1>. QED BY <1>2, <1>3 DEF Put

LEMMA LogFlushStep ==
  ASSUME Base, NEW t \in Thread, NEW r \in log, LogFlush(t, r)
  PROVE  Base' /\ Grows(lp')
<1>1. /\ pc[t] = "idle" /\ UNCHANGED <<lp, log, disk, group, mutexes, bounds, panicked>>
      /\ lp' = lp /\ log' = log /\ mtx_flush' = mtx_flush /\ region' = region
      /\ commits' = commits /\ marked' = marked
  BY DEF LogFlush, group, mutexes
<1>2. Follows(lp', t) /\ Grows(lp') BY <1>1, StillFollows DEF Base, Shape, Follows
<1>3. ThreadOK(t) BY DEF Base
<1>4. /\ t \notin marked /\ t \notin Members(commits) /\ mtx_flush # t /\ region # t
  BY <1>1, <1>3 DEF ThreadOK
<1>5. CASE Answer(t, r.lsn, TRUE)
  BY <1>1, <1>2, <1>4, <1>5, AnswerKeeps
<1>6. CASE /\ pc' = [pc EXCEPT ![t] = "enter"]
           /\ call' = [call EXCEPT ![t] = [NoCall EXCEPT !.op = "flush", !.lsn = r.lsn]]
           /\ UNCHANGED told
  <2>1. PICK c : c = [NoCall EXCEPT !.op = "flush", !.lsn = r.lsn] OBVIOUS
  <2>2. r.lsn \in LSN BY RecordFields DEF Base, Shape
  <2>3. /\ c \in CallFields /\ c.op = "flush" /\ c.lsn = r.lsn /\ c.release = TRUE
        /\ c.failed = FALSE /\ c.flushing = FALSE
    BY <2>1, <2>2, NoCallFields DEF CallFields
  <2>4. call' = [call EXCEPT ![t] = c] BY <1>6, <2>1, Zenon
  <2>5. /\ pc' \in [Thread -> {"idle", "enter", "wait", "woken",
                               "flush", "sync", "finish", "return"}]
        /\ call' \in [Thread -> CallFields]
        /\ pc'[t] = "enter" /\ call'[t] = c
        /\ \A s \in Thread \ {t} : pc'[s] = pc[s] /\ call'[s] = call[s]
    BY <1>6, <2>3, <2>4 DEF Base, Shape
  <2>6. Shape' BY <1>1, <1>2, <1>6, <2>5 DEF Base, Shape, Follows, told
  <2>7. \A s \in Thread \ {t} : LeavesAlone(s) BY <1>1, <2>5 DEF LeavesAlone
  <2>8. ThreadOK(t)'
    <3>1. CallOK(c, lp', log') BY <1>1, <2>3 DEF CallOK
    <3>. QED BY <1>1, <1>4, <2>3, <2>5, <3>1 DEF ThreadOK
  <2>9. CountOK'
    <3>1. InFlight' = InFlight BY <1>1, <2>5 DEF InFlight
    <3>. QED BY <1>1, <3>1 DEF Base, CountOK
  <2>. QED BY <1>2, <2>6, <2>7, <2>8, <2>9, StepKeeps
<1>. QED BY <1>5, <1>6 DEF LogFlush

LEMMA LogFlushEnterStep ==
  ASSUME Base, NEW t \in Thread, LogFlushEnter(t)
  PROVE  Base' /\ Grows(lp')
<1>1. /\ pc[t] = "enter" /\ region = None
      /\ UNCHANGED <<log, disk, mtx_flush, bounds, panicked>>
      /\ EnterFlush(t, lp, call[t])
  BY DEF LogFlushEnter
<1>2. Follows(lp, t) BY <1>1, StillFollows DEF Base, Shape
<1>3. NewCall(call[t], lp)
  <2>1. ThreadOK(t) /\ call[t] \in CallFields BY DEF Base, Shape
  <2>2. log' = log /\ puts' = puts BY <1>1 DEF bounds
  <2>. QED BY <1>1, <2>1, <2>2 DEF NewCall, ThreadOK
<1>. QED BY <1>1, <1>2, <1>3, EnterKeeps

LEMMA LogFlushAllStep ==
  ASSUME Base, NEW t \in Thread, LogFlushAll(t)
  PROVE  Base' /\ Grows(lp')
<1>1. /\ pc[t] = "idle" /\ region = None
      /\ UNCHANGED <<log, disk, mtx_flush, bounds, panicked>>
      /\ EnterFlush(t, lp, [NoCall EXCEPT !.op = "flush", !.lsn = LastRecord(lp), !.flags = "all"])
  BY DEF LogFlushAll
<1>2. PICK c : c = [NoCall EXCEPT !.op = "flush", !.lsn = LastRecord(lp), !.flags = "all"]
  OBVIOUS
<1>3. EnterFlush(t, lp, c) BY <1>1, <1>2, Zenon
<1>4. lp \in LogFields /\ log \in SUBSET Record /\ LogOK(lp, log) BY DEF Base, Shape
<1>5. /\ c \in CallFields /\ c.op = "flush" /\ c.lsn = LastRecord(lp) /\ c.release = TRUE
      /\ c.failed = FALSE /\ c.flushing = FALSE
  <2>1. LastRecord(lp) \in LSN BY <1>4, LastIsLast
  <2>. QED BY <1>2, <2>1, NoCallFields DEF CallFields
<1>6. NewCall(c, lp)
  <2>1. log' = log BY <1>1
  <2>2. \E r \in log' : r.lsn = c.lsn BY <1>4, <1>5, <2>1 DEF LogOK, LastIs
  <2>. QED BY <1>5, <2>2 DEF NewCall, CallOK
<1>7. Follows(lp, t) BY <1>1, StillFollows DEF Base, Shape
<1>. QED BY <1>1, <1>3, <1>6, <1>7, EnterKeeps

(* A change of in_flush alone.                                                *)
LEMMA CountChanges ==
  ASSUME NEW l \in LogFields, NEW records, LogOK(l, records), NEW k \in Int
  PROVE  LET m == [l EXCEPT !.in_flush = k] IN
         /\ m \in LogFields /\ LogOK(m, records) /\ Safe(m) = Safe(l) /\ m.in_flush = k
         /\ \A field \in {"lsn", "s_lsn", "t_lsn", "f_lsn", "len", "b_off", "w_off"} :
              m[field] = l[field]
<1>1. PICK m : m = [l EXCEPT !.in_flush = k] OBVIOUS
<1>2. /\ m \in LogFields /\ m.in_flush = k
      /\ m.lsn = l.lsn /\ m.s_lsn = l.s_lsn /\ m.t_lsn = l.t_lsn /\ m.f_lsn = l.f_lsn
      /\ m.len = l.len /\ m.b_off = l.b_off /\ m.w_off = l.w_off
  BY <1>1 DEF LogFields
<1>3. Safe(m) = Safe(l) BY <1>2 DEF Safe
<1>4. LogOK(m, records)
  <2>1. Placed(m, records) BY <1>2 DEF LogOK, Placed
  <2>2. Buffered(m, records) BY <1>2, <1>3 DEF LogOK, Buffered
  <2>3. FileKnown(m) /\ LastIs(m, records)
    BY <1>2 DEF LogOK, FileKnown, LastIs, LastRecord
  <2>. QED BY <2>1, <2>2, <2>3 DEF LogOK
<1>. QED BY <1>1, <1>2, <1>3, <1>4

LEMMA CountFollows ==
  ASSUME Base, NEW t \in Thread, UNCHANGED <<log, disk, bounds>>,
         mtx_flush' \in {None, mtx_flush}, panicked' \in BOOLEAN,
         NEW k \in Int, lp' = [lp EXCEPT !.in_flush = k]
  PROVE  /\ Follows(lp', t) /\ Grows(lp') /\ lp'.in_flush = k
         /\ lp'.lsn = lp.lsn /\ lp'.s_lsn = lp.s_lsn /\ lp'.t_lsn = lp.t_lsn /\ lp'.len = lp.len
<1>1. Follows(lp, t) BY StillFollows
<1>2. lp \in LogFields /\ LogOK(lp, log') BY <1>1 DEF Follows
<1>3. PICK m : m = [lp EXCEPT !.in_flush = k] OBVIOUS
<1>4. /\ m \in LogFields /\ LogOK(m, log') /\ Safe(m) = Safe(lp) /\ m.in_flush = k
      /\ m["lsn"] = lp["lsn"] /\ m["s_lsn"] = lp["s_lsn"] /\ m["t_lsn"] = lp["t_lsn"]
      /\ m["f_lsn"] = lp["f_lsn"] /\ m["len"] = lp["len"] /\ m["w_off"] = lp["w_off"]
  BY <1>2, <1>3, CountChanges
<1>5. lp' = m BY <1>3, Zenon
<1>6. /\ lp' \in LogFields /\ LogOK(lp', log') /\ Safe(lp') = Safe(lp) /\ lp'.in_flush = k
      /\ lp'.lsn = lp.lsn /\ lp'.s_lsn = lp.s_lsn /\ lp'.t_lsn = lp.t_lsn
      /\ lp'.f_lsn = lp.f_lsn /\ lp'.len = lp.len /\ lp'.w_off = lp.w_off
  BY <1>4, <1>5
<1>7. Grows(lp') BY <1>1, <1>6 DEF Follows, Grows
<1>8. WrittenOK(written', lp', log') BY <1>1, <1>6 DEF Follows, WrittenOK
<1>9. \A s \in Thread \ {t} : Respects(lp', s) BY <1>1, <1>6 DEF Follows, Respects
<1>. QED BY <1>1, <1>6, <1>7, <1>8, <1>9 DEF Follows

LEMMA WakeStep ==
  ASSUME Base, NEW t \in Thread, Wake(t)
  PROVE  Base' /\ Grows(lp')
<1>1. /\ pc[t] = "woken" /\ region = None
      /\ UNCHANGED <<log, disk, commits, mtx_flush, bounds, panicked>>
  BY DEF Wake
<1>2. ThreadOK(t) /\ call[t] \in CallFields BY DEF Base, Shape
<1>3. CallOK(call[t], lp, log) /\ ~ call[t].failed /\ ~ call[t].flushing /\ call[t].release
  BY <1>1, <1>2 DEF ThreadOK
<1>4. CASE t \in marked
  <2>1. /\ lp' = [lp EXCEPT !.in_flush = @ - 1]
        /\ marked' = marked \ {t}
        /\ region' = t
        /\ pc' = [pc EXCEPT ![t] = "flush"]
        /\ call' = [call EXCEPT ![t].flush_lsn = lp.t_lsn]
        /\ UNCHANGED told
    BY <1>4 DEF Wake
  <2>2. PICK d : d = [call[t] EXCEPT !.flush_lsn = lp.t_lsn] OBVIOUS
  <2>3. lp.t_lsn \in LSN /\ lp.in_flush \in Int BY DEF Base, Shape, LogFields
  <2>4. /\ d \in CallFields /\ d.flush_lsn = lp.t_lsn /\ d.lsn = call[t].lsn /\ d.op = call[t].op
        /\ d.release = call[t].release /\ d.failed = call[t].failed /\ d.flushing = call[t].flushing
        /\ d.size = call[t].size /\ d.flags = call[t].flags
    BY <1>2, <2>2, <2>3 DEF CallFields
  <2>5. call' = [call EXCEPT ![t] = d] BY <2>1, <2>2 DEF Base, Shape
  <2>6. /\ pc' \in [Thread -> {"idle", "enter", "wait", "woken",
                               "flush", "sync", "finish", "return"}]
        /\ call' \in [Thread -> CallFields]
        /\ pc'[t] = "flush" /\ call'[t] = d
        /\ \A s \in Thread \ {t} : pc'[s] = pc[s] /\ call'[s] = call[s]
    BY <2>1, <2>4, <2>5 DEF Base, Shape
  <2>7. PICK k \in Int : k = lp.in_flush - 1 BY <2>3
  <2>8. lp' = [lp EXCEPT !.in_flush = k] BY <2>1, <2>7
  <2>9. /\ Follows(lp', t) /\ Grows(lp') /\ lp'.in_flush = k /\ lp'.lsn = lp.lsn
        /\ lp'.s_lsn = lp.s_lsn /\ lp'.len = lp.len
    BY <1>1, <2>8, CountFollows DEF Base, Shape
  <2>10. Shape' BY <1>1, <2>1, <2>6, <2>9 DEF Base, Shape, Follows, told
  <2>11. \A s \in Thread \ {t} : LeavesAlone(s)
    <3>1. None \notin Thread BY LogBufferAssumption
    <3>. QED BY <1>1, <2>1, <2>6, <3>1 DEF LeavesAlone
  <2>12. ThreadOK(t)'
    <3>1. CallOK(d, lp', log')
      BY <1>1, <1>3, <2>4, <2>9 DEF CallOK, LastRecord
    <3>2. ~ Less(lp.t_lsn, call[t].lsn) /\ Less(lp.t_lsn, lp.lsn) /\ mtx_flush # t
          /\ t \notin Members(commits)
      BY <1>1, <1>2, <1>4 DEF ThreadOK, Base, LogOK, Buffered
    <3>3. d.op # "switch" BY <1>3, <2>4 DEF CallOK
    <3>. QED BY <1>1, <1>3, <2>1, <2>4, <2>6, <2>9, <3>1, <3>2, <3>3 DEF ThreadOK
  <2>13. CountOK'
    <3>1. InFlight' = InFlight BY <1>1, <2>6 DEF InFlight
    <3>2. IsFiniteSet(marked) BY FS_Subset, LogBufferAssumption DEF Base, Shape
    <3>3. Cardinality(marked') = Cardinality(marked) - 1 /\ Cardinality(marked) \in Nat
      BY <1>4, <2>1, <3>2, FS_RemoveElement, FS_CardinalityType
    <3>4. IsFiniteSet(InFlight) BY FS_Subset, LogBufferAssumption DEF InFlight
    <3>5. Cardinality(InFlight) \in Nat BY <3>4, FS_CardinalityType
    <3>. QED BY <2>7, <2>9, <3>1, <3>3, <3>5 DEF Base, CountOK
  <2>. QED BY <2>9, <2>10, <2>11, <2>12, <2>13, StepKeeps
<1>5. CASE t \notin marked
  <2>1. Answer(t, call[t].lsn, TRUE) /\ lp' = lp /\ UNCHANGED <<group, mtx_flush>>
    BY <1>1, <1>5 DEF Wake, group
  <2>2. Follows(lp', t) /\ Grows(lp') BY <1>1, <2>1, StillFollows DEF Base, Shape, Follows
  <2>3. \E r \in log' : r.lsn = call[t].lsn BY <1>1, <1>3 DEF CallOK
  <2>. QED BY <1>1, <1>5, <2>1, <2>2, <2>3, AnswerKeeps
<1>. QED BY <1>4, <1>5

(* The flush was made by somebody else.                                       *)
LEMMA FlushIsDoneStep ==
  ASSUME Base, NEW t \in Thread, FlushIsDone(t)
  PROVE  Base' /\ Grows(lp')
<1>1. /\ pc[t] = "flush" /\ mtx_flush = None /\ Less(call[t].flush_lsn, lp.s_lsn)
      /\ pc' = [pc EXCEPT ![t] = "finish"] /\ call' = call
      /\ UNCHANGED <<log, disk, bounds, told>> /\ lp' = lp /\ mtx_flush' = mtx_flush
      /\ region' = region
      /\ panicked' = panicked /\ commits' = commits /\ marked' = marked /\ log' = log
      /\ puts' = puts /\ faults' = faults
  BY DEF FlushIsDone, group, mutexes, bounds
<1>2. Follows(lp', t) /\ Grows(lp') BY <1>1, StillFollows DEF Base, Shape, Follows
<1>3. ThreadOK(t) /\ call[t] \in CallFields BY DEF Base, Shape
<1>4. Less(call[t].lsn, lp.s_lsn)
  <2>1. ~ Less(call[t].flush_lsn, call[t].lsn) BY <1>1, <1>3 DEF ThreadOK
  <2>2. call[t].lsn \in Pair /\ call[t].flush_lsn \in Pair /\ lp.s_lsn \in Pair
    BY <1>3, CallTypes, LogFieldTypes DEF Base, Shape
  <2>. QED BY <1>1, <2>1, <2>2, Order
<1>5. /\ pc' \in [Thread -> {"idle", "enter", "wait", "woken", "flush", "sync", "finish", "return"}]
      /\ pc'[t] = "finish" /\ \A s \in Thread \ {t} : pc'[s] = pc[s]
  BY <1>1 DEF Base, Shape
<1>6. Shape' BY <1>1, <1>2, <1>5 DEF Base, Shape, Follows, told
<1>7. \A s \in Thread \ {t} : LeavesAlone(s) BY <1>1, <1>5 DEF LeavesAlone
<1>8. ThreadOK(t)'
  BY <1>1, <1>3, <1>4, <1>5 DEF ThreadOK
<1>9. CountOK'
  <2>1. ~ call[t].flushing BY <1>1, <1>3 DEF ThreadOK
  <2>2. InFlight' = InFlight BY <1>1, <1>5, <2>1 DEF InFlight
  <2>. QED BY <1>1, <2>2 DEF Base, CountOK
<1>. QED BY <1>2, <1>6, <1>7, <1>8, <1>9, StepKeeps

(* The write or the fsync fails.                                              *)
LEMMA FailKeeps ==
  ASSUME Base, NEW t \in Thread, pc[t] \in {"flush", "sync"}, NEW fault, MayFail(fault),
         pc[t] = "flush" => mtx_flush = None /\ mtx_flush' = None,
         pc[t] = "sync" => mtx_flush' = None,
         faults' = faults + 1, call' = [call EXCEPT ![t].failed = TRUE],
         pc' = [pc EXCEPT ![t] = "finish"],
         UNCHANGED <<lp, log, disk, group, region, told, puts, crashes, panicked>>
  PROVE  Base' /\ Grows(lp')
<1>1. /\ lp' = lp /\ log' = log /\ region' = region /\ commits' = commits /\ marked' = marked
      /\ puts' = puts /\ crashes' = crashes /\ panicked' = panicked /\ tail' = tail
      /\ UNCHANGED <<log, written, stable, puts>>
  BY DEF disk, group
<1>2. faults \in Nat /\ faults < MaxFaults /\ lp.lsn[1] <= FaultyFiles
  BY LogBufferAssumption DEF MayFail, Base, Shape
<1>3. /\ Grows(lp') /\ \A s \in Thread : Respects(lp', s)
  <2>1. mtx_flush' \in {None, mtx_flush} OBVIOUS
  <2>2. faults' >= faults BY <1>2
  <2>. QED BY <1>1, <2>1, <2>2, StandsStill
<1>4. faults' \in 0..MaxFaults BY <1>2, LogBufferAssumption
<1>5. Follows(lp', t) BY <1>1, <1>3, <1>4, StandsStill DEF Follows, Base, Shape
<1>6. ThreadOK(t) /\ call[t] \in CallFields BY DEF Base, Shape
<1>7. PICK d : d = [call[t] EXCEPT !.failed = TRUE] OBVIOUS
<1>8. /\ d \in CallFields /\ d.failed = TRUE /\ d.lsn = call[t].lsn /\ d.op = call[t].op
      /\ d.release = call[t].release /\ d.flushing = call[t].flushing
      /\ d.size = call[t].size /\ d.flags = call[t].flags
  BY <1>6, <1>7 DEF CallFields
<1>9. call' = [call EXCEPT ![t] = d] BY <1>7 DEF Base, Shape
<1>10. /\ pc' \in [Thread -> {"idle", "enter", "wait", "woken",
                              "flush", "sync", "finish", "return"}]
       /\ call' \in [Thread -> CallFields]
       /\ pc'[t] = "finish" /\ call'[t] = d
       /\ \A s \in Thread \ {t} : pc'[s] = pc[s] /\ call'[s] = call[s]
  BY <1>8, <1>9 DEF Base, Shape
<1>11. Shape' BY <1>1, <1>4, <1>10 DEF Base, Shape, told
<1>12. \A s \in Thread \ {t} : LeavesAlone(s)
  <2>1. \A s \in Thread \ {t} : mtx_flush' = s <=> mtx_flush = s
    <3>1. pc[t] = "sync" => mtx_flush = t BY <1>6 DEF ThreadOK
    <3>2. None \notin Thread BY LogBufferAssumption
    <3>. QED BY <3>1, <3>2
  <2>. QED BY <1>1, <1>10, <2>1 DEF LeavesAlone
<1>13. ThreadOK(t)'
  <2>1. CallOK(call[t], lp, log) BY <1>6 DEF ThreadOK
  <2>2. CallOK(d, lp', log') BY <1>1, <1>8, <2>1 DEF CallOK
  <2>3. call[t].lsn[1] <= FaultyFiles
    <3>1. PICK r \in log : r.lsn = call[t].lsn BY <2>1 DEF CallOK
    <3>2. Less(call[t].lsn, lp.lsn) BY <3>1, RecordsBefore DEF Base, Shape, LogOK
    <3>3. call[t].lsn[1] \in Nat /\ lp.lsn[1] \in Nat
      BY <1>6, CallTypes, LsnPair, LogFieldTypes DEF Base, Shape
    <3>4. FaultyFiles \in Int BY LogBufferAssumption
    <3>. QED BY <1>2, <3>2, <3>3, <3>4 DEF Less
  <2>4. faults' > 0 BY <1>2
  <2>5. t \notin marked /\ t \notin Members(commits) /\ (d.op = "switch" => puts < MaxPuts)
    BY <1>6, <1>8 DEF ThreadOK
  <2>6. region = t \/ (d.release /\ d.flushing)
    BY <1>6, <1>8 DEF ThreadOK, SyncOK
  <2>7. mtx_flush' # t /\ mtx_flush' = None BY LogBufferAssumption
  <2>. QED BY <1>1, <1>8, <1>10, <2>2, <2>3, <2>4, <2>5, <2>6, <2>7 DEF ThreadOK
<1>14. CountOK'
  <2>1. pc[t] = "flush" => ~ call[t].flushing BY <1>6 DEF ThreadOK
  <2>2. InFlight' = InFlight BY <1>8, <1>10, <2>1 DEF InFlight
  <2>. QED BY <1>1, <2>2 DEF Base, CountOK
<1>. QED BY <1>3, <1>5, <1>11, <1>12, <1>13, <1>14, StepKeeps

LEMMA WriteFailsStep ==
  ASSUME Base, NEW t \in Thread, WriteFails(t)
  PROVE  Base' /\ Grows(lp')
<1>1. /\ pc[t] = "flush" /\ mtx_flush = None /\ MayFail("write")
      /\ faults' = faults + 1 /\ call' = [call EXCEPT ![t].failed = TRUE]
      /\ pc' = [pc EXCEPT ![t] = "finish"] /\ mtx_flush' = None
      /\ UNCHANGED <<lp, log, disk, group, region, told, puts, crashes, panicked>>
  BY DEF WriteFails, mutexes
<1>. QED BY <1>1, FailKeeps

LEMMA SyncFailsStep ==
  ASSUME Base, NEW t \in Thread, SyncFails(t)
  PROVE  Base' /\ Grows(lp')
<1>1. /\ pc[t] = "sync" /\ MayFail("sync")
      /\ faults' = faults + 1 /\ call' = [call EXCEPT ![t].failed = TRUE]
      /\ pc' = [pc EXCEPT ![t] = "finish"] /\ mtx_flush' = None
      /\ UNCHANGED <<lp, log, disk, group, region, told, puts, crashes, panicked>>
  BY DEF SyncFails
<1>. QED BY <1>1, FailKeeps

(* What a thread has that comes back from __log_flush_int.                    *)
LEMMA Returns ==
  ASSUME Base, NEW t \in Thread, pc[t] = "return"
  PROVE  /\ ThreadOK(t) /\ call[t] \in CallFields /\ CallOK(call[t], lp, log)
         /\ region = t /\ t \notin marked
         /\ ~ call[t].failed => Less(call[t].lsn, lp.s_lsn)
<1>1. ThreadOK(t) /\ call[t] \in CallFields BY DEF Base, Shape
<1>. QED BY <1>1 DEF ThreadOK

LEMMA ReturnAnswers ==
  ASSUME Base, NEW t \in Thread, pc[t] = "return", NEW ok \in BOOLEAN,
         Answer(t, call[t].lsn, ok),
         UNCHANGED <<lp, log, disk, group, mtx_flush, bounds, panicked>>
  PROVE  Base' /\ Grows(lp')
<1>1. Follows(lp, t) BY StillFollows DEF Base, Shape
<1>2. lp' = lp /\ log' = log /\ UNCHANGED <<group, mtx_flush>> OBVIOUS
<1>3. Follows(lp', t) /\ Grows(lp') BY <1>1, <1>2 DEF Follows
<1>4. \E r \in log' : r.lsn = call[t].lsn BY <1>2, Returns DEF CallOK
<1>. QED BY <1>2, <1>3, <1>4, Returns, AnswerKeeps

LEMMA ReturnStep ==
  ASSUME Base, NEW t \in Thread, Return(t)
  PROVE  Base' /\ Grows(lp')
<1>1. /\ pc[t] = "return"
      /\ Answer(t, call[t].lsn, ~ call[t].failed /\ call[t].op /= "again")
      /\ UNCHANGED <<lp, log, disk, group, mtx_flush, bounds, panicked>>
  BY DEF Return
<1>. QED BY <1>1, ReturnAnswers

LEMMA CommitStandsStep ==
  ASSUME Base, NEW t \in Thread, CommitStands(t)
  PROVE  Base' /\ Grows(lp')
<1>1. /\ pc[t] = "return" /\ Answer(t, call[t].lsn, TRUE)
      /\ UNCHANGED <<lp, log, disk, group, mtx_flush, bounds, panicked>>
  BY DEF CommitStands
<1>. QED BY <1>1, ReturnAnswers

(* The file before is synced, and nobody else had the region since.           *)
LEMMA SwitchMayPut ==
  ASSUME Base, NEW t \in Thread, pc[t] = "return", call[t].op = "switch", ~ call[t].failed
  PROVE  /\ MayPut(TRUE, call[t].size) /\ puts < MaxPuts
         /\ call[t].flags \in {"none", "wrnosync", "flush"}
<1>1. /\ ThreadOK(t) /\ CallOK(call[t], lp, log) /\ Less(call[t].lsn, lp.s_lsn) BY Returns
<1>2. ~ call[t].release BY <1>1 DEF CallOK
<1>3. mtx_flush = None /\ puts < MaxPuts BY <1>1, <1>2 DEF ThreadOK
<1>. QED BY <1>1, <1>3 DEF CallOK, MayPut

LEMMA ReturnToPutStep ==
  ASSUME Base, NEW t \in Thread, ReturnToPut(t)
  PROVE  Base' /\ Grows(lp')
<1>1. pc[t] = "return" /\ call[t].op = "switch" BY DEF ReturnToPut
<1>2. CASE ~ call[t].failed /\ PutRecord(t, TRUE, call[t].size, call[t].flags)
  <2>1. /\ MayPut(TRUE, call[t].size) /\ puts < MaxPuts
        /\ call[t].flags \in {"none", "wrnosync", "flush"}
    BY <1>1, <1>2, SwitchMayPut
  <2>. QED BY <1>1, <1>2, <2>1, Returns, PutKeeps
<1>3. CASE /\ UNCHANGED <<lp, log, disk, group, mtx_flush, bounds, panicked>>
           /\ Answer(t, call[t].lsn, FALSE)
  BY <1>1, <1>3, ReturnAnswers
<1>. QED BY <1>2, <1>3 DEF ReturnToPut

(* The commit that becomes an abort is in the current file.                   *)
LEMMA AbortFollows ==
  ASSUME Base, NEW t \in Thread, ForceAbort(t)
  PROVE  LET r == RecordAt(log, call[t].lsn) IN
         /\ Follows(lp, t)
         /\ r \in log /\ r.lsn = call[t].lsn
         /\ log' = (log \ {r}) \cup {[r EXCEPT !.form = "abort"]}
         /\ \E q \in log' : q.lsn = call[t].lsn
         /\ \A q \in log' : q \in log \/ q.lsn = call[t].lsn
         /\ ~ Less(call[t].lsn, lp.s_lsn)
<1>1. /\ pc[t] = "return" /\ call[t].op = "commit" /\ call[t].failed /\ ~ Overtaken(call[t].lsn)
      /\ UNCHANGED <<stable, tail, mtx_flush, bounds, panicked>>
  BY DEF ForceAbort
<1>2. PICK lsn : lsn = call[t].lsn OBVIOUS
<1>3. PICK r : r = RecordAt(log, lsn) OBVIOUS
<1>4. PICK q : q = [r EXCEPT !.form = "abort"] OBVIOUS
<1>5. PICK new : new = (log \ {r}) \cup {q} OBVIOUS
<1>6. /\ log' = new
      /\ lsn[2] > lp.w_off \/ lsn[2] + r.size <= lp.w_off
      /\ written' = IF lsn[2] > lp.w_off THEN written ELSE Write(new, lsn[1], lsn[2], lsn[2] + r.size)
  BY <1>2, <1>3, <1>4, <1>5, Zenon DEF ForceAbort
<1>7. /\ lp \in LogFields /\ log \in SUBSET Record /\ LogOK(lp, log)
      /\ lp.s_lsn \in Pair /\ lp.lsn[1] \in Nat /\ lp.lsn[2] \in Nat /\ lp.w_off \in Nat
      /\ lp.b_off \in Nat
  BY LogFieldTypes DEF Base, Shape
<1>8. CallOK(call[t], lp, log) /\ call[t] \in CallFields BY <1>1, Returns
<1>9. r \in log /\ r.lsn = lsn /\ lsn[2] # 0
  BY <1>1, <1>2, <1>3, <1>8 DEF CallOK, RecordAt
<1>10. /\ r \in Record /\ r.lsn \in Pair /\ lsn[1] \in Nat /\ lsn[2] \in Nat /\ r.size \in Nat
       /\ lp.s_lsn[1] \in Nat /\ lp.s_lsn[2] \in Nat
  BY <1>7, <1>9, RecordFields DEF Pair
<1>11. q \in Record /\ q.lsn = r.lsn /\ q.size = r.size BY <1>4, <1>10 DEF Record
<1>12. LogOK(lp, new) BY <1>5, <1>7, <1>9, <1>11, AbortKeeps
<1>13. lsn[1] = lp.s_lsn[1] /\ ~ lsn[2] < lp.s_lsn[2] BY <1>1, <1>2 DEF Overtaken
<1>14. ~ Less(lsn, lp.s_lsn) BY <1>10, <1>13 DEF Less
<1>15. lsn[1] = lp.lsn[1]
  <2>1. ~ lsn[1] < lp.lsn[1] BY <1>7, <1>9, <1>14 DEF LogOK, Buffered
  <2>2. Less(r.lsn, lp.lsn) BY <1>7, <1>9, RecordsBefore DEF LogOK
  <2>. QED BY <1>7, <1>9, <1>10, <2>1, <2>2 DEF Less
<1>16. new \in SUBSET Record BY <1>5, <1>7, <1>11
<1>17. ImageOK(written) /\ ImageOK(stable) /\ WrittenOK(written, lp, log) BY DEF Base
<1>18. \A s \in new : s \in log \/ s = q BY <1>5
<1>19. ImageOK(written') /\ WrittenOK(written', lp, new)
  <2>1. CASE lsn[2] > lp.w_off
    <3>1. \A k \in Offset : lsn[2] + k >= lp.w_off
      BY <1>7, <1>10, <2>1, LogBufferAssumption DEF Offset
    <3>2. \A k \in Offset : ~ lsn[2] + k < lp.w_off
      BY <1>7, <1>10, <2>1, LogBufferAssumption DEF Offset
    <3>3. ~ q.lsn[1] < lp.lsn[1] BY <1>7, <1>9, <1>11, <1>15
    <3>4. WrittenOK(written, lp, new)
      BY <1>9, <1>11, <1>17, <1>18, <3>2, <3>3 DEF WrittenOK
    <3>. QED BY <1>6, <1>17, <2>1, <3>4
  <2>2. CASE ~ lsn[2] > lp.w_off
    <3>1. PICK to \in Nat : to = lsn[2] + r.size BY <1>10
    <3>2. to <= lp.w_off BY <1>6, <2>2, <3>1
    <3>3. lp.w_off <= lp.lsn[2]
      <4>1. lp.w_off + lp.b_off = lp.lsn[2] BY <1>7 DEF LogOK, Buffered
      <4>. QED BY <1>7, <4>1
    <3>4. to <= lp.lsn[2] BY <1>7, <3>2, <3>3
    <3>5. \A s \in new, k \in Offset :
            (/\ k < s.size /\ (s.lsn[1] < lp.lsn[1] \/ s.lsn[2] + k < lp.w_off)
             /\ ~ (s.lsn[1] = lp.lsn[1] /\ lsn[2] <= s.lsn[2] + k /\ s.lsn[2] + k < to))
              => written[s.lsn[1]][s.lsn[2] + k] = <<s, k>>
      <4>1. TAKE s \in new, k \in Offset
      <4>2. CASE s \in log BY <1>17, <4>2 DEF WrittenOK
      <4>3. CASE s = q
        <5>1. k \in Nat BY LogBufferAssumption DEF Offset
        <5>2. k < s.size => s.lsn[1] = lp.lsn[1] /\ lsn[2] <= s.lsn[2] + k /\ s.lsn[2] + k < to
          BY <1>9, <1>10, <1>11, <1>15, <3>1, <4>3, <5>1
        <5>. QED BY <5>2
      <4>. QED BY <1>18, <4>2, <4>3
    <3>6. Placed(lp, new) BY <1>12 DEF LogOK
    <3>7. /\ ImageOK(Write(new, lp.lsn[1], lsn[2], to))
          /\ WrittenOK(Write(new, lp.lsn[1], lsn[2], to), lp, new)
      <4>1. PICK from \in Nat : from = lsn[2] BY <1>10
      <4>. QED BY <1>7, <1>16, <1>17, <3>1, <3>4, <3>5, <3>6, <4>1, WriteKeeps
    <3>8. written' = Write(new, lp.lsn[1], lsn[2], to) BY <1>6, <1>15, <2>2, <3>1
    <3>. QED BY <3>7, <3>8
  <2>. QED BY <2>1, <2>2
<1>20. \A s \in log : \E p \in new : p.lsn = s.lsn BY <1>5, <1>11
<1>21. Grows(lp) /\ \A s \in Thread \ {t} : Respects(lp, s)
  <2>1. lp.s_lsn \in Pair /\ lp.t_lsn \in Pair /\ lp.lsn \in Pair /\ Safe(lp) \in Pair
    BY LogFieldTypes DEF Base, Shape
  <2>2. faults' = faults /\ faults \in Nat /\ puts' = puts
    BY <1>1, LogBufferAssumption DEF Base, Shape, bounds
  <2>. QED BY <1>1, <1>6, <1>20, <2>1, <2>2, Order DEF Grows, Respects
<1>22. Follows(lp, t)
  <2>1. /\ tail' \in 0..Files /\ puts' \in 0..MaxPuts /\ faults' \in 0..MaxFaults
        /\ crashes' \in 0..MaxCrashes /\ panicked' \in BOOLEAN
    BY <1>1 DEF Base, Shape, bounds
  <2>. QED BY <1>1, <1>6, <1>7, <1>12, <1>16, <1>17, <1>19, <1>21, <2>1 DEF Follows
<1>23. \E s \in log' : s.lsn = lsn BY <1>5, <1>6, <1>9, <1>11
<1>24. \A s \in log' : s \in log \/ s.lsn = lsn BY <1>6, <1>9, <1>11, <1>18
<1>25. log' = (log \ {r}) \cup {[r EXCEPT !.form = "abort"]} BY <1>4, <1>5, <1>6
<1>. QED BY <1>2, <1>3, <1>9, <1>14, <1>22, <1>23, <1>24, <1>25

LEMMA AgainKeeps ==
  ASSUME Base, NEW t \in Thread, pc[t] = "return", call[t].op = "commit", FlushAgain(t),
         Follows(lp, t), \E q \in log' : q.lsn = call[t].lsn, mtx_flush' = mtx_flush
  PROVE  Base' /\ Grows(lp')
<1>1. /\ call[t] \in CallFields /\ CallOK(call[t], lp, log) /\ region = t BY Returns
<1>2. PICK c : c = [NoCall EXCEPT !.op = "again", !.lsn = call[t].lsn, !.release = FALSE] OBVIOUS
<1>3. EnterFlush(t, lp, c) BY <1>2, Zenon DEF FlushAgain
<1>4. /\ c \in CallFields /\ c.op = "again" /\ c.lsn = call[t].lsn /\ c.release = FALSE
      /\ c.failed = FALSE /\ c.flushing = FALSE
  <2>1. call[t].lsn \in LSN BY <1>1, CallTypes
  <2>. QED BY <1>2, <2>1, NoCallFields DEF CallFields
<1>5. NewCall(c, lp) BY <1>1, <1>4 DEF NewCall, CallOK
<1>. QED BY <1>1, <1>3, <1>5, EnterKeeps

LEMMA ForceAbortStep ==
  ASSUME Base, NEW t \in Thread, ForceAbort(t)
  PROVE  Base' /\ Grows(lp')
<1>1. /\ pc[t] = "return" /\ call[t].op = "commit" /\ FlushAgain(t) /\ mtx_flush' = mtx_flush
  BY DEF ForceAbort
<1>2. Follows(lp, t) /\ \E q \in log' : q.lsn = call[t].lsn BY AbortFollows
<1>. QED BY <1>1, <1>2, AgainKeeps

LEMMA ForceAbortMissesStep ==
  ASSUME Base, NEW t \in Thread, ForceAbortMisses(t)
  PROVE  Base' /\ Grows(lp')
<1>1. /\ pc[t] = "return" /\ call[t].op = "commit" /\ mtx_flush' = mtx_flush /\ log' = log
      /\ UNCHANGED <<log, disk, bounds>>
  BY DEF ForceAbortMisses
<1>2. panicked' \in BOOLEAN BY DEF ForceAbortMisses, Base, Shape
<1>3. Follows(lp, t) BY <1>1, <1>2, StillFollows
<1>4. CASE UNCHANGED <<lp, group, region, pc, call, told>>
  <2>1. /\ lp' = lp /\ commits' = commits /\ marked' = marked /\ region' = region
        /\ pc' = pc /\ call' = call
    BY <1>4 DEF group
  <2>2. Shape' BY <1>1, <1>2, <1>3, <1>4, <2>1 DEF Base, Shape, Follows, told
  <2>3. \A s \in Thread : LeavesAlone(s) BY <1>1, <2>1 DEF LeavesAlone
  <2>4. \A s \in Thread : Respects(lp', s)
    BY <1>1, <2>1, StandsStill DEF disk, bounds
  <2>5. ThreadOK(t)' BY <1>3, <2>1, <2>2, <2>3, <2>4, Undisturbed DEF Base, Follows
  <2>6. CountOK'
    <3>1. InFlight' = InFlight BY <2>1 DEF InFlight
    <3>. QED BY <2>1, <3>1 DEF Base, CountOK
  <2>. QED BY <1>3, <2>1, <2>2, <2>3, <2>5, <2>6, StepKeeps DEF Follows
<1>5. CASE FlushAgain(t)
  <2>1. \E q \in log' : q.lsn = call[t].lsn BY <1>1, Returns DEF CallOK
  <2>. QED BY <1>1, <1>3, <1>5, <2>1, AgainKeeps
<1>. QED BY <1>4, <1>5 DEF ForceAbortMisses

(* Before the buffer's first record every record is in its file.              *)
LEMMA SafeIsWritten ==
  ASSUME NEW l \in LogFields, NEW records \in SUBSET Record, LogOK(l, records),
         NEW image, WrittenOK(image, l, records),
         NEW r \in records, Less(r.lsn, Safe(l))
  PROVE  /\ \A k \in Offset : k < r.size => image[r.lsn[1]][r.lsn[2] + k] = <<r, k>>
         /\ Whole(image, r)
<1>1. /\ r.lsn[1] \in Nat /\ r.lsn[2] \in Nat /\ r.size \in Nat /\ r.size <= LogSize
  BY RecordFields
<1>2. /\ l.lsn[1] \in Nat /\ l.lsn[2] \in Nat /\ l.w_off \in Nat /\ l.b_off \in Nat
  BY LogFieldTypes
<1>3. l.w_off + l.b_off = l.lsn[2] BY DEF LogOK, Buffered
<1>4. r.lsn[1] < l.lsn[1] \/ EndOf(r) <= l.w_off
  <2>1. CASE l.b_off = 0
    <3>1. l.w_off = l.lsn[2] BY <1>2, <1>3, <2>1
    <3>2. r.lsn[1] < l.lsn[1] \/ EndOf(r) <= l.lsn[2] BY DEF LogOK, Placed
    <3>. QED BY <3>1, <3>2
  <2>2. CASE l.b_off # 0
    <3>1. PICK s \in records : s.lsn = l.f_lsn /\ Covers(s, l.lsn[1], l.w_off)
      BY <2>2 DEF LogOK, Buffered
    <3>2. s.lsn[1] \in Nat /\ s.lsn[2] \in Nat /\ s.size \in Nat BY RecordFields
    <3>3. /\ s.lsn[1] = l.lsn[1] /\ s.lsn[2] <= l.w_off /\ l.w_off < EndOf(s)
          /\ Less(r.lsn, s.lsn)
      BY <2>2, <3>1 DEF Covers, EndOf, Safe
    <3>4. SUFFICES ASSUME ~ r.lsn[1] < l.lsn[1], ~ EndOf(r) <= l.w_off PROVE FALSE OBVIOUS
    <3>5. r.lsn[1] = s.lsn[1] /\ r.lsn[2] < s.lsn[2] BY <1>1, <1>2, <3>2, <3>3, <3>4 DEF Less
    <3>6. EndOf(r) \in Nat /\ EndOf(s) \in Nat BY <1>1, <3>2 DEF EndOf
    <3>7. r.lsn[2] < EndOf(s) /\ s.lsn[2] < EndOf(r)
      BY <1>1, <1>2, <3>2, <3>3, <3>4, <3>5, <3>6
    <3>8. r = s BY <3>5, <3>7 DEF LogOK, Placed
    <3>. QED BY <3>2, <3>5, <3>8
  <2>. QED BY <2>1, <2>2
<1>5. \A k \in Offset : k < r.size => image[r.lsn[1]][r.lsn[2] + k] = <<r, k>>
  <2>1. TAKE k \in Offset
  <2>2. HAVE k < r.size
  <2>3. k \in Nat BY LogBufferAssumption DEF Offset
  <2>4. r.lsn[1] < l.lsn[1] \/ r.lsn[2] + k < l.w_off
    BY <1>1, <1>2, <1>4, <2>2, <2>3 DEF EndOf
  <2>. QED BY <2>2, <2>4 DEF WrittenOK
<1>6. \A k \in 0..(r.size - 1) : k \in Offset /\ k < r.size
  BY <1>1, LogBufferAssumption DEF Offset
<1>7. Whole(image, r) BY <1>5, <1>6, Zenon DEF Whole
<1>. QED BY <1>5, <1>7

(* What the write of the buffer leaves, and what an fsync will then cover.    *)
WriteLeaves(t) == IF MustWrite(t) THEN DrainBuffer(lp) ELSE lp

LEMMA BufferWritten ==
  ASSUME Base, NEW t \in Thread, WriteBuffer(t)
  PROVE  LET l == WriteLeaves(t) IN
         /\ l \in LogFields /\ LogOK(l, log) /\ ~ Less(Safe(l), Safe(lp))
         /\ l.lsn = lp.lsn /\ l.s_lsn = lp.s_lsn /\ l.t_lsn = lp.t_lsn /\ l.len = lp.len
         /\ l.f_lsn = lp.f_lsn /\ l.in_flush = lp.in_flush
         /\ ImageOK(written') /\ WrittenOK(written', l, log)
         /\ Less(call[t].flush_lsn, Safe(l)) /\ ~ Less(call[t].flush_lsn, call[t].lsn)
         /\ lp.f_lsn[1] = lp.lsn[1] /\ Safe(l) \in LSN
         /\ Safe(l) = IF l.b_off = 0 THEN <<l.f_lsn[1], l.w_off>> ELSE l.f_lsn
<1>1. PICK l : l = WriteLeaves(t) OBVIOUS
<1>2. /\ pc[t] = "flush" /\ ~ Less(call[t].flush_lsn, lp.s_lsn)
      /\ written' = Write(log, l.lsn[1], lp.w_off, l.w_off)
  BY <1>1, Zenon DEF WriteBuffer, WriteLeaves
<1>3. /\ lp \in LogFields /\ log \in SUBSET Record /\ LogOK(lp, log) /\ Safe(lp) \in Pair
      /\ ImageOK(written) /\ WrittenOK(written, lp, log)
      /\ lp.lsn \in Pair /\ lp.s_lsn \in Pair /\ lp.w_off \in Nat /\ lp.b_off \in Nat
      /\ lp.f_lsn \in (0..Files) \X (0..LogSize)
  BY LogFieldTypes DEF Base, Shape, LogFields
<1>4. /\ l \in LogFields /\ LogOK(l, log) /\ ~ Less(Safe(l), Safe(lp))
      /\ l.lsn = lp.lsn /\ l.s_lsn = lp.s_lsn /\ l.t_lsn = lp.t_lsn /\ l.len = lp.len
      /\ l.f_lsn = lp.f_lsn /\ l.in_flush = lp.in_flush
  <2>1. CASE MustWrite(t)
    <3>1. l = DrainBuffer(lp) BY <1>1, <2>1 DEF WriteLeaves
    <3>2. /\ l \in LogFields /\ LogOK(l, log) /\ ~ Less(Safe(l), Safe(lp))
          /\ l["lsn"] = lp["lsn"] /\ l["s_lsn"] = lp["s_lsn"] /\ l["t_lsn"] = lp["t_lsn"]
          /\ l["len"] = lp["len"] /\ l["f_lsn"] = lp["f_lsn"] /\ l["in_flush"] = lp["in_flush"]
      BY <1>3, <3>1, DrainKeeps
    <3>. QED BY <3>2
  <2>2. CASE ~ MustWrite(t)
    <3>1. l = lp BY <1>1, <2>2 DEF WriteLeaves
    <3>. QED BY <1>3, <3>1, Order
  <2>. QED BY <2>1, <2>2
<1>5. l.w_off \in Nat /\ l.b_off \in Nat /\ l.w_off + l.b_off = l.lsn[2] /\ l.lsn[2] \in Nat
      /\ l.lsn[1] \in Nat
      /\ l.lsn \in LSN /\ l.lsn = <<l.lsn[1], l.lsn[2]>>
  BY <1>4, LogFieldTypes DEF LogOK, Buffered
<1>6. ImageOK(written') /\ WrittenOK(written', l, log)
  <2>1. \A q \in log, k \in Offset :
          (/\ k < q.size /\ (q.lsn[1] < l.lsn[1] \/ q.lsn[2] + k < l.w_off)
           /\ ~ (q.lsn[1] = l.lsn[1] /\ lp.w_off <= q.lsn[2] + k /\ q.lsn[2] + k < l.w_off))
            => written[q.lsn[1]][q.lsn[2] + k] = <<q, k>>
    <3>1. TAKE q \in log, k \in Offset
    <3>2. HAVE /\ k < q.size /\ (q.lsn[1] < l.lsn[1] \/ q.lsn[2] + k < l.w_off)
               /\ ~ (q.lsn[1] = l.lsn[1] /\ lp.w_off <= q.lsn[2] + k /\ q.lsn[2] + k < l.w_off)
    <3>3. q.lsn[1] \in Nat /\ q.lsn[2] \in Nat /\ k \in Nat
      BY <1>3, RecordFields, LogBufferAssumption DEF Offset
    <3>4. q.lsn[1] < l.lsn[1] \/ q.lsn[1] = l.lsn[1] BY <1>4 DEF LogOK, Placed
    <3>5. q.lsn[1] < lp.lsn[1] \/ q.lsn[2] + k < lp.w_off
      BY <1>3, <1>4, <1>5, <3>2, <3>3, <3>4
    <3>. QED BY <1>3, <3>2, <3>5 DEF WrittenOK
  <2>2. PICK to \in Nat : to = l.w_off BY <1>5
  <2>3. PICK from \in Nat : from = lp.w_off BY <1>3
  <2>4. to <= l.lsn[2] BY <1>5, <2>2
  <2>5. Placed(l, log) BY <1>4 DEF LogOK
  <2>6. /\ ImageOK(Write(log, l.lsn[1], from, to))
        /\ WrittenOK(Write(log, l.lsn[1], from, to), l, log)
    BY <1>3, <1>4, <2>1, <2>2, <2>3, <2>4, <2>5, WriteKeeps
  <2>. QED BY <1>2, <2>2, <2>3, <2>6
<1>7. ThreadOK(t) /\ call[t] \in CallFields BY DEF Base, Shape
<1>8. /\ ~ Less(call[t].flush_lsn, call[t].lsn) /\ Less(call[t].flush_lsn, lp.lsn)
      /\ call[t].flush_lsn \in Pair
  BY <1>2, <1>7, CallTypes DEF ThreadOK
<1>9. Less(call[t].flush_lsn, Safe(l))
  <2>1. CASE l.b_off = 0 BY <1>4, <1>8, <2>1 DEF Safe
  <2>2. CASE l.b_off # 0
    <3>1. MustWrite(t) => l.b_off = 0
      BY <1>1, <1>3 DEF WriteLeaves, DrainBuffer, LogFields
    <3>2. l = lp BY <1>1, <2>2, <3>1 DEF WriteLeaves
    <3>3. Less(call[t].flush_lsn, lp.f_lsn) BY <2>2, <3>1, <3>2 DEF MustWrite
    <3>. QED BY <2>2, <3>2, <3>3 DEF Safe
  <2>. QED BY <2>1, <2>2
<1>10. lp.f_lsn[1] = lp.lsn[1]
  <2>1. lp.s_lsn # lp.lsn BY <1>2, <1>8
  <2>. QED BY <1>3, <2>1 DEF LogOK, FileKnown
<1>11. Safe(l) = IF l.b_off = 0 THEN <<l.f_lsn[1], l.w_off>> ELSE l.f_lsn
  BY <1>4, <1>5, <1>10 DEF Safe
<1>12. Safe(l) \in LSN
  <2>1. lp.f_lsn \in LSN
    <3>1. lp.lsn[1] \in 1..Files BY <1>3, LogFieldTypes, LsnPair
    <3>. QED BY <1>3, <1>10, <3>1 DEF LSN
  <2>. QED BY <1>4, <1>5, <2>1 DEF Safe
<1>. QED BY <1>1, <1>4, <1>6, <1>8, <1>9, <1>10, <1>11, <1>12

LEMMA WriteBufferStep ==
  ASSUME Base, NEW t \in Thread, WriteBuffer(t)
  PROVE  Base' /\ Grows(lp')
<1>1. PICK l : l = WriteLeaves(t) OBVIOUS
<1>2. /\ l \in LogFields /\ LogOK(l, log) /\ ~ Less(Safe(l), Safe(lp))
      /\ l.lsn = lp.lsn /\ l.s_lsn = lp.s_lsn /\ l.t_lsn = lp.t_lsn /\ l.len = lp.len
      /\ l.f_lsn = lp.f_lsn /\ l.in_flush = lp.in_flush
      /\ ImageOK(written') /\ WrittenOK(written', l, log)
      /\ Less(call[t].flush_lsn, Safe(l)) /\ ~ Less(call[t].flush_lsn, call[t].lsn)
      /\ lp.f_lsn[1] = lp.lsn[1] /\ Safe(l) \in LSN
      /\ Safe(l) = IF l.b_off = 0 THEN <<l.f_lsn[1], l.w_off>> ELSE l.f_lsn
  BY <1>1, BufferWritten
<1>3. PICK cov : cov = written'[l.lsn[1]] OBVIOUS
<1>4. PICK sy : sy = Safe(l) OBVIOUS
<1>5. PICK d : d = [call[t] EXCEPT !.flushing = TRUE, !.covered = cov, !.synced = sy] OBVIOUS
<1>6. /\ pc[t] = "flush" /\ mtx_flush = None /\ lp' = [l EXCEPT !.in_flush = @ + 1]
      /\ mtx_flush' = t /\ region' = (IF call[t].release THEN None ELSE t)
      /\ pc' = [pc EXCEPT ![t] = "sync"]
      /\ log' = log /\ commits' = commits /\ marked' = marked /\ puts' = puts /\ faults' = faults
      /\ UNCHANGED <<log, stable, tail, group, told, bounds, panicked>>
  BY <1>1 DEF WriteBuffer, WriteLeaves, group, bounds
<1>7. call' = [call EXCEPT ![t].flushing = TRUE, ![t].covered = cov, ![t].synced = sy]
  BY <1>1, <1>2, <1>3, <1>4, Zenon DEF WriteBuffer, WriteLeaves
<1>8. call' = [call EXCEPT ![t] = d] BY <1>5, <1>7 DEF Base, Shape
<1>9. ThreadOK(t) /\ call[t] \in CallFields /\ None \notin Thread
  BY LogBufferAssumption DEF Base, Shape
<1>10. lp.lsn[1] \in 1..Files /\ lp \in LogFields /\ lp.lsn \in Pair /\ lp.s_lsn \in Pair
       /\ lp.t_lsn \in Pair
  BY LogFieldTypes, LsnPair DEF Base, Shape
<1>11. cov \in [Offset -> Unit] /\ FileOK(cov, lp.lsn[1]) BY <1>2, <1>3, <1>10 DEF ImageOK
<1>12. /\ d \in CallFields /\ d.flushing = TRUE /\ d.covered = cov /\ d.synced = sy
       /\ d.lsn = call[t].lsn /\ d.flush_lsn = call[t].flush_lsn /\ d.op = call[t].op
       /\ d.release = call[t].release /\ d.failed = call[t].failed
       /\ d.size = call[t].size /\ d.flags = call[t].flags
  BY <1>2, <1>4, <1>5, <1>9, <1>11 DEF CallFields
<1>13. /\ pc' \in [Thread -> {"idle", "enter", "wait", "woken",
                              "flush", "sync", "finish", "return"}]
       /\ call' \in [Thread -> CallFields]
       /\ pc'[t] = "sync" /\ call'[t] = d
       /\ \A s \in Thread \ {t} : pc'[s] = pc[s] /\ call'[s] = call[s]
  BY <1>6, <1>8, <1>12 DEF Base, Shape
<1>14. /\ lp' \in LogFields /\ LogOK(lp', log) /\ Safe(lp') = Safe(l)
       /\ lp'.in_flush = lp.in_flush + 1
       /\ lp'.lsn = lp.lsn /\ lp'.s_lsn = lp.s_lsn /\ lp'.t_lsn = lp.t_lsn /\ lp'.len = lp.len
       /\ lp'.f_lsn = lp.f_lsn /\ lp'.w_off = l.w_off
  <2>1. PICK k \in Int : k = l.in_flush + 1 BY <1>2 DEF LogFields
  <2>2. PICK m : m = [l EXCEPT !.in_flush = k] OBVIOUS
  <2>3. /\ m \in LogFields /\ LogOK(m, log) /\ Safe(m) = Safe(l) /\ m.in_flush = k
        /\ m["lsn"] = l["lsn"] /\ m["s_lsn"] = l["s_lsn"] /\ m["t_lsn"] = l["t_lsn"]
        /\ m["f_lsn"] = l["f_lsn"] /\ m["len"] = l["len"] /\ m["w_off"] = l["w_off"]
    BY <1>2, <2>2, CountChanges
  <2>4. lp' = m BY <1>6, <2>1, <2>2
  <2>. QED BY <1>2, <2>1, <2>3, <2>4
<1>15. Grows(lp')
  <2>1. faults \in Nat BY LogBufferAssumption DEF Base, Shape
  <2>. QED BY <1>2, <1>6, <1>10, <1>14, <2>1, Order DEF Grows
<1>16. region = t BY <1>6, <1>9 DEF ThreadOK
<1>17. Follows(lp', t)
  <2>1. WrittenOK(written', lp', log) BY <1>2, <1>14 DEF WrittenOK
  <2>2. \A s \in Thread \ {t} : Respects(lp', s) BY <1>6, <1>9, <1>16 DEF Respects
  <2>. QED BY <1>2, <1>6, <1>14, <1>15, <2>1, <2>2 DEF Follows, Base, Shape, bounds
<1>18. Shape' BY <1>6, <1>13, <1>14, <1>17 DEF Base, Shape, Follows, told
<1>19. \A s \in Thread \ {t} : LeavesAlone(s) BY <1>6, <1>9, <1>13, <1>16 DEF LeavesAlone
<1>20. ThreadOK(t)'
  <2>1. CallOK(call[t], lp, log) /\ ~ call[t].failed BY <1>6, <1>9 DEF ThreadOK
  <2>2. CallOK(d, lp', log') BY <1>6, <1>12, <1>14, <2>1 DEF CallOK, LastRecord
  <2>3. SyncOK(t)'
    <3>1. ~ Less(sy, sy)
      <4>1. sy \in Pair BY <1>2, <1>4, LsnPair
      <4>. QED BY <4>1, Order
    <3>2. ~ Less(sy, lp.s_lsn) BY <1>2, <1>4 DEF LogOK, Buffered
    <3>. QED BY <1>2, <1>4, <1>11, <1>12, <1>13, <1>14, <2>1, <3>1, <3>2 DEF SyncOK
  <2>4. t \notin marked /\ t \notin Members(commits) /\ (d.op = "switch" => puts < MaxPuts)
    BY <1>6, <1>9, <1>12 DEF ThreadOK
  <2>5. ~ d.release => region' = t BY <1>6, <1>12
  <2>6. region' = t => ~ d.release BY <1>6, <1>9, <1>12
  <2>. QED BY <1>6, <1>12, <1>13, <2>1, <2>2, <2>3, <2>4, <2>5 DEF ThreadOK
<1>21. CountOK'
  <2>1. ~ call[t].flushing BY <1>6, <1>9 DEF ThreadOK
  <2>2. InFlight' = InFlight \cup {t} /\ t \notin InFlight
    BY <1>12, <1>13, <2>1 DEF InFlight
  <2>3. IsFiniteSet(InFlight) /\ IsFiniteSet(marked)
    BY FS_Subset, LogBufferAssumption DEF InFlight, Base, Shape
  <2>4. /\ Cardinality(InFlight') = Cardinality(InFlight) + 1
        /\ Cardinality(InFlight) \in Nat /\ Cardinality(marked) \in Nat
    BY <2>2, <2>3, FS_AddElement, FS_CardinalityType
  <2>. QED BY <1>6, <1>14, <2>4 DEF Base, CountOK
<1>. QED BY <1>15, <1>17, <1>18, <1>19, <1>20, <1>21, StepKeeps

(* The fsync returns: the sync point moves to what it was to cover.           *)
LEMMA SyncFollows ==
  ASSUME Base, NEW t \in Thread, Sync(t)
  PROVE  /\ pc[t] = "sync" /\ mtx_flush = t /\ ThreadOK(t) /\ SyncOK(t)
         /\ Follows(lp', t) /\ Grows(lp') /\ Safe(lp') = Safe(lp)
         /\ lp'.s_lsn = call[t].synced /\ lp'.in_flush = lp.in_flush
         /\ lp'.lsn = lp.lsn /\ lp'.t_lsn = lp.t_lsn /\ lp'.len = lp.len
         /\ stable' = [stable EXCEPT ![lp.lsn[1]] = call[t].covered]
         /\ log' = log /\ lp.lsn[1] \in 1..Files
<1>1. PICK sy : sy = call[t].synced OBVIOUS
<1>2. /\ pc[t] = "sync" /\ lp' = [lp EXCEPT !.s_lsn = sy]
      /\ stable' = [stable EXCEPT ![lp.lsn[1]] = call[t].covered]
      /\ mtx_flush' = None /\ (tail' = IF tail = lp.lsn[1] THEN 0 ELSE tail)
      /\ UNCHANGED <<log, written, group, region, call, told, bounds, panicked>>
      /\ log' = log /\ written' = written /\ puts' = puts /\ faults' = faults
  BY <1>1 DEF Sync, bounds
<1>3. ThreadOK(t) /\ call[t] \in CallFields /\ None \notin Thread
  BY LogBufferAssumption DEF Base, Shape
<1>4. mtx_flush = t /\ SyncOK(t) BY <1>2, <1>3 DEF ThreadOK
<1>5. /\ lp \in LogFields /\ LogOK(lp, log) /\ log \in SUBSET Record
      /\ lp.lsn \in Pair /\ lp.s_lsn \in Pair /\ lp.t_lsn \in Pair /\ Safe(lp) \in Pair
      /\ lp.lsn[1] \in 1..Files
  BY LogFieldTypes, LsnPair DEF Base, Shape
<1>6. sy \in LSN /\ sy \in Pair /\ ~ Less(sy, lp.s_lsn) /\ ~ Less(Safe(lp), sy)
  BY <1>1, <1>3, <1>4, CallTypes DEF SyncOK
<1>7. /\ lp' \in LogFields /\ lp'.s_lsn = sy
      /\ lp'.lsn = lp.lsn /\ lp'.t_lsn = lp.t_lsn /\ lp'.f_lsn = lp.f_lsn
      /\ lp'.len = lp.len /\ lp'.b_off = lp.b_off /\ lp'.w_off = lp.w_off
      /\ lp'.in_flush = lp.in_flush
  BY <1>2, <1>5, <1>6 DEF LogFields
<1>8. Safe(lp') = Safe(lp) BY <1>7 DEF Safe
<1>9. LogOK(lp', log')
  <2>1. Placed(lp', log) BY <1>5, <1>7 DEF LogOK, Placed
  <2>2. \A r \in log : r.lsn[1] < lp.lsn[1] => Less(r.lsn, sy)
    <3>1. \A r \in log : r.lsn \in Pair BY <1>5, RecordFields
    <3>2. \A r \in log : r.lsn[1] < lp.lsn[1] => Less(r.lsn, lp.s_lsn)
      BY <1>5 DEF LogOK, Buffered
    <3>. QED BY <1>5, <1>6, <3>1, <3>2, Order
  <2>3. Buffered(lp', log) BY <1>5, <1>6, <1>7, <1>8, <2>2 DEF LogOK, Buffered
  <2>4. FileKnown(lp') BY <1>4, <1>7 DEF FileKnown, SyncOK
  <2>5. LastIs(lp', log) BY <1>5, <1>7 DEF LogOK, LastIs, LastRecord
  <2>. QED BY <1>2, <2>1, <2>3, <2>4, <2>5 DEF LogOK
<1>10. ImageOK(stable')
  <2>1. call[t].covered \in [Offset -> Unit] /\ FileOK(call[t].covered, lp.lsn[1])
    BY <1>4 DEF SyncOK
  <2>2. ImageOK(stable) BY DEF Base
  <2>. QED BY <1>2, <1>5, <2>1, <2>2 DEF ImageOK
<1>11. Grows(lp')
  <2>1. faults \in Nat BY LogBufferAssumption DEF Base, Shape
  <2>. QED BY <1>2, <1>5, <1>6, <1>7, <1>8, <2>1, Order DEF Grows
<1>12. WrittenOK(written', lp', log') BY <1>2, <1>7 DEF Base, WrittenOK
<1>13. \A s \in Thread \ {t} : Respects(lp', s)
  BY <1>2, <1>3, <1>4, <1>7 DEF Respects
<1>14. /\ tail' \in 0..Files /\ puts' \in 0..MaxPuts /\ faults' \in 0..MaxFaults
       /\ crashes' \in 0..MaxCrashes /\ panicked' \in BOOLEAN
  BY <1>2, LogBufferAssumption DEF Base, Shape, bounds
<1>15. ImageOK(written') /\ log' \subseteq Record BY <1>2 DEF Base, Shape
<1>16. Follows(lp', t)
  BY <1>7, <1>9, <1>10, <1>11, <1>12, <1>13, <1>14, <1>15 DEF Follows
<1>. QED BY <1>1, <1>2, <1>3, <1>4, <1>5, <1>7, <1>8, <1>11, <1>16

LEMMA SyncStep ==
  ASSUME Base, NEW t \in Thread, Sync(t)
  PROVE  Base' /\ Grows(lp')
<1>1. /\ pc[t] = "sync" /\ mtx_flush = t /\ ThreadOK(t) /\ SyncOK(t)
      /\ Follows(lp', t) /\ Grows(lp')
      /\ lp'.s_lsn = call[t].synced /\ lp'.in_flush = lp.in_flush
      /\ lp'.lsn = lp.lsn /\ lp'.t_lsn = lp.t_lsn /\ lp'.len = lp.len /\ log' = log
  BY SyncFollows
<1>2. /\ mtx_flush' = None /\ pc' = [pc EXCEPT ![t] = "finish"]
      /\ region' = region /\ call' = call /\ commits' = commits /\ marked' = marked
      /\ puts' = puts /\ faults' = faults
      /\ UNCHANGED told
  BY DEF Sync, group, bounds
<1>3. call[t] \in CallFields /\ None \notin Thread
  BY LogBufferAssumption DEF Base, Shape
<1>4. /\ pc' \in [Thread -> {"idle", "enter", "wait", "woken", "flush", "sync", "finish", "return"}]
      /\ pc'[t] = "finish" /\ \A s \in Thread \ {t} : pc'[s] = pc[s]
  BY <1>2 DEF Base, Shape
<1>5. Shape' BY <1>1, <1>2, <1>4 DEF Base, Shape, Follows, told
<1>6. \A s \in Thread \ {t} : LeavesAlone(s) BY <1>1, <1>2, <1>3, <1>4 DEF LeavesAlone
<1>7. ThreadOK(t)'
  <2>1. Less(call[t].lsn, lp'.s_lsn)
    <3>1. ~ Less(call[t].flush_lsn, call[t].lsn) /\ Less(call[t].flush_lsn, lp'.s_lsn)
      BY <1>1 DEF SyncOK
    <3>2. call[t].lsn \in Pair /\ call[t].flush_lsn \in Pair /\ lp'.s_lsn \in Pair
      BY <1>1, <1>3, CallTypes
    <3>. QED BY <3>1, <3>2, Order
  <2>2. CallOK(call[t], lp', log')
    <3>1. CallOK(call[t], lp, log) BY <1>1 DEF ThreadOK
    <3>. QED BY <1>1, <3>1 DEF CallOK, LastRecord
  <2>3. t \notin marked /\ t \notin Members(commits) /\ ~ call[t].failed /\ call[t].flushing
    BY <1>1 DEF ThreadOK, SyncOK
  <2>4. ~ call[t].release => region = t BY <1>1 DEF ThreadOK
  <2>5. call[t].op = "switch" => puts < MaxPuts BY <1>1 DEF ThreadOK
  <2>. QED BY <1>2, <1>3, <1>4, <2>1, <2>2, <2>3, <2>4, <2>5 DEF ThreadOK
<1>8. CountOK'
  <2>1. InFlight' = InFlight BY <1>1, <1>2, <1>4 DEF InFlight
  <2>. QED BY <1>1, <1>2, <2>1 DEF Base, CountOK
<1>. QED BY <1>1, <1>5, <1>6, <1>7, <1>8, StepKeeps

-----------------------------------------------------------------------------
(* The end of a flush: who is served, who is to flush next.                   *)
Served == {s \in Members(commits) : Less(call[s].lsn, lp.s_lsn)}
Others == Only(commits, Thread \ Served)
Chosen == IF Others = << >> THEN {} ELSE {Head(Others)}
Woken == Served \cup Chosen

LEMMA FinishMoves ==
  ASSUME Base, NEW t \in Thread, Finish(t)
  PROVE  /\ pc[t] = "finish" /\ region \in {None, t} /\ region' = t
         /\ Woken \subseteq Members(commits) /\ t \notin Woken
         /\ Chosen \cap Served = {} /\ (Chosen = {} => Members(commits) \subseteq Served)
         /\ commits' \in Seq(Thread) /\ Members(commits') = Members(commits) \ Woken
         /\ marked' = marked \cup Chosen
         /\ pc' = [s \in Thread |-> IF s = t THEN "return"
                                    ELSE IF s \in Woken THEN "woken" ELSE pc[s]]
         /\ mtx_flush' = mtx_flush /\ call' = call /\ log' = log
         /\ puts' = puts /\ faults' = faults /\ UNCHANGED <<told, stable>>
         /\ Follows(lp', t) /\ Grows(lp')
         /\ lp'.lsn = lp.lsn /\ lp'.s_lsn = lp.s_lsn /\ lp'.t_lsn = lp.t_lsn /\ lp'.len = lp.len
         /\ IsFiniteSet(Chosen) /\ Cardinality(Chosen) \in Nat
         /\ lp'.in_flush = lp.in_flush - (IF call[t].flushing THEN 1 ELSE 0) + Cardinality(Chosen)
<1>1. /\ pc[t] = "finish" /\ region \in {None, t} /\ region' = t
      /\ lp' = [lp EXCEPT !.in_flush = @ - (IF call[t].flushing THEN 1 ELSE 0)
                                         + Cardinality(Chosen)]
      /\ commits' = Only(commits, Thread \ Woken)
      /\ marked' = marked \cup Chosen
      /\ pc' = [s \in Thread |-> IF s = t THEN "return"
                                ELSE IF s \in Woken THEN "woken" ELSE pc[s]]
      /\ UNCHANGED <<log, disk, mtx_flush, call, told, bounds, panicked>>
  BY Zenon DEF Finish, Woken, Chosen, Others, Served
<1>2. /\ commits \in Seq(Thread) /\ lp \in LogFields /\ lp.in_flush \in Int
      /\ panicked \in BOOLEAN
  BY DEF Base, Shape, LogFields
<1>3. ThreadOK(t) BY DEF Base
<1>4. t \notin Members(commits) BY <1>1, <1>3 DEF ThreadOK
<1>5. Members(commits) \subseteq Thread BY <1>2 DEF Members
<1>6. Others \in Seq(Thread) /\ Members(Others) = Members(commits) \cap (Thread \ Served)
  BY <1>2, OnlyProperties DEF Others
<1>7. Others # << >> => Head(Others) \in Members(Others)
  <2>1. SUFFICES ASSUME Others # << >> PROVE Head(Others) \in Members(Others) OBVIOUS
  <2>2. 1 \in DOMAIN Others /\ Head(Others) = Others[1] BY <1>6, <2>1
  <2>. QED BY <2>2 DEF Members
<1>8. Chosen \subseteq Members(commits) \ Served BY <1>6, <1>7 DEF Chosen
<1>9. Chosen = {} => Members(commits) \subseteq Served
  <2>1. Members(<< >>) = {} BY DEF Members
  <2>2. Chosen = {} => Others = << >> BY DEF Chosen
  <2>. QED BY <1>5, <1>6, <2>1, <2>2
<1>10. Woken \subseteq Members(commits) /\ t \notin Woken BY <1>4, <1>8 DEF Woken, Served
<1>11. commits' \in Seq(Thread) /\ Members(commits') = Members(commits) \ Woken
  <2>1. /\ Only(commits, Thread \ Woken) \in Seq(Thread)
        /\ Members(Only(commits, Thread \ Woken)) = Members(commits) \cap (Thread \ Woken)
    BY <1>2, OnlyProperties
  <2>. QED BY <1>1, <1>5, <2>1
<1>12. IsFiniteSet(Chosen) /\ Cardinality(Chosen) \in Nat
  <2>1. Chosen \subseteq Thread BY <1>5, <1>8
  <2>2. IsFiniteSet(Chosen) BY <2>1, FS_Subset, LogBufferAssumption
  <2>. QED BY <2>2, FS_CardinalityType
<1>13. PICK k \in Int :
         k = lp.in_flush - (IF call[t].flushing THEN 1 ELSE 0) + Cardinality(Chosen)
  BY <1>2, <1>12
<1>14. lp' = [lp EXCEPT !.in_flush = k] BY <1>1, <1>13
<1>15. /\ mtx_flush' = mtx_flush /\ log' = log /\ puts' = puts /\ faults' = faults
       /\ UNCHANGED <<log, disk, bounds>> /\ panicked' \in BOOLEAN /\ UNCHANGED <<told, stable>>
  BY <1>1, <1>2 DEF bounds, disk
<1>16. /\ Follows(lp', t) /\ Grows(lp') /\ lp'.in_flush = k
       /\ lp'.lsn = lp.lsn /\ lp'.s_lsn = lp.s_lsn /\ lp'.t_lsn = lp.t_lsn /\ lp'.len = lp.len
  BY <1>14, <1>15, CountFollows
<1>. QED BY <1>1, <1>8, <1>9, <1>10, <1>11, <1>12, <1>13, <1>15, <1>16

LEMMA FinishStep ==
  ASSUME Base, NEW t \in Thread, Finish(t)
  PROVE  Base' /\ Grows(lp')
<1>1. /\ pc[t] = "finish" /\ region \in {None, t} /\ region' = t
      /\ Woken \subseteq Members(commits) /\ t \notin Woken
      /\ commits' \in Seq(Thread) /\ Members(commits') = Members(commits) \ Woken
      /\ marked' = marked \cup Chosen
      /\ pc' = [s \in Thread |-> IF s = t THEN "return"
                                 ELSE IF s \in Woken THEN "woken" ELSE pc[s]]
      /\ mtx_flush' = mtx_flush /\ call' = call /\ log' = log
      /\ puts' = puts /\ faults' = faults /\ UNCHANGED <<told, stable>>
      /\ Follows(lp', t) /\ Grows(lp')
      /\ lp'.lsn = lp.lsn /\ lp'.s_lsn = lp.s_lsn /\ lp'.t_lsn = lp.t_lsn /\ lp'.len = lp.len
      /\ IsFiniteSet(Chosen) /\ Cardinality(Chosen) \in Nat
      /\ lp'.in_flush = lp.in_flush - (IF call[t].flushing THEN 1 ELSE 0) + Cardinality(Chosen)
  BY FinishMoves
<1>2. /\ pc'[t] = "return" /\ \A s \in Woken : pc'[s] = "woken"
      /\ \A s \in Thread \ (Woken \cup {t}) : pc'[s] = pc[s]
      /\ Members(commits) \subseteq Thread /\ None \notin Thread
      /\ pc' \in [Thread -> {"idle", "enter", "wait", "woken", "flush", "sync", "finish", "return"}]
  <2>1. Members(commits) \subseteq Thread BY DEF Base, Shape, Members
  <2>2. pc' \in [Thread -> {"idle", "enter", "wait", "woken", "flush", "sync", "finish", "return"}]
    <3>1. \A s \in Thread :
            pc[s] \in {"idle", "enter", "wait", "woken", "flush", "sync", "finish", "return"}
      BY DEF Base, Shape
    <3>. QED BY <1>1, <3>1
  <2>. QED BY <1>1, <2>1, <2>2, LogBufferAssumption
<1>3. Chosen \subseteq Woken /\ Woken \subseteq Thread BY <1>1, <1>2 DEF Woken
<1>4. Shape' BY <1>1, <1>2, <1>3 DEF Base, Shape, Follows, told
<1>5. \A s \in Thread : ThreadOK(s) BY DEF Base
<1>6. \A s \in Thread : ThreadOK(s)'
  <2>1. TAKE s \in Thread
  <2>2. CASE s = t
    <3>1. ThreadOK(t) BY <1>5
    <3>2. CallOK(call[t], lp, log) BY <1>1, <3>1 DEF ThreadOK
    <3>3. CallOK(call[t], lp', log') BY <1>1, <3>2 DEF CallOK, LastRecord
    <3>4. t \notin marked' /\ t \notin Members(commits')
      BY <1>1, <1>3, <3>1 DEF ThreadOK
    <3>. QED BY <1>1, <1>2, <2>2, <3>1, <3>3, <3>4 DEF ThreadOK
  <2>3. CASE s \in Woken
    <3>1. ThreadOK(s) /\ s # t BY <1>1, <1>5, <2>3
    <3>2. /\ pc[s] = "wait" /\ s \notin marked
          /\ CallOK(call[s], lp, log) /\ ~ call[s].failed /\ ~ call[s].flushing /\ call[s].release
          /\ ~ Less(lp.t_lsn, call[s].lsn) /\ region # s /\ mtx_flush # s
          /\ call[s].op = "switch" => puts < MaxPuts
      BY <1>1, <2>3, <3>1 DEF ThreadOK
    <3>3. CallOK(call[s], lp', log') BY <1>1, <3>2 DEF CallOK, LastRecord
    <3>4. s \notin Chosen => Less(call[s].lsn, lp.s_lsn) BY <2>3 DEF Woken, Served
    <3>5. pc'[s] = "woken" /\ s \notin Members(commits') BY <1>1, <1>2, <2>3
    <3>6. call'[s] = call[s] /\ (s \in marked' <=> s \in Chosen) /\ region' # s /\ mtx_flush' # s
      BY <1>1, <3>1, <3>2
    <3>. QED BY <1>1, <3>2, <3>3, <3>4, <3>5, <3>6 DEF ThreadOK
  <2>4. CASE s \notin Woken /\ s # t
    <3>1. LeavesAlone(s) BY <1>1, <1>2, <1>3, <2>4 DEF LeavesAlone
    <3>. QED BY <1>1, <1>4, <1>5, <2>4, <3>1, Undisturbed DEF Base, Follows
  <2>. QED BY <2>2, <2>3, <2>4
<1>7. CountOK'
  <2>1. \A s \in Woken : pc[s] = "wait" /\ s \notin marked
    BY <1>1, <1>3, <1>5 DEF ThreadOK
  <2>2. InFlight' = InFlight \ {t} BY <1>1, <1>2, <1>3, <2>1 DEF InFlight
  <2>3. t \in InFlight <=> call[t].flushing BY <1>1 DEF InFlight
  <2>4. IsFiniteSet(InFlight) /\ IsFiniteSet(marked)
    BY FS_Subset, LogBufferAssumption DEF InFlight, Base, Shape
  <2>5. Cardinality(InFlight) \in Nat /\ Cardinality(marked) \in Nat
    BY <2>4, FS_CardinalityType
  <2>6. Cardinality(InFlight') = Cardinality(InFlight) - (IF call[t].flushing THEN 1 ELSE 0)
    <3>1. CASE call[t].flushing BY <2>2, <2>3, <2>4, <2>5, <3>1, FS_RemoveElement
    <3>2. CASE ~ call[t].flushing
      <4>1. InFlight' = InFlight BY <2>2, <2>3, <3>2
      <4>. QED BY <2>5, <3>2, <4>1
    <3>. QED BY <3>1, <3>2
  <2>7. Cardinality(marked') = Cardinality(marked) + Cardinality(Chosen)
    <3>1. marked \cap Chosen = {} BY <1>3, <2>1
    <3>2. Cardinality(marked \cup Chosen)
            = Cardinality(marked) + Cardinality(Chosen) - Cardinality(marked \cap Chosen)
      BY <1>1, <2>4, FS_Union
    <3>3. Cardinality(marked \cap Chosen) = 0 BY <3>1, FS_EmptySet
    <3>4. PICK a \in Nat, b \in Nat : a = Cardinality(marked) /\ b = Cardinality(Chosen)
      BY <1>1, <2>5
    <3>5. Cardinality(marked \cup Chosen) = a + b - 0 BY <3>2, <3>3, <3>4
    <3>6. Cardinality(marked') = Cardinality(marked \cup Chosen) BY <1>1, Zenon
    <3>. QED BY <3>4, <3>5, <3>6
  <2>8. CASE call[t].flushing BY <1>1, <2>5, <2>6, <2>7, <2>8 DEF Base, CountOK
  <2>9. CASE ~ call[t].flushing BY <1>1, <2>5, <2>6, <2>7, <2>9 DEF Base, CountOK
  <2>. QED BY <2>8, <2>9
<1>. QED BY <1>1, <1>4, <1>6, <1>7 DEF Base, Follows

-----------------------------------------------------------------------------
(* A crash.                                                                   *)
LEMMA SurvivingOK ==
  ASSUME Base, NEW lost
  PROVE  ImageOK(Surviving(lost))
<1>1. PICK image : image = Surviving(lost) OBVIOUS
<1>2. /\ ImageOK(written) /\ ImageOK(stable)
      /\ written \in [1..Files -> [Offset -> Unit]] /\ stable \in [1..Files -> [Offset -> Unit]]
      /\ \A f \in 1..Files : FileOK(written[f], f) /\ FileOK(stable[f], f)
  BY DEF Base, ImageOK
<1>3. \A f \in 1..Files, o \in Offset : image[f][o] \in {written[f][o], stable[f][o]}
  BY <1>1 DEF Surviving
<1>4. image \in [1..Files -> [Offset -> Unit]]
  BY <1>1, <1>2 DEF Surviving
<1>5. \A f \in 1..Files : FileOK(image[f], f)
  <2>1. TAKE f \in 1..Files
  <2>2. f = 1 => image[f][0] = <<Header(1), 0>>
    <3>1. 0 \in Offset BY LogBufferAssumption DEF Offset
    <3>2. f = 1 => written[f][0] = <<Header(1), 0>> /\ stable[f][0] = <<Header(1), 0>>
      BY <1>2 DEF FileOK
    <3>. QED BY <1>3, <3>1, <3>2
  <2>3. \A o \in Offset :
          image[f][o] # Zero =>
            /\ image[f][o] \in Record \X Nat
            /\ image[f][o][2] < image[f][o][1].size
            /\ image[f][o][1].lsn = <<f, o - image[f][o][2]>>
            /\ EndOf(image[f][o][1]) <= LogSize
            /\ image[f][o][1].lsn[2] = 0 => image[f][o][1] = Header(f)
    <3>1. TAKE o \in Offset
    <3>2. CASE image[f][o] = written[f][o]
      <4>1. FileOK(written[f], f) BY <1>2
      <4>2. PICK u : u = image[f][o] OBVIOUS
      <4>3. u = written[f][o] BY <3>2, <4>2
      <4>4. u # Zero => /\ u \in Record \X Nat /\ u[2] < u[1].size
                        /\ u[1].lsn = <<f, o - u[2]>> /\ EndOf(u[1]) <= LogSize
                        /\ u[1].lsn[2] = 0 => u[1] = Header(f)
        BY <4>1, <4>3, Zenon DEF FileOK
      <4>. QED BY <4>2, <4>4
    <3>3. CASE image[f][o] = stable[f][o]
      <4>1. FileOK(stable[f], f) BY <1>2
      <4>2. PICK u : u = image[f][o] OBVIOUS
      <4>3. u = stable[f][o] BY <3>3, <4>2
      <4>4. u # Zero => /\ u \in Record \X Nat /\ u[2] < u[1].size
                        /\ u[1].lsn = <<f, o - u[2]>> /\ EndOf(u[1]) <= LogSize
                        /\ u[1].lsn[2] = 0 => u[1] = Header(f)
        BY <4>1, <4>3, Zenon DEF FileOK
      <4>. QED BY <4>2, <4>4
    <3>. QED BY <1>3, <3>2, <3>3
  <2>. QED BY <2>2, <2>3, Zenon DEF FileOK
<1>. QED BY <1>1, <1>4, <1>5 DEF ImageOK

(* What is left after a crash.                                                *)
LEMMA CrashLeaves ==
  ASSUME Base, Crash
  PROVE  \E lost \in SUBSET Dirty, end \in LSN :
           /\ ImageOK(Surviving(lost))
           /\ log' = ReadableLog(Surviving(lost)) /\ log' \subseteq Record
           /\ lp' \in LogFields /\ lp'.in_flush = 0 /\ lp'.s_lsn = end /\ LogOK(lp', log')
           /\ ImageOK(written') /\ ImageOK(stable') /\ WrittenOK(written', lp', log')
           /\ tail' \in 0..Files
           /\ \A s \in log' : Less(s.lsn, end) /\ Whole(stable', s)
<1>1. PICK lost \in SUBSET Dirty : Reopen(Surviving(lost)) BY DEF Crash
<1>2. PICK image : image = Surviving(lost) OBVIOUS
<1>3. ImageOK(image) BY <1>2, SurvivingOK
<1>4. PICK records : records = ReadableLog(image) OBVIOUS
<1>5. PICK r : r = LastOf(records) OBVIOUS
<1>6. PICK end : end = <<r.lsn[1], r.lsn[2] + r.size>> OBVIOUS
<1>7. Reopen(image) BY <1>1, <1>2
<1>8. /\ log' = records
      /\ lp' = Reopened(end, r.size)
      /\ written' = ZeroTail(image, end)
      /\ stable' = [f \in 1..Files |-> IF f > end[1] THEN EmptyFile ELSE image[f]]
      /\ tail' = IF written' = stable' THEN 0 ELSE end[1]
  BY <1>4, <1>5, <1>6, <1>7, Zenon DEF Reopen, Reopened
<1>9. /\ records \in SUBSET Record /\ end \in LSN
      /\ Reopened(end, r.size) \in LogFields
      /\ LogOK(Reopened(end, r.size), records)
      /\ ImageOK(ZeroTail(image, end))
      /\ ImageOK([f \in 1..Files |-> IF f > end[1] THEN EmptyFile ELSE image[f]])
      /\ WrittenOK(ZeroTail(image, end), Reopened(end, r.size), records)
      /\ \A s \in records :
           /\ Less(s.lsn, end)
           /\ Whole([f \in 1..Files |-> IF f > end[1] THEN EmptyFile ELSE image[f]], s)
  <2>1. ReopenedOK(image, records, r, end) BY <1>3, <1>4, <1>5, <1>6, ReopenKeeps
  <2>. QED BY <2>1, Zenon DEF ReopenedOK
<1>10. lp'.in_flush = 0 /\ lp'.s_lsn = end BY <1>8 DEF Reopened, NewLog
<1>11. tail' \in 0..Files
  <2>1. end[1] \in 1..Files BY <1>9, LsnPair
  <2>. QED BY <1>8, <2>1, LogBufferAssumption
<1>. QED BY <1>2, <1>3, <1>4, <1>8, <1>9, <1>10, <1>11

LEMMA CrashStep ==
  ASSUME Base, Crash
  PROVE  Base' /\ crashes' # crashes
<1>1. /\ commits' = << >> /\ marked' = {} /\ region' = None /\ mtx_flush' = None
      /\ pc' = [t \in Thread |-> "idle"] /\ call' = [t \in Thread |-> NoCall]
      /\ panicked' = FALSE /\ crashes < MaxCrashes /\ crashes' = crashes + 1
      /\ UNCHANGED <<told, puts, faults>>
  BY DEF Crash
<1>2. /\ log' \subseteq Record /\ lp' \in LogFields /\ lp'.in_flush = 0 /\ LogOK(lp', log')
      /\ ImageOK(written') /\ ImageOK(stable') /\ WrittenOK(written', lp', log')
      /\ tail' \in 0..Files
  BY CrashLeaves
<1>3. crashes \in Nat /\ crashes' \in 0..MaxCrashes /\ crashes' # crashes
  BY <1>1, LogBufferAssumption DEF Base, Shape
<1>4. pc' \in [Thread -> {"idle", "enter", "wait", "woken", "flush", "sync", "finish", "return"}]
      /\ call' \in [Thread -> CallFields]
  BY <1>1, NoCallFields
<1>5. commits' \in Seq(Thread) /\ Members(commits') = {} BY <1>1 DEF Members
<1>6. Shape' BY <1>1, <1>2, <1>3, <1>4, <1>5 DEF Base, Shape, told
<1>7. \A t \in Thread : ThreadOK(t)'
  <2>1. TAKE t \in Thread
  <2>2. None # t BY LogBufferAssumption
  <2>3. pc'[t] = "idle" /\ call'[t] = NoCall BY <1>1
  <2>. QED BY <1>1, <1>5, <2>2, <2>3, NoCallFields DEF ThreadOK
<1>8. CountOK'
  <2>1. InFlight' = {} BY <1>1 DEF InFlight
  <2>. QED BY <1>1, <1>2, <2>1, FS_EmptySet DEF CountOK
<1>. QED BY <1>2, <1>3, <1>6, <1>7, <1>8 DEF Base

-----------------------------------------------------------------------------
(* The empty log.                                                             *)
LEMMA InitBase ==
  ASSUME Init
  PROVE  Base
<1>1. /\ lp = NewLog /\ log = {Header(1)} /\ stable = written
      /\ written = [f \in 1..Files |->
                      IF f = 1 THEN [EmptyFile EXCEPT ![0] = <<Header(1), 0>>] ELSE EmptyFile]
      /\ commits = << >> /\ marked = {} /\ region = None /\ mtx_flush = None
      /\ pc = [t \in Thread |-> "idle"] /\ call = [t \in Thread |-> NoCall]
      /\ promised = <<1, 0>> /\ committed = {} /\ tail = 0
      /\ puts = 0 /\ faults = 0 /\ crashes = 0 /\ panicked = FALSE
  BY DEF Init
<1>2. /\ LogSize \in Nat /\ LogSize >= 1 /\ Files \in Nat /\ Files >= 1 /\ 0 \in Offset
      /\ BufferSize \in Nat /\ BufferSize >= 1 /\ 0 \in 0..(BufferSize - 1)
      /\ Offset \subseteq Nat
  BY LogBufferAssumption DEF Offset
<1>3. PICK h : h = Header(1) OBVIOUS
<1>4. /\ h \in Record /\ h.lsn = <<1, 0>> /\ h.lsn[1] = 1 /\ h.lsn[2] = 0 /\ h.size = 1
      /\ EndOf(h) = 1
  BY <1>2, <1>3 DEF Header, Record, EndOf, LSN
<1>5. /\ lp.lsn = <<1, 1>> /\ lp.s_lsn = <<1, 1>> /\ lp.t_lsn = <<1, 0>> /\ lp.f_lsn = <<1, 0>>
      /\ lp.len = 1 /\ lp.b_off = 0 /\ lp.w_off = 1 /\ lp.in_flush = 0
  BY <1>1 DEF NewLog
<1>6. lp \in LogFields
  <2>1. <<1, 1>> \in LSN /\ <<1, 0>> \in LSN /\ <<1, 0>> \in (0..Files) \X (0..LogSize)
        /\ 1 \in 1..LogSize /\ 1 \in 0..LogSize
    BY <1>2 DEF LSN
  <2>. QED BY <1>1, <1>2, <2>1 DEF NewLog, LogFields
<1>7. log = {h} BY <1>1, <1>3
<1>8. \A o \in Offset : Covers(h, 1, o) <=> o = 0 BY <1>2, <1>4 DEF Covers
<1>9. LogOK(lp, log)
  <2>1. Placed(lp, log)
    <3>1. \A o \in Offset : o < 1 => Covers(h, 1, o) BY <1>2, <1>8
    <3>2. \A o \in Offset : ~ o < 0 BY <1>2
    <3>3. \A r \in log :
            /\ r.lsn[1] < lp.lsn[1] \/ (r.lsn[1] = lp.lsn[1] /\ EndOf(r) <= lp.lsn[2])
            /\ EndOf(r) <= LogSize
            /\ r.lsn[2] = 0 => r = Header(r.lsn[1])
            /\ \A o \in Offset : o < r.lsn[2] => \E s \in log : Covers(s, r.lsn[1], o)
      BY <1>2, <1>3, <1>4, <1>5, <1>7, <3>2
    <3>4. \A o \in Offset : o < lp.lsn[2] => \E s \in log : Covers(s, lp.lsn[1], o)
      BY <1>5, <1>7, <3>1
    <3>. QED BY <1>3, <1>7, <3>3, <3>4 DEF Placed
  <2>2. Buffered(lp, log)
    <3>1. Safe(lp) = <<1, 1>> /\ ~ Less(<<1, 1>>, <<1, 1>>) BY <1>5 DEF Safe, Less
    <3>2. Less(<<1, 0>>, <<1, 1>>) BY DEF Less
    <3>. QED BY <1>4, <1>5, <1>7, <3>1, <3>2 DEF Buffered
  <2>3. FileKnown(lp) BY <1>5 DEF FileKnown
  <2>4. LastIs(lp, log) BY <1>4, <1>5, <1>7 DEF LastIs, LastRecord
  <2>. QED BY <2>1, <2>2, <2>3, <2>4 DEF LogOK
<1>10. Zero \in Unit /\ EmptyFile \in [Offset -> Unit] /\ \A o \in Offset : EmptyFile[o] = Zero
  BY DEF Unit, EmptyFile
<1>11. PICK first : first = [EmptyFile EXCEPT ![0] = <<h, 0>>] OBVIOUS
<1>12. /\ first \in [Offset -> Unit] /\ first[0] = <<h, 0>>
       /\ \A o \in Offset : o # 0 => first[o] = Zero
  <2>1. <<h, 0>> \in Unit BY <1>4 DEF Unit
  <2>. QED BY <1>2, <1>10, <1>11, <2>1
<1>13. written = [f \in 1..Files |-> IF f = 1 THEN first ELSE EmptyFile]
  BY <1>1, <1>3, <1>11, Zenon
<1>14. ImageOK(written)
  <2>1. FileOK(first, 1)
    <3>1. <<h, 0>>[1] = h /\ <<h, 0>>[2] = 0 /\ <<h, 0>> \in Record \X Nat BY <1>4
    <3>2. \A o \in Offset : first[o] # Zero => o = 0 /\ first[o] = <<h, 0>> BY <1>12
    <3>3. \A o \in Offset :
            first[o] # Zero =>
              /\ first[o] \in Record \X Nat
              /\ first[o][2] < first[o][1].size
              /\ first[o][1].lsn = <<1, o - first[o][2]>>
              /\ EndOf(first[o][1]) <= LogSize
              /\ first[o][1].lsn[2] = 0 => first[o][1] = Header(1)
      BY <1>2, <1>3, <1>4, <3>1, <3>2
    <3>. QED BY <1>3, <1>12, <3>3, Zenon DEF FileOK
  <2>2. \A f \in 1..Files : f # 1 => FileOK(EmptyFile, f) BY <1>10 DEF FileOK
  <2>. QED BY <1>10, <1>12, <1>13, <2>1, <2>2 DEF ImageOK
<1>15. WrittenOK(written, lp, log)
  <2>1. SUFFICES ASSUME NEW k \in Offset, k < h.size
                 PROVE  written[h.lsn[1]][h.lsn[2] + k] = <<h, k>>
    BY <1>7 DEF WrittenOK
  <2>2. k = 0 BY <1>2, <1>4, <2>1
  <2>3. h.lsn[1] \in 1..Files BY <1>2, <1>4
  <2>. QED BY <1>4, <1>12, <1>13, <2>2, <2>3
<1>16. Members(commits) = {} /\ commits \in Seq(Thread) BY <1>1 DEF Members
<1>17. Shape
  <2>1. <<1, 0>> \in LSN BY NoCallFields
  <2>2. puts \in 0..MaxPuts /\ faults \in 0..MaxFaults /\ crashes \in 0..MaxCrashes
        /\ tail \in 0..Files
    BY <1>1, LogBufferAssumption
  <2>3. log \subseteq Record BY <1>4, <1>7
  <2>. QED BY <1>1, <1>6, <1>16, <2>1, <2>2, <2>3, NoCallFields DEF Shape
<1>18. \A t \in Thread : ThreadOK(t)
  <2>1. TAKE t \in Thread
  <2>2. None # t BY LogBufferAssumption
  <2>3. pc[t] = "idle" /\ call[t] = NoCall BY <1>1
  <2>. QED BY <1>1, <1>16, <2>2, <2>3, NoCallFields DEF ThreadOK
<1>19. CountOK
  <2>1. InFlight = {} BY <1>1 DEF InFlight
  <2>. QED BY <1>1, <1>5, <2>1, FS_EmptySet DEF CountOK
<1>. QED BY <1>1, <1>9, <1>14, <1>15, <1>17, <1>18, <1>19 DEF Base

-----------------------------------------------------------------------------
(* Every step keeps the invariant, and every step but a crash grows the log.  *)
LEMMA BaseKeeps ==
  ASSUME Base, [Next]_vars
  PROVE  Base' /\ (Crash \/ Grows(lp'))
<1>1. CASE UNCHANGED vars
  <2>1. /\ lp' = lp /\ log' = log /\ written' = written /\ stable' = stable /\ tail' = tail
        /\ commits' = commits /\ marked' = marked /\ region' = region /\ mtx_flush' = mtx_flush
        /\ pc' = pc /\ call' = call /\ promised' = promised /\ committed' = committed
        /\ puts' = puts /\ faults' = faults /\ crashes' = crashes /\ panicked' = panicked
    BY <1>1 DEF vars, disk, group, mutexes, told, bounds
  <2>2. Shape' BY <2>1 DEF Base, Shape
  <2>3. InFlight' = InFlight BY <2>1 DEF InFlight
  <2>4. \A t \in Thread : ThreadOK(t)'
    BY <2>1 DEF Base, ThreadOK, SyncOK
  <2>5. Base' BY <2>1, <2>2, <2>3, <2>4 DEF Base, CountOK
  <2>6. Grows(lp')
    <3>1. lp.s_lsn \in Pair /\ lp.t_lsn \in Pair /\ lp.lsn \in Pair /\ Safe(lp) \in Pair
      BY LogFieldTypes DEF Base, Shape
    <3>2. faults \in Nat BY LogBufferAssumption DEF Base, Shape
    <3>. QED BY <2>1, <3>1, <3>2, Order DEF Grows
  <2>. QED BY <2>5, <2>6
<1>2. CASE Crash BY <1>2, CrashStep
<1>3. ASSUME NEW t \in Thread, NEW n \in Sizes,
             NEW flags \in {"none", "wrnosync", "flush"}, Put(t, n, flags)
      PROVE  Base' /\ Grows(lp')
  BY <1>3, PutStep
<1>4. ASSUME NEW t \in Thread, NEW r \in log, LogFlush(t, r)
      PROVE  Base' /\ Grows(lp')
  BY <1>4, LogFlushStep
<1>5. ASSUME NEW t \in Thread, LogFlushAll(t) PROVE Base' /\ Grows(lp')
  BY <1>5, LogFlushAllStep
<1>6. ASSUME NEW t \in Thread, Resume(t) PROVE Base' /\ Grows(lp')
  <2>1. CASE LogFlushEnter(t) BY <2>1, LogFlushEnterStep
  <2>2. CASE Wake(t) BY <2>2, WakeStep
  <2>3. CASE FlushIsDone(t) BY <2>3, FlushIsDoneStep
  <2>4. CASE WriteBuffer(t) BY <2>4, WriteBufferStep
  <2>5. CASE Sync(t) BY <2>5, SyncStep
  <2>6. CASE Finish(t) BY <2>6, FinishStep
  <2>7. CASE ReturnToPut(t) BY <2>7, ReturnToPutStep
  <2>8. CASE Return(t) BY <2>8, ReturnStep
  <2>9. CASE CommitStands(t) BY <2>9, CommitStandsStep
  <2>10. CASE ForceAbort(t) BY <2>10, ForceAbortStep
  <2>11. CASE ForceAbortMisses(t) BY <2>11, ForceAbortMissesStep
  <2>. QED BY <1>6, <2>1, <2>2, <2>3, <2>4, <2>5, <2>6, <2>7, <2>8, <2>9, <2>10, <2>11, Zenon
           DEF Resume
<1>7. ASSUME NEW t \in Thread, WriteFails(t) PROVE Base' /\ Grows(lp')
  BY <1>7, WriteFailsStep
<1>8. ASSUME NEW t \in Thread, SyncFails(t) PROVE Base' /\ Grows(lp')
  BY <1>8, SyncFailsStep
<1>. QED BY <1>1, <1>2, <1>3, <1>4, <1>5, <1>6, <1>7, <1>8, Zenon DEF Next

LEMMA Reachable == Spec => []Base
<1>1. Init => Base BY InitBase
<1>2. Base /\ [Next]_vars => Base' BY BaseKeeps
<1>. QED BY <1>1, <1>2, PTL DEF Spec

LEMMA BaseTypes ==
  ASSUME Base
  PROVE  TypeOK
<1>1. lp.in_flush \in 0..(2 * Cardinality(Thread))
  <2>1. InFlight \subseteq Thread /\ marked \subseteq Thread /\ IsFiniteSet(Thread)
    BY LogBufferAssumption DEF InFlight, Base, Shape
  <2>2. /\ Cardinality(InFlight) \in Nat /\ Cardinality(marked) \in Nat
        /\ Cardinality(Thread) \in Nat
        /\ Cardinality(InFlight) <= Cardinality(Thread)
        /\ Cardinality(marked) <= Cardinality(Thread)
    BY <2>1, FS_Subset, FS_CardinalityType
  <2>. QED BY <2>2 DEF Base, CountOK
<1>2. lp \in [lsn : LSN, s_lsn : LSN, t_lsn : LSN, f_lsn : (0..Files) \X (0..LogSize),
              len : 1..LogSize, b_off : 0..(BufferSize - 1), w_off : 0..LogSize,
              in_flush : 0..(2 * Cardinality(Thread))]
  BY <1>1 DEF Base, Shape, LogFields
<1>3. written \in [1..Files -> [Offset -> Unit]] /\ stable \in [1..Files -> [Offset -> Unit]]
  BY DEF Base, ImageOK
<1>. QED BY <1>2, <1>3 DEF Base, Shape, CallFields, TypeOK

(* The variables hold what they should, whatever threads, calls, faults and   *)
(* crashes do: a full buffer is never left in the region, no file grows       *)
(* beyond its size, and in_flush, which decides whether a commit waits or     *)
(* flushes itself, counts those who flush and those who were told to and so   *)
(* never leaves its range (__log_flush_int).                                  *)
THEOREM TypesHold == Spec => []TypeOK
BY Reachable, BaseTypes, PTL

(* "The sync point can only move forward" while the system runs: an fsync     *)
(* that comes back late, when others have written and synced meanwhile, never *)
(* takes s_lsn back, so that the test without the lock (ALREADY_FLUSHED in    *)
(* __log_flush) is safe.                                                      *)
THEOREM SyncPointNeverMovesBack == Spec => SyncPointMovesForward
<1>1. Base /\ [Next]_vars => [crashes' = crashes => ~ Less(lp'.s_lsn, lp.s_lsn)]_vars
  BY BaseKeeps, CrashStep DEF Grows
<1>. QED BY <1>1, Reachable, PTL DEF Spec, SyncPointMovesForward

-----------------------------------------------------------------------------
(* What is on the medium.  Only writes fail, or one call in all: a second     *)
(* failure of an fsync is beyond what __log_flush_commit can make good, since *)
(* the flush of another thread may still sync the commit that is being turned *)
(* into an abort.                                                             *)

OneSyncFault == "sync" \notin Faults \/ MaxFaults <= 1

(* A thread that is to flush for others than itself, and one whose flush has  *)
(* failed, or that is making this good; a commit that may still be turned     *)
(* into an abort.                                                             *)
Flushes(t) == call[t].release /\ (t \in marked \/ pc[t] \in {"flush", "sync", "finish"})
Culprit(t) == call[t].failed \/ call[t].op = "again"
Uncertain(t) == call[t].op = "commit" /\ call[t].failed /\ ~ Less(call[t].lsn, lp.s_lsn)

(* What the fsync that runs covers has all records it is to cover.            *)
CoverOK(t) ==
  pc[t] = "sync" =>
    \A r \in log, k \in Offset :
      r.lsn[1] = lp.lsn[1] /\ Less(r.lsn, call[t].synced) /\ k < r.size
        => call[t].covered[r.lsn[2] + k] = <<r, k>>

(* Before the first failure one thread flushes at a time, and while the       *)
(* thread whose fsync failed has not come to the label done nobody else does. *)
Alone ==
  /\ faults = 0 => \A s, t \in Thread : Flushes(s) /\ Flushes(t) => s = t
  /\ faults = 0 => \A t \in Thread : ~ Culprit(t)
  /\ \A s, t \in Thread : Culprit(s) /\ Culprit(t) => s = t
  /\ \A t \in Thread : pc[t] = "finish" /\ Uncertain(t) => \A s \in Thread \ {t} : ~ Flushes(s)

Certain ==
  /\ SyncPointIsSynced
  /\ \A t \in Thread : CoverOK(t)
  /\ "sync" \notin Faults =>
       \A t \in Thread : pc[t] \in {"finish", "return"} /\ call[t].failed => ~ call[t].flushing
  /\ MaxFaults <= 1 => Alone
  /\ \A t \in Thread : pc[t] = "return" /\ Uncertain(t) => mtx_flush = None

(* A step of t that syncs nothing.  It changes no record that is synced, and  *)
(* none at all while an fsync runs.                                           *)
Quiet(t) ==
  /\ stable' = stable /\ faults' = faults /\ lp'.s_lsn = lp.s_lsn
  /\ mtx_flush # None => lp'.lsn[1] = lp.lsn[1]
  /\ mtx_flush' = mtx_flush \/ region = t
  /\ \A q \in log' :
       q \in log \/ (~ Less(q.lsn, lp.s_lsn) /\ (mtx_flush = None \/ ~ Less(q.lsn, lp.lsn)))
  /\ \A s \in Thread \ {t} :
       pc'[s] = pc[s] /\ call'[s] = call[s] /\ (s \in marked' <=> s \in marked)

Own(t) ==
  /\ pc'[t] # "return" /\ (pc'[t] = "finish" => ~ call'[t].failed)
  /\ Culprit(t)' => Culprit(t)
  /\ Flushes(t)' => \/ Flushes(t)
                    \/ \A s \in Thread \ {t} : ~ Flushes(s) /\ ~ (pc[s] = "finish" /\ Uncertain(s))
  /\ CoverOK(t)'

LEMMA SafeIsBefore ==
  ASSUME NEW l \in LogFields, NEW records \in SUBSET Record, LogOK(l, records)
  PROVE  ~ Less(l.lsn, Safe(l))
<1>1. l.lsn \in Pair BY LogFieldTypes
<1>2. CASE l.b_off = 0 BY <1>1, <1>2, Order DEF Safe
<1>3. CASE l.b_off # 0
  <2>1. PICK r \in records : r.lsn = l.f_lsn BY <1>3 DEF LogOK, Buffered
  <2>2. r.lsn \in Pair /\ Less(r.lsn, l.lsn) BY <2>1, RecordFields, RecordsBefore DEF LogOK
  <2>. QED BY <1>1, <1>3, <2>1, <2>2, Order DEF Safe
<1>. QED BY <1>2, <1>3

LEMMA QuietKeeps ==
  ASSUME Base, Base', Certain, NEW t \in Thread, Quiet(t), Own(t)
  PROVE  Certain'
<1>1. /\ stable' = stable /\ faults' = faults /\ lp'.s_lsn = lp.s_lsn
      /\ (mtx_flush # None => lp'.lsn[1] = lp.lsn[1])
      /\ (mtx_flush' = mtx_flush \/ region = t)
  BY DEF Quiet
<1>2. /\ pc'[t] # "return" /\ (pc'[t] = "finish" => ~ call'[t].failed)
      /\ (Culprit(t)' => Culprit(t))
      /\ (Flushes(t)' => \/ Flushes(t)
                         \/ \A s \in Thread \ {t} :
                              ~ Flushes(s) /\ ~ (pc[s] = "finish" /\ Uncertain(s)))
      /\ CoverOK(t)'
  BY DEF Own
<1>3. \A s \in Thread \ {t} :
        pc'[s] = pc[s] /\ call'[s] = call[s] /\ (s \in marked' <=> s \in marked)
  BY DEF Quiet
<1>4. \A s \in Thread \ {t} : /\ Flushes(s)' <=> Flushes(s)
                              /\ Culprit(s)' <=> Culprit(s)
                              /\ Uncertain(s)' <=> Uncertain(s)
  BY <1>1, <1>3 DEF Flushes, Culprit, Uncertain
<1>5. SyncPointIsSynced'
  <2>1. SUFFICES ASSUME NEW q \in log', Less(q.lsn, lp'.s_lsn) PROVE Whole(stable', q)
    BY DEF SyncPointIsSynced
  <2>2. q \in log BY <1>1, <2>1 DEF Quiet
  <2>. QED BY <1>1, <2>1, <2>2 DEF Certain, SyncPointIsSynced
<1>6. \A s \in Thread : CoverOK(s)'
  <2>1. TAKE s \in Thread
  <2>2. CASE s = t BY <1>2, <2>2
  <2>3. CASE s # t
    <3>1. SUFFICES ASSUME pc'[s] = "sync", NEW q \in log', NEW k \in Offset,
                          q.lsn[1] = lp'.lsn[1], Less(q.lsn, call'[s].synced), k < q.size
                   PROVE  call'[s].covered[q.lsn[2] + k] = <<q, k>>
      BY DEF CoverOK
    <3>2. pc[s] = "sync" /\ call'[s] = call[s] BY <1>3, <2>3, <3>1
    <3>3. ThreadOK(s) /\ call[s] \in CallFields BY DEF Base, Shape
    <3>4. mtx_flush = s /\ SyncOK(s) BY <3>2, <3>3 DEF ThreadOK
    <3>5. mtx_flush # None BY <3>4, LogBufferAssumption
    <3>6. q \in log
      <4>1. SUFFICES ASSUME q \notin log PROVE FALSE OBVIOUS
      <4>2. ~ Less(q.lsn, lp.lsn) BY <3>5, <4>1 DEF Quiet
      <4>3. ~ Less(lp.lsn, call[s].synced)
        <5>1. ~ Less(Safe(lp), call[s].synced) BY <3>4 DEF SyncOK
        <5>2. ~ Less(lp.lsn, Safe(lp))
          <6>1. lp \in LogFields /\ log \in SUBSET Record /\ LogOK(lp, log) BY DEF Base, Shape
          <6>. QED BY <6>1, SafeIsBefore
        <5>3. lp.lsn \in Pair /\ Safe(lp) \in Pair /\ call[s].synced \in Pair
          BY <3>3, CallTypes, LogFieldTypes DEF Base, Shape
        <5>. QED BY <5>1, <5>2, <5>3, Order
      <4>4. q.lsn \in Pair /\ lp.lsn \in Pair /\ call[s].synced \in Pair
        <5>1. q \in Record BY DEF Base, Shape
        <5>. QED BY <3>3, <5>1, RecordFields, CallTypes, LogFieldTypes DEF Base, Shape
      <4>. QED BY <3>1, <3>2, <4>2, <4>3, <4>4, Order
    <3>7. q.lsn[1] = lp.lsn[1] BY <1>1, <3>1, <3>5
    <3>. QED BY <3>1, <3>2, <3>6, <3>7 DEF Certain, CoverOK
  <2>. QED BY <2>2, <2>3
<1>7. "sync" \notin Faults =>
        \A s \in Thread : pc'[s] \in {"finish", "return"} /\ call'[s].failed => ~ call'[s].flushing
  BY <1>2, <1>3 DEF Certain
<1>8. MaxFaults <= 1 => Alone'
  <2>1. SUFFICES ASSUME MaxFaults <= 1 PROVE Alone' OBVIOUS
  <2>2. Alone BY <2>1 DEF Certain
  <2>3. faults' = 0 => \A s, u \in Thread : Flushes(s)' /\ Flushes(u)' => s = u
    BY <1>1, <1>2, <1>4, <2>2 DEF Alone
  <2>4. faults' = 0 => \A u \in Thread : ~ Culprit(u)' BY <1>1, <1>2, <1>4, <2>2 DEF Alone
  <2>5. \A s, u \in Thread : Culprit(s)' /\ Culprit(u)' => s = u BY <1>2, <1>4, <2>2 DEF Alone
  <2>6. \A u \in Thread : pc'[u] = "finish" /\ Uncertain(u)'
          => \A s \in Thread \ {u} : ~ Flushes(s)'
    <3>1. SUFFICES ASSUME NEW u \in Thread, pc'[u] = "finish", Uncertain(u)',
                          NEW s \in Thread \ {u}, Flushes(s)'
                   PROVE  FALSE
      OBVIOUS
    <3>2. u # t BY <1>2, <3>1 DEF Uncertain
    <3>3. pc[u] = "finish" /\ Uncertain(u) BY <1>3, <1>4, <3>1, <3>2
    <3>4. ~ Flushes(s) BY <2>2, <3>1, <3>3 DEF Alone
    <3>. QED BY <1>2, <1>4, <3>1, <3>2, <3>3, <3>4
  <2>. QED BY <2>3, <2>4, <2>5, <2>6 DEF Alone
<1>9. \A s \in Thread : pc'[s] = "return" /\ Uncertain(s)' => mtx_flush' = None
  <2>1. SUFFICES ASSUME NEW s \in Thread, pc'[s] = "return", Uncertain(s)' PROVE mtx_flush' = None
    OBVIOUS
  <2>2. s # t BY <1>2, <2>1
  <2>3. pc[s] = "return" /\ Uncertain(s) BY <1>3, <1>4, <2>1, <2>2
  <2>4. mtx_flush = None /\ ThreadOK(s) BY <2>3 DEF Certain, Base
  <2>5. region = s BY <2>3, <2>4 DEF ThreadOK
  <2>. QED BY <1>1, <2>2, <2>4, <2>5
<1>. QED BY <1>5, <1>6, <1>7, <1>8, <1>9 DEF Certain

(* Who is told that a record is on disk is told the truth.                    *)
Tells ==
  promised' = promised \/ (Less(promised', lp'.s_lsn) /\ \E r \in log' : r.lsn = promised')

OthersStay(t) ==
  \A s \in Thread \ {t} :
    pc'[s] = pc[s] /\ call'[s] = call[s] /\ (s \in marked' <=> s \in marked)

LEMMA AnswerIsOwn ==
  ASSUME Base, NEW t \in Thread, NEW lsn, NEW ok, Answer(t, lsn, ok),
         t \notin marked, marked' = marked,
         ok => Less(lsn, lp'.s_lsn) /\ \E r \in log' : r.lsn = lsn
  PROVE  Own(t) /\ OthersStay(t) /\ Tells
<1>1. pc' = [pc EXCEPT ![t] = "idle"] /\ call' = [call EXCEPT ![t] = NoCall] BY DEF Answer
<1>2. /\ pc'[t] = "idle" /\ call'[t] = NoCall
      /\ \A s \in Thread \ {t} : pc'[s] = pc[s] /\ call'[s] = call[s]
  BY <1>1 DEF Base, Shape
<1>3. Own(t)
  <2>1. ~ Culprit(t)' /\ ~ Flushes(t)' BY <1>2, NoCallFields DEF Culprit, Flushes
  <2>2. CoverOK(t)' BY <1>2 DEF CoverOK
  <2>. QED BY <1>2, <2>1, <2>2 DEF Own
<1>4. Tells BY DEF Answer, Tells
<1>. QED BY <1>2, <1>3, <1>4 DEF OthersStay

(* When nobody is counted in in_flush, who holds the region may start a flush.*)
LEMMA NobodyFlushes ==
  ASSUME Base, NEW t \in Thread, region \in {None, t}, lp.in_flush = 0
  PROVE  \A s \in Thread \ {t} : ~ Flushes(s) /\ ~ (pc[s] = "finish" /\ Uncertain(s))
<1>1. InFlight = {} /\ marked = {}
  <2>1. IsFiniteSet(InFlight) /\ IsFiniteSet(marked)
    BY FS_Subset, LogBufferAssumption DEF InFlight, Base, Shape
  <2>2. Cardinality(InFlight) \in Nat /\ Cardinality(marked) \in Nat
    BY <2>1, FS_CardinalityType
  <2>3. Cardinality(InFlight) = 0 /\ Cardinality(marked) = 0
    BY <2>2 DEF Base, CountOK
  <2>. QED BY <2>1, <2>3, FS_EmptySet
<1>2. SUFFICES ASSUME NEW s \in Thread \ {t}
               PROVE  ~ Flushes(s) /\ ~ (pc[s] = "finish" /\ Uncertain(s))
  OBVIOUS
<1>3. ThreadOK(s) /\ region # s BY LogBufferAssumption DEF Base
<1>4. pc[s] # "flush" BY <1>3 DEF ThreadOK
<1>5. pc[s] # "sync" BY <1>1, <1>3 DEF ThreadOK, SyncOK, InFlight
<1>6. pc[s] # "finish" BY <1>1, <1>3 DEF ThreadOK, InFlight
<1>. QED BY <1>1, <1>4, <1>5, <1>6 DEF Flushes

LEMMA EnterIsOwn ==
  ASSUME Base, NEW t \in Thread, NEW l \in LogFields, NEW c \in CallFields, EnterFlush(t, l, c),
         region \in {None, t}, pc[t] \in {"idle", "enter", "return"},
         ~ c.failed, c.op = "again" => Culprit(t), l.in_flush = lp.in_flush,
         \E r \in log' : r.lsn = c.lsn
  PROVE  Own(t) /\ OthersStay(t) /\ Tells /\ lp'.s_lsn = l.s_lsn /\ lp'.lsn = l.lsn
<1>1. ThreadOK(t) BY DEF Base
<1>2. t \notin marked BY <1>1 DEF ThreadOK
<1>3. CASE ReturnsAtOnce(l, c) /\ lp' = l /\ Answer(t, c.lsn, c.op /= "again") /\ UNCHANGED group
  <2>1. Less(c.lsn, lp'.s_lsn) BY <1>3 DEF ReturnsAtOnce, ALREADY_FLUSHED
  <2>2. marked' = marked BY <1>3 DEF group
  <2>. QED BY <1>2, <1>3, <2>1, <2>2, AnswerIsOwn
<1>4. CASE /\ lp' = [l EXCEPT !.t_lsn = IF Less(@, c.lsn) THEN c.lsn ELSE @]
           /\ call' = [call EXCEPT ![t] = c] /\ pc' = [pc EXCEPT ![t] = "wait"]
           /\ marked' = marked /\ promised' = promised
  <2>1. /\ pc'[t] = "wait" /\ call'[t] = c
        /\ \A s \in Thread \ {t} : pc'[s] = pc[s] /\ call'[s] = call[s]
    BY <1>4 DEF Base, Shape
  <2>2. lp'.s_lsn = l.s_lsn /\ lp'.lsn = l.lsn BY <1>4 DEF LogFields
  <2>3. Own(t)
    <3>1. Culprit(t)' => Culprit(t) BY <2>1 DEF Culprit
    <3>2. ~ Flushes(t)' BY <1>2, <1>4, <2>1 DEF Flushes
    <3>3. CoverOK(t)' BY <2>1 DEF CoverOK
    <3>. QED BY <2>1, <3>1, <3>2, <3>3 DEF Own
  <2>. QED BY <1>4, <2>1, <2>2, <2>3 DEF OthersStay, Tells
<1>5. CASE /\ ~ c.release \/ l.in_flush = 0
           /\ lp' = l
           /\ call' = [call EXCEPT ![t] = [c EXCEPT !.flush_lsn = c.lsn]]
           /\ pc' = [pc EXCEPT ![t] = "flush"]
           /\ marked' = marked /\ promised' = promised
  <2>1. PICK d : d = [c EXCEPT !.flush_lsn = c.lsn] OBVIOUS
  <2>2. d.failed = c.failed /\ d.op = c.op /\ d.release = c.release BY <2>1 DEF CallFields
  <2>3. /\ pc'[t] = "flush" /\ call'[t] = d
        /\ \A s \in Thread \ {t} : pc'[s] = pc[s] /\ call'[s] = call[s]
    BY <1>5, <2>1 DEF Base, Shape
  <2>4. Own(t)
    <3>1. Culprit(t)' => Culprit(t) BY <2>2, <2>3 DEF Culprit
    <3>2. Flushes(t)' => \A s \in Thread \ {t} :
            ~ Flushes(s) /\ ~ (pc[s] = "finish" /\ Uncertain(s))
      <4>1. Flushes(t)' => lp.in_flush = 0 BY <1>5, <2>2, <2>3 DEF Flushes
      <4>. QED BY <4>1, NobodyFlushes
    <3>3. CoverOK(t)' BY <2>3 DEF CoverOK
    <3>. QED BY <2>3, <3>1, <3>2, <3>3 DEF Own
  <2>. QED BY <1>5, <2>3, <2>4 DEF OthersStay, Tells
<1>. QED BY <1>3, <1>4, <1>5 DEF EnterFlush, group, told

-----------------------------------------------------------------------------
(* The actions that sync nothing.                                             *)
Calm(t) == Quiet(t) /\ Own(t) /\ Tells

LEMMA NoRecordsCalm ==
  ASSUME Base, NEW t \in Thread, Own(t), OthersStay(t), Tells,
         stable' = stable, faults' = faults, log' = log,
         mtx_flush' = mtx_flush \/ region = t, lp'.s_lsn = lp.s_lsn, lp'.lsn = lp.lsn
  PROVE  Calm(t)
BY DEF Calm, Quiet, OthersStay

LEMMA PutRecordCalm ==
  ASSUME Base, NEW t \in Thread, NEW newfile, NEW n, NEW flags, MayPut(newfile, n),
         PutRecord(t, newfile, n, flags), region \in {None, t},
         pc[t] \in {"idle", "return"}
  PROVE  Calm(t)
<1>1. PICK l : l = PutLeaves(newfile, n, flags) OBVIOUS
<1>2. PICK r : r = PutNew(newfile, n) OBVIOUS
<1>3. /\ r \in PutLog(newfile, n) /\ l \in LogFields
      /\ PutLog(newfile, n) \in SUBSET Record
      /\ l.s_lsn = lp.s_lsn /\ l.in_flush = lp.in_flush
      /\ ~ newfile => l.lsn[1] = lp.lsn[1]
      /\ \A q \in PutLog(newfile, n) : q \in log \/ ~ Less(q.lsn, lp.lsn)
  BY <1>1, <1>2, Appends
<1>4. /\ log' = PutLog(newfile, n) /\ UNCHANGED <<stable, mtx_flush, faults>>
  BY Zenon DEF PutRecord, PutLog, PutNew, PutAt
<1>5. \/ EnterFlush(t, l, [NoCall EXCEPT !.op = "commit", !.lsn = r.lsn])
      \/ lp' = l /\ Answer(t, r.lsn, FALSE) /\ UNCHANGED group
  BY <1>1, <1>2, Zenon DEF PutRecord, PutLeaves, PutNew, PutAt
<1>6. t \notin marked
  <2>1. ThreadOK(t) BY DEF Base
  <2>. QED BY <2>1 DEF ThreadOK
<1>7. Own(t) /\ OthersStay(t) /\ Tells /\ lp'.s_lsn = l.s_lsn /\ lp'.lsn = l.lsn
  <2>1. CASE EnterFlush(t, l, [NoCall EXCEPT !.op = "commit", !.lsn = r.lsn])
    <3>1. PICK c : c = [NoCall EXCEPT !.op = "commit", !.lsn = r.lsn] OBVIOUS
    <3>2. EnterFlush(t, l, c) BY <2>1, <3>1, Zenon
    <3>3. r.lsn \in LSN BY <1>3, RecordFields
    <3>4. c \in CallFields /\ c.op = "commit" /\ c.lsn = r.lsn /\ c.failed = FALSE
      BY <3>1, <3>3, NoCallFields DEF CallFields
    <3>5. \E q \in log' : q.lsn = c.lsn BY <1>3, <1>4, <3>4
    <3>. QED BY <1>3, <3>2, <3>4, <3>5, EnterIsOwn
  <2>2. CASE lp' = l /\ Answer(t, r.lsn, FALSE) /\ UNCHANGED group
    <3>1. marked' = marked BY <2>2 DEF group
    <3>. QED BY <1>6, <2>2, <3>1, AnswerIsOwn
  <2>. QED BY <1>5, <2>1, <2>2
<1>8. \A q \in log' : q \in log \/ (~ Less(q.lsn, lp.s_lsn) /\ ~ Less(q.lsn, lp.lsn))
  <2>1. TAKE q \in log'
  <2>2. q \in log \/ ~ Less(q.lsn, lp.lsn) BY <1>3, <1>4
  <2>3. /\ lp \in LogFields /\ log \in SUBSET Record /\ LogOK(lp, log)
        /\ lp.lsn \in Pair /\ lp.s_lsn \in Pair /\ Safe(lp) \in Pair
    BY LogFieldTypes DEF Base, Shape
  <2>4. ~ Less(lp.lsn, Safe(lp)) /\ ~ Less(Safe(lp), lp.s_lsn)
    BY <2>3, SafeIsBefore DEF LogOK, Buffered
  <2>5. q.lsn \in Pair BY <1>3, <1>4, RecordFields
  <2>. QED BY <2>2, <2>3, <2>4, <2>5, Order
<1>9. mtx_flush # None => lp'.lsn[1] = lp.lsn[1] BY <1>3, <1>7 DEF MayPut
<1>10. Quiet(t) BY <1>3, <1>4, <1>7, <1>8, <1>9 DEF Quiet, OthersStay
<1>. QED BY <1>7, <1>10 DEF Calm

LEMMA PutCalm ==
  ASSUME Base, NEW t \in Thread, NEW n \in Sizes, NEW flags \in {"none", "wrnosync", "flush"},
         Put(t, n, flags)
  PROVE  Calm(t)
<1>1. pc[t] = "idle" /\ region = None BY DEF Put
<1>2. CASE ~ NeedsNewFile(n) /\ PutRecord(t, FALSE, n, flags)
  <2>1. MayPut(FALSE, n) BY <1>2 DEF MayPut
  <2>. QED BY <1>1, <1>2, <2>1, PutRecordCalm
<1>3. CASE /\ EnterFlush(t, lp, [NoCall EXCEPT !.op = "switch", !.lsn = LastRecord(lp),
                                               !.release = FALSE, !.size = n, !.flags = flags])
           /\ UNCHANGED <<log, disk, mtx_flush, bounds, panicked>>
  <2>1. PICK c : c = [NoCall EXCEPT !.op = "switch", !.lsn = LastRecord(lp),
                                    !.release = FALSE, !.size = n, !.flags = flags]
    OBVIOUS
  <2>2. EnterFlush(t, lp, c) BY <1>3, <2>1, Zenon
  <2>3. lp \in LogFields /\ log \in SUBSET Record /\ LogOK(lp, log) BY DEF Base, Shape
  <2>4. c \in CallFields /\ c.op = "switch" /\ c.lsn = LastRecord(lp) /\ c.failed = FALSE
    <3>1. LastRecord(lp) \in LSN BY <2>3, LastIsLast
    <3>2. n \in 1..LogSize BY LogBufferAssumption
    <3>. QED BY <2>1, <3>1, <3>2, NoCallFields DEF CallFields
  <2>5. stable' = stable /\ faults' = faults /\ log' = log /\ mtx_flush' = mtx_flush
    BY <1>3 DEF disk, bounds
  <2>6. \E r \in log' : r.lsn = c.lsn BY <2>3, <2>4, <2>5 DEF LogOK, LastIs
  <2>7. Own(t) /\ OthersStay(t) /\ Tells /\ lp'.s_lsn = lp.s_lsn /\ lp'.lsn = lp.lsn
    BY <1>1, <2>2, <2>3, <2>4, <2>6, EnterIsOwn
  <2>. QED BY <2>5, <2>7, NoRecordsCalm
<1>. QED BY <1>2, <1>3 DEF Put

LEMMA LogFlushCalm ==
  ASSUME Base, NEW t \in Thread, NEW r \in log, LogFlush(t, r)
  PROVE  Calm(t)
<1>1. /\ pc[t] = "idle" /\ lp' = lp /\ log' = log /\ stable' = stable /\ faults' = faults
      /\ mtx_flush' = mtx_flush /\ marked' = marked
  BY DEF LogFlush, group, mutexes, disk, bounds
<1>2. t \notin marked
  <2>1. ThreadOK(t) BY DEF Base
  <2>. QED BY <1>1, <2>1 DEF ThreadOK
<1>3. CASE ALREADY_FLUSHED(lp, r.lsn) /\ Answer(t, r.lsn, TRUE)
  <2>1. Less(r.lsn, lp'.s_lsn) /\ \E q \in log' : q.lsn = r.lsn
    BY <1>1, <1>3 DEF ALREADY_FLUSHED
  <2>2. Own(t) /\ OthersStay(t) /\ Tells BY <1>1, <1>2, <1>3, <2>1, AnswerIsOwn
  <2>. QED BY <1>1, <2>2, NoRecordsCalm
<1>4. CASE /\ pc' = [pc EXCEPT ![t] = "enter"]
           /\ call' = [call EXCEPT ![t] = [NoCall EXCEPT !.op = "flush", !.lsn = r.lsn]]
           /\ UNCHANGED told
  <2>1. PICK c : c = [NoCall EXCEPT !.op = "flush", !.lsn = r.lsn] OBVIOUS
  <2>2. c.op = "flush" /\ c.failed = FALSE BY <2>1, NoCallFields DEF CallFields
  <2>3. call' = [call EXCEPT ![t] = c] BY <1>4, <2>1, Zenon
  <2>4. /\ pc'[t] = "enter" /\ call'[t] = c
        /\ \A s \in Thread \ {t} : pc'[s] = pc[s] /\ call'[s] = call[s]
    BY <1>4, <2>3 DEF Base, Shape
  <2>5. ~ Culprit(t)' BY <2>2, <2>4 DEF Culprit
  <2>6. ~ Flushes(t)' BY <1>1, <1>2, <2>4 DEF Flushes
  <2>7. CoverOK(t)' BY <2>4 DEF CoverOK
  <2>8. Own(t) BY <2>4, <2>5, <2>6, <2>7 DEF Own
  <2>9. OthersStay(t) /\ Tells BY <1>1, <1>4, <2>4 DEF OthersStay, Tells, told
  <2>. QED BY <1>1, <2>8, <2>9, NoRecordsCalm
<1>. QED BY <1>3, <1>4 DEF LogFlush

LEMMA LogFlushEnterCalm ==
  ASSUME Base, NEW t \in Thread, LogFlushEnter(t)
  PROVE  Calm(t)
<1>1. /\ pc[t] = "enter" /\ region = None /\ EnterFlush(t, lp, call[t])
      /\ log' = log /\ stable' = stable /\ faults' = faults /\ mtx_flush' = mtx_flush
  BY DEF LogFlushEnter, disk, bounds
<1>2. ThreadOK(t) /\ call[t] \in CallFields /\ lp \in LogFields BY DEF Base, Shape
<1>3. /\ ~ call[t].failed /\ \E r \in log' : r.lsn = call[t].lsn
      /\ call[t].op = "again" => Culprit(t)
  BY <1>1, <1>2 DEF ThreadOK, CallOK, Culprit
<1>4. Own(t) /\ OthersStay(t) /\ Tells /\ lp'.s_lsn = lp.s_lsn /\ lp'.lsn = lp.lsn
  BY <1>1, <1>2, <1>3, EnterIsOwn
<1>. QED BY <1>1, <1>4, NoRecordsCalm

LEMMA LogFlushAllCalm ==
  ASSUME Base, NEW t \in Thread, LogFlushAll(t)
  PROVE  Calm(t)
<1>1. /\ pc[t] = "idle" /\ region = None
      /\ log' = log /\ stable' = stable /\ faults' = faults /\ mtx_flush' = mtx_flush
      /\ EnterFlush(t, lp, [NoCall EXCEPT !.op = "flush", !.lsn = LastRecord(lp), !.flags = "all"])
  BY DEF LogFlushAll, disk, bounds
<1>2. PICK c : c = [NoCall EXCEPT !.op = "flush", !.lsn = LastRecord(lp), !.flags = "all"]
  OBVIOUS
<1>3. EnterFlush(t, lp, c) BY <1>1, <1>2, Zenon
<1>4. lp \in LogFields /\ log \in SUBSET Record /\ LogOK(lp, log) BY DEF Base, Shape
<1>5. c \in CallFields /\ c.op = "flush" /\ c.lsn = LastRecord(lp) /\ c.failed = FALSE
  <2>1. LastRecord(lp) \in LSN BY <1>4, LastIsLast
  <2>. QED BY <1>2, <2>1, NoCallFields DEF CallFields
<1>6. \E r \in log' : r.lsn = c.lsn BY <1>1, <1>4, <1>5 DEF LogOK, LastIs
<1>7. Own(t) /\ OthersStay(t) /\ Tells /\ lp'.s_lsn = lp.s_lsn /\ lp'.lsn = lp.lsn
  BY <1>1, <1>3, <1>4, <1>5, <1>6, EnterIsOwn
<1>. QED BY <1>1, <1>7, NoRecordsCalm

LEMMA WakeCalm ==
  ASSUME Base, NEW t \in Thread, Wake(t)
  PROVE  Calm(t)
<1>1. /\ pc[t] = "woken" /\ log' = log /\ stable' = stable /\ faults' = faults
      /\ mtx_flush' = mtx_flush
  BY DEF Wake, disk, bounds
<1>2. ThreadOK(t) /\ call[t] \in CallFields /\ lp \in LogFields BY DEF Base, Shape
<1>3. CASE t \in marked
  <2>1. /\ lp' = [lp EXCEPT !.in_flush = @ - 1]
        /\ marked' = marked \ {t}
        /\ pc' = [pc EXCEPT ![t] = "flush"]
        /\ call' = [call EXCEPT ![t].flush_lsn = lp.t_lsn]
        /\ promised' = promised
    BY <1>3 DEF Wake, told
  <2>2. PICK d : d = [call[t] EXCEPT !.flush_lsn = lp.t_lsn] OBVIOUS
  <2>3. d.op = call[t].op /\ d.release = call[t].release /\ d.failed = call[t].failed
    BY <1>2, <2>2 DEF CallFields
  <2>4. call' = [call EXCEPT ![t] = d] BY <2>1, <2>2 DEF Base, Shape
  <2>5. /\ pc'[t] = "flush" /\ call'[t] = d
        /\ \A s \in Thread \ {t} : pc'[s] = pc[s] /\ call'[s] = call[s]
    BY <2>1, <2>4 DEF Base, Shape
  <2>6. lp'.s_lsn = lp.s_lsn /\ lp'.lsn = lp.lsn BY <1>2, <2>1 DEF LogFields
  <2>7. Culprit(t)' => Culprit(t) BY <2>3, <2>5 DEF Culprit
  <2>8. Flushes(t)' => Flushes(t) BY <1>3, <2>3, <2>5 DEF Flushes
  <2>9. CoverOK(t)' BY <2>5 DEF CoverOK
  <2>10. Own(t) BY <2>5, <2>7, <2>8, <2>9 DEF Own
  <2>11. OthersStay(t) /\ Tells BY <2>1, <2>5 DEF OthersStay, Tells
  <2>. QED BY <1>1, <2>6, <2>10, <2>11, NoRecordsCalm
<1>4. CASE t \notin marked
  <2>1. Answer(t, call[t].lsn, TRUE) /\ lp' = lp /\ marked' = marked BY <1>4 DEF Wake
  <2>2. Less(call[t].lsn, lp'.s_lsn) /\ \E r \in log' : r.lsn = call[t].lsn
    BY <1>1, <1>2, <1>4, <2>1 DEF ThreadOK, CallOK
  <2>3. Own(t) /\ OthersStay(t) /\ Tells BY <1>4, <2>1, <2>2, AnswerIsOwn
  <2>. QED BY <1>1, <2>1, <2>3, NoRecordsCalm
<1>. QED BY <1>3, <1>4

LEMMA FlushIsDoneCalm ==
  ASSUME Base, NEW t \in Thread, FlushIsDone(t)
  PROVE  Calm(t)
<1>1. /\ pc[t] = "flush" /\ pc' = [pc EXCEPT ![t] = "finish"] /\ call' = call
      /\ lp' = lp /\ log' = log /\ stable' = stable /\ faults' = faults
      /\ mtx_flush' = mtx_flush /\ marked' = marked /\ promised' = promised
  BY DEF FlushIsDone, group, mutexes, disk, bounds, told
<1>2. ThreadOK(t) BY DEF Base
<1>3. pc'[t] = "finish" /\ \A s \in Thread \ {t} : pc'[s] = pc[s] BY <1>1 DEF Base, Shape
<1>4. Culprit(t)' => Culprit(t) BY <1>1 DEF Culprit
<1>5. Flushes(t)' => Flushes(t) BY <1>1 DEF Flushes
<1>6. ~ call'[t].failed BY <1>1, <1>2 DEF ThreadOK
<1>7. CoverOK(t)' BY <1>3 DEF CoverOK
<1>8. Own(t) BY <1>3, <1>4, <1>5, <1>6, <1>7 DEF Own
<1>9. OthersStay(t) /\ Tells BY <1>1, <1>3 DEF OthersStay, Tells
<1>. QED BY <1>1, <1>8, <1>9, NoRecordsCalm

(* The write of the buffer: all that the fsync is to cover is in the file.    *)
LEMMA WriteBufferCalm ==
  ASSUME Base, NEW t \in Thread, WriteBuffer(t)
  PROVE  Calm(t)
<1>1. PICK l : l = WriteLeaves(t) OBVIOUS
<1>2. /\ l \in LogFields /\ LogOK(l, log) /\ l.lsn = lp.lsn /\ l.s_lsn = lp.s_lsn
      /\ WrittenOK(written', l, log) /\ Safe(l) \in LSN
      /\ Safe(l) = IF l.b_off = 0 THEN <<l.f_lsn[1], l.w_off>> ELSE l.f_lsn
  BY <1>1, BufferWritten
<1>3. PICK cov : cov = written'[l.lsn[1]] OBVIOUS
<1>4. PICK sy : sy = Safe(l) OBVIOUS
<1>5. PICK d : d = [call[t] EXCEPT !.flushing = TRUE, !.covered = cov, !.synced = sy] OBVIOUS
<1>6. /\ pc[t] = "flush" /\ mtx_flush = None /\ lp' = [l EXCEPT !.in_flush = @ + 1]
      /\ pc' = [pc EXCEPT ![t] = "sync"]
      /\ log' = log /\ marked' = marked /\ faults' = faults /\ stable' = stable
      /\ promised' = promised
  BY <1>1 DEF WriteBuffer, WriteLeaves, group, bounds, told
<1>7. call' = [call EXCEPT ![t].flushing = TRUE, ![t].covered = cov, ![t].synced = sy]
  BY <1>1, <1>2, <1>3, <1>4, Zenon DEF WriteBuffer, WriteLeaves
<1>8. call' = [call EXCEPT ![t] = d] BY <1>5, <1>7 DEF Base, Shape
<1>9. ThreadOK(t) /\ call[t] \in CallFields /\ log \in SUBSET Record BY DEF Base, Shape
<1>10. /\ d.covered = cov /\ d.synced = sy /\ d.op = call[t].op
       /\ d.release = call[t].release /\ d.failed = call[t].failed
  BY <1>5, <1>9 DEF CallFields
<1>11. /\ pc'[t] = "sync" /\ call'[t] = d
       /\ \A s \in Thread \ {t} : pc'[s] = pc[s] /\ call'[s] = call[s]
  BY <1>6, <1>8 DEF Base, Shape
<1>12. lp'.lsn = lp.lsn /\ lp'.s_lsn = lp.s_lsn BY <1>2, <1>6 DEF LogFields
<1>13. CoverOK(t)'
  <2>1. SUFFICES ASSUME NEW r \in log, NEW k \in Offset, r.lsn[1] = lp.lsn[1],
                        Less(r.lsn, sy), k < r.size
                 PROVE  cov[r.lsn[2] + k] = <<r, k>>
    BY <1>6, <1>10, <1>11, <1>12 DEF CoverOK
  <2>2. written'[r.lsn[1]][r.lsn[2] + k] = <<r, k>>
    BY <1>2, <1>4, <1>9, <2>1, SafeIsWritten
  <2>. QED BY <1>2, <1>3, <2>1, <2>2
<1>14. Culprit(t)' => Culprit(t) BY <1>10, <1>11 DEF Culprit
<1>15. Flushes(t)' => Flushes(t) BY <1>6, <1>10, <1>11 DEF Flushes
<1>16. Own(t) BY <1>11, <1>13, <1>14, <1>15 DEF Own
<1>17. OthersStay(t) /\ Tells BY <1>6, <1>11 DEF OthersStay, Tells
<1>18. region = t BY <1>6, <1>9 DEF ThreadOK
<1>. QED BY <1>6, <1>12, <1>16, <1>17, <1>18, NoRecordsCalm

LEMMA ReturnAnswersCalm ==
  ASSUME Base, NEW t \in Thread, pc[t] = "return", NEW ok,
         Answer(t, call[t].lsn, ok), ok => Less(call[t].lsn, lp.s_lsn),
         UNCHANGED <<lp, log, disk, group, mtx_flush, bounds, panicked>>
  PROVE  Calm(t)
<1>1. /\ lp' = lp /\ log' = log /\ mtx_flush' = mtx_flush
      /\ stable' = stable /\ faults' = faults /\ marked' = marked
  BY DEF disk, group, bounds
<1>2. t \notin marked /\ CallOK(call[t], lp, log) BY Returns
<1>3. \E r \in log' : r.lsn = call[t].lsn BY <1>1, <1>2 DEF CallOK
<1>4. Own(t) /\ OthersStay(t) /\ Tells BY <1>1, <1>2, <1>3, AnswerIsOwn
<1>. QED BY <1>1, <1>4, NoRecordsCalm

LEMMA ReturnCalm ==
  ASSUME Base, NEW t \in Thread, Return(t)
  PROVE  Calm(t)
<1>1. /\ pc[t] = "return"
      /\ Answer(t, call[t].lsn, ~ call[t].failed /\ call[t].op /= "again")
      /\ UNCHANGED <<lp, log, disk, group, mtx_flush, bounds, panicked>>
  BY DEF Return
<1>2. ~ call[t].failed => Less(call[t].lsn, lp.s_lsn) BY <1>1, Returns
<1>. QED BY <1>1, <1>2, ReturnAnswersCalm

LEMMA ReturnToPutCalm ==
  ASSUME Base, NEW t \in Thread, ReturnToPut(t)
  PROVE  Calm(t)
<1>1. pc[t] = "return" /\ call[t].op = "switch" BY DEF ReturnToPut
<1>2. CASE ~ call[t].failed /\ PutRecord(t, TRUE, call[t].size, call[t].flags)
  <2>1. MayPut(TRUE, call[t].size) BY <1>1, <1>2, SwitchMayPut
  <2>. QED BY <1>1, <1>2, <2>1, Returns, PutRecordCalm
<1>3. CASE /\ UNCHANGED <<lp, log, disk, group, mtx_flush, bounds, panicked>>
           /\ Answer(t, call[t].lsn, FALSE)
  BY <1>1, <1>3, ReturnAnswersCalm
<1>. QED BY <1>2, <1>3 DEF ReturnToPut

(* A commit that stands though its flush failed.  What was overtaken in its   *)
(* own file is synced; in an earlier file it may not be, but with faults in   *)
(* the first file only the test of the file number says the same.             *)
LEMMA CommitStandsCalm ==
  ASSUME Base, NEW t \in Thread, CommitStands(t)
  PROVE  Quiet(t) /\ Own(t) /\ (FaultyFiles = 1 => Tells)
<1>1. /\ pc[t] = "return" /\ call[t].failed /\ Overtaken(call[t].lsn)
      /\ Answer(t, call[t].lsn, TRUE)
      /\ lp' = lp /\ log' = log /\ mtx_flush' = mtx_flush
      /\ stable' = stable /\ faults' = faults /\ marked' = marked
  BY DEF CommitStands, disk, group, bounds
<1>2. /\ t \notin marked /\ CallOK(call[t], lp, log) /\ ThreadOK(t)
      /\ call[t] \in CallFields
  BY <1>1, Returns
<1>3. /\ pc' = [pc EXCEPT ![t] = "idle"] /\ call' = [call EXCEPT ![t] = NoCall]
  BY <1>1 DEF Answer
<1>4. /\ pc'[t] = "idle" /\ call'[t] = NoCall
      /\ \A s \in Thread \ {t} : pc'[s] = pc[s] /\ call'[s] = call[s]
  BY <1>3 DEF Base, Shape
<1>5. ~ Culprit(t)' /\ ~ Flushes(t)' BY <1>1, <1>2, <1>4, NoCallFields DEF Culprit, Flushes
<1>6. CoverOK(t)' BY <1>4 DEF CoverOK
<1>7. Own(t) BY <1>4, <1>5, <1>6 DEF Own
<1>8. Quiet(t) BY <1>1, <1>4 DEF Quiet
<1>9. FaultyFiles = 1 => Tells
  <2>1. SUFFICES ASSUME FaultyFiles = 1 PROVE Tells OBVIOUS
  <2>2. call[t].lsn[1] <= 1 BY <1>1, <1>2, <2>1 DEF ThreadOK
  <2>3. /\ call[t].lsn[1] \in Nat /\ call[t].lsn[2] \in Nat /\ call[t].lsn[1] >= 1
        /\ lp.s_lsn[1] \in Nat /\ lp.s_lsn[2] \in Nat /\ lp.s_lsn[1] >= 1
    <3>1. call[t].lsn \in LSN /\ lp.s_lsn \in LSN BY <1>2, CallTypes DEF Base, Shape, LogFields
    <3>. QED BY <3>1, LsnPair
  <2>4. Less(call[t].lsn, lp'.s_lsn) BY <1>1, <2>2, <2>3 DEF Overtaken, Less
  <2>5. \E r \in log' : r.lsn = call[t].lsn BY <1>1, <1>2 DEF CallOK
  <2>. QED BY <1>1, <2>4, <2>5 DEF Answer, Tells
<1>. QED BY <1>7, <1>8, <1>9

LEMMA AgainIsOwn ==
  ASSUME Base, NEW t \in Thread, pc[t] = "return", call[t].failed, FlushAgain(t),
         \E q \in log' : q.lsn = call[t].lsn
  PROVE  Own(t) /\ OthersStay(t) /\ Tells /\ lp'.s_lsn = lp.s_lsn /\ lp'.lsn = lp.lsn
<1>1. /\ call[t] \in CallFields /\ region = t /\ lp \in LogFields BY Returns DEF Base, Shape
<1>2. PICK c : c = [NoCall EXCEPT !.op = "again", !.lsn = call[t].lsn, !.release = FALSE] OBVIOUS
<1>3. EnterFlush(t, lp, c) BY <1>2, Zenon DEF FlushAgain
<1>4. c \in CallFields /\ c.op = "again" /\ c.lsn = call[t].lsn /\ c.failed = FALSE
  <2>1. call[t].lsn \in LSN BY <1>1, CallTypes
  <2>. QED BY <1>2, <2>1, NoCallFields DEF CallFields
<1>5. Culprit(t) BY DEF Culprit
<1>. QED BY <1>1, <1>3, <1>4, <1>5, EnterIsOwn

(* No fsync runs while a commit becomes an abort.                             *)
LEMMA ForceAbortCalm ==
  ASSUME Base, Certain, NEW t \in Thread, ForceAbort(t)
  PROVE  Calm(t)
<1>1. /\ pc[t] = "return" /\ call[t].op = "commit" /\ call[t].failed /\ FlushAgain(t)
      /\ mtx_flush' = mtx_flush /\ stable' = stable /\ faults' = faults
  BY DEF ForceAbort, bounds
<1>2. /\ \E q \in log' : q.lsn = call[t].lsn
      /\ \A q \in log' : q \in log \/ q.lsn = call[t].lsn
      /\ ~ Less(call[t].lsn, lp.s_lsn)
  BY AbortFollows
<1>3. Own(t) /\ OthersStay(t) /\ Tells /\ lp'.s_lsn = lp.s_lsn /\ lp'.lsn = lp.lsn
  BY <1>1, <1>2, AgainIsOwn
<1>4. mtx_flush = None
  <2>1. Uncertain(t) BY <1>1, <1>2 DEF Uncertain
  <2>. QED BY <1>1, <2>1 DEF Certain
<1>5. Quiet(t) BY <1>1, <1>2, <1>3, <1>4 DEF Quiet, OthersStay
<1>. QED BY <1>3, <1>5 DEF Calm

LEMMA ForceAbortMissesCalm ==
  ASSUME Base, Certain, NEW t \in Thread, ForceAbortMisses(t)
  PROVE  Calm(t) \/ UNCHANGED <<lp, log, disk, group, mutexes, pc, call, told, bounds>>
<1>1. /\ pc[t] = "return" /\ call[t].op = "commit" /\ call[t].failed
      /\ mtx_flush' = mtx_flush /\ log' = log /\ stable' = stable /\ faults' = faults
      /\ UNCHANGED <<log, disk, bounds>>
  BY DEF ForceAbortMisses, disk, bounds
<1>2. CASE UNCHANGED <<lp, group, region, pc, call, told>>
  BY <1>1, <1>2 DEF mutexes
<1>3. CASE FlushAgain(t)
  <2>1. \E q \in log' : q.lsn = call[t].lsn BY <1>1, Returns DEF CallOK
  <2>2. Own(t) /\ OthersStay(t) /\ Tells /\ lp'.s_lsn = lp.s_lsn /\ lp'.lsn = lp.lsn
    BY <1>1, <1>3, <2>1, AgainIsOwn
  <2>. QED BY <1>1, <2>2, NoRecordsCalm
<1>. QED BY <1>2, <1>3 DEF ForceAbortMisses

-----------------------------------------------------------------------------
(* The actions that fail or end a flush.                                      *)
LEMMA FailCertain ==
  ASSUME Base, Base', Certain, NEW t \in Thread, pc[t] \in {"flush", "sync"},
         NEW fault, MayFail(fault), fault = "sync" \/ ~ call[t].flushing,
         mtx_flush' = None,
         faults' = faults + 1, call' = [call EXCEPT ![t].failed = TRUE],
         pc' = [pc EXCEPT ![t] = "finish"],
         UNCHANGED <<lp, log, stable, marked>>
  PROVE  Certain'
<1>1. faults \in Nat /\ faults < MaxFaults /\ fault \in Faults
  BY LogBufferAssumption DEF MayFail, Base, Shape
<1>2. ThreadOK(t) /\ call[t] \in CallFields BY DEF Base, Shape
<1>3. PICK d : d = [call[t] EXCEPT !.failed = TRUE] OBVIOUS
<1>4. /\ d.failed = TRUE /\ d.lsn = call[t].lsn /\ d.op = call[t].op
      /\ d.release = call[t].release /\ d.flushing = call[t].flushing
  BY <1>2, <1>3 DEF CallFields
<1>5. call' = [call EXCEPT ![t] = d] BY <1>3 DEF Base, Shape
<1>6. /\ pc'[t] = "finish" /\ call'[t] = d
      /\ \A s \in Thread \ {t} : pc'[s] = pc[s] /\ call'[s] = call[s]
  BY <1>5 DEF Base, Shape
<1>7. \A s \in Thread : Flushes(s)' <=> Flushes(s) BY <1>4, <1>6 DEF Flushes
<1>8. SyncPointIsSynced' BY DEF Certain, SyncPointIsSynced
<1>9. \A s \in Thread : CoverOK(s)'
  <2>1. \A s \in Thread : ThreadOK(s)' /\ None # s BY LogBufferAssumption DEF Base
  <2>2. \A s \in Thread : pc'[s] # "sync" BY <2>1 DEF ThreadOK
  <2>. QED BY <2>2 DEF CoverOK
<1>10. "sync" \notin Faults =>
         \A s \in Thread : pc'[s] \in {"finish", "return"} /\ call'[s].failed => ~ call'[s].flushing
  BY <1>1, <1>4, <1>6 DEF Certain
<1>11. MaxFaults <= 1 => Alone'
  <2>1. SUFFICES ASSUME MaxFaults <= 1 PROVE Alone' OBVIOUS
  <2>2. Alone BY <2>1 DEF Certain
  <2>3. faults = 0 /\ faults' # 0 BY <1>1, <2>1, LogBufferAssumption
  <2>4. \A s \in Thread \ {t} : ~ Culprit(s)' BY <1>6, <2>2, <2>3 DEF Alone, Culprit
  <2>5. \A u \in Thread : pc'[u] = "finish" /\ Uncertain(u)'
          => \A s \in Thread \ {u} : ~ Flushes(s)'
    <3>1. SUFFICES ASSUME NEW u \in Thread, pc'[u] = "finish", Uncertain(u)'
                   PROVE  \A s \in Thread \ {u} : ~ Flushes(s)
      BY <1>7
    <3>2. u = t BY <2>4, <3>1 DEF Uncertain, Culprit
    <3>3. call[t].op = "commit" BY <1>4, <1>6, <3>1, <3>2 DEF Uncertain
    <3>4. call[t].release BY <1>2, <3>3 DEF ThreadOK, CallOK
    <3>5. Flushes(t) BY <3>4 DEF Flushes
    <3>. QED BY <2>2, <2>3, <3>2, <3>5 DEF Alone
  <2>. QED BY <2>3, <2>4, <2>5 DEF Alone
<1>. QED BY <1>8, <1>9, <1>10, <1>11 DEF Certain

LEMMA WriteFailsCertain ==
  ASSUME Base, Base', Certain, NEW t \in Thread, WriteFails(t)
  PROVE  Certain' /\ Tells
<1>1. /\ pc[t] = "flush" /\ mtx_flush' = None /\ MayFail("write")
      /\ faults' = faults + 1 /\ call' = [call EXCEPT ![t].failed = TRUE]
      /\ pc' = [pc EXCEPT ![t] = "finish"]
      /\ UNCHANGED <<lp, log, stable, marked>> /\ promised' = promised
  BY DEF WriteFails, mutexes, disk, group, told
<1>2. ~ call[t].flushing
  <2>1. ThreadOK(t) BY DEF Base
  <2>. QED BY <1>1, <2>1 DEF ThreadOK
<1>. QED BY <1>1, <1>2, FailCertain DEF Tells

LEMMA SyncFailsCertain ==
  ASSUME Base, Base', Certain, NEW t \in Thread, SyncFails(t)
  PROVE  Certain' /\ Tells
<1>1. /\ pc[t] = "sync" /\ mtx_flush' = None /\ MayFail("sync")
      /\ faults' = faults + 1 /\ call' = [call EXCEPT ![t].failed = TRUE]
      /\ pc' = [pc EXCEPT ![t] = "finish"]
      /\ UNCHANGED <<lp, log, stable, marked>> /\ promised' = promised
  BY DEF SyncFails, disk, group, told
<1>. QED BY <1>1, FailCertain DEF Tells

(* All before the sync point is whole when the fsync returns: in the current  *)
(* file because the fsync covered it, in the others since they were left.     *)
LEMMA SyncCertain ==
  ASSUME Base, Base', Certain, NEW t \in Thread, Sync(t)
  PROVE  Certain' /\ Tells
<1>1. /\ pc[t] = "sync" /\ mtx_flush = t /\ ThreadOK(t) /\ SyncOK(t)
      /\ lp'.s_lsn = call[t].synced /\ lp'.lsn = lp.lsn
      /\ ~ Less(lp'.s_lsn, lp.s_lsn)
      /\ stable' = [stable EXCEPT ![lp.lsn[1]] = call[t].covered]
      /\ log' = log /\ lp.lsn[1] \in 1..Files
  BY SyncFollows DEF Grows
<1>2. /\ mtx_flush' = None /\ pc' = [pc EXCEPT ![t] = "finish"]
      /\ call' = call /\ marked' = marked /\ faults' = faults /\ promised' = promised
  BY DEF Sync, group, bounds, told
<1>3. pc'[t] = "finish" /\ \A s \in Thread \ {t} : pc'[s] = pc[s] BY <1>2 DEF Base, Shape
<1>4. /\ lp \in LogFields /\ log \in SUBSET Record /\ LogOK(lp, log)
      /\ lp.s_lsn \in Pair /\ lp'.s_lsn \in Pair
      /\ stable \in [1..Files -> [Offset -> Unit]]
  BY LogFieldTypes DEF Base, Shape, ImageOK
<1>5. ~ call[t].failed BY <1>1 DEF SyncOK
<1>6. SyncPointIsSynced'
  <2>1. SUFFICES ASSUME NEW r \in log, Less(r.lsn, call[t].synced) PROVE Whole(stable', r)
    BY <1>1 DEF SyncPointIsSynced
  <2>2. /\ r.lsn[1] \in Nat /\ r.lsn[1] \in 1..Files /\ r.size \in Nat /\ r.size <= LogSize
    <3>1. r.lsn \in LSN BY <1>4, RecordFields
    <3>. QED BY <1>4, <3>1, LsnPair, RecordFields
  <2>3. CASE r.lsn[1] = lp.lsn[1]
    <3>1. stable'[r.lsn[1]] = call[t].covered BY <1>1, <1>4, <2>3
    <3>2. \A k \in 0..(r.size - 1) : k \in Offset /\ k < r.size
      BY <2>2, LogBufferAssumption DEF Offset
    <3>3. \A k \in Offset : k < r.size => call[t].covered[r.lsn[2] + k] = <<r, k>>
      BY <1>1, <2>1, <2>3 DEF Certain, CoverOK
    <3>. QED BY <3>1, <3>2, <3>3 DEF Whole
  <2>4. CASE r.lsn[1] # lp.lsn[1]
    <3>1. r.lsn[1] < lp.lsn[1] BY <1>4, <2>4 DEF LogOK, Placed
    <3>2. Less(r.lsn, lp.s_lsn) BY <1>4, <3>1 DEF LogOK, Buffered
    <3>3. Whole(stable, r) BY <3>2 DEF Certain, SyncPointIsSynced
    <3>4. stable'[r.lsn[1]] = stable[r.lsn[1]] BY <1>1, <1>4, <2>2, <2>4
    <3>. QED BY <3>3, <3>4 DEF Whole
  <2>. QED BY <2>3, <2>4
<1>7. \A s \in Thread : CoverOK(s)'
  <2>1. \A s \in Thread : ThreadOK(s)' /\ None # s BY LogBufferAssumption DEF Base
  <2>2. \A s \in Thread : pc'[s] # "sync" BY <1>2, <2>1 DEF ThreadOK
  <2>. QED BY <2>2 DEF CoverOK
<1>8. "sync" \notin Faults =>
        \A s \in Thread : pc'[s] \in {"finish", "return"} /\ call'[s].failed => ~ call'[s].flushing
  BY <1>2, <1>3, <1>5 DEF Certain
<1>9. \A s \in Thread : Flushes(s)' <=> Flushes(s) BY <1>1, <1>2, <1>3 DEF Flushes
<1>10. \A s \in Thread : (Culprit(s)' <=> Culprit(s)) /\ (Uncertain(s)' => Uncertain(s))
  <2>1. \A s \in Thread : call[s].lsn \in Pair
    <3>1. \A s \in Thread : call[s] \in CallFields BY DEF Base, Shape
    <3>. QED BY <3>1, CallTypes
  <2>2. \A s \in Thread : Less(call[s].lsn, lp.s_lsn) => Less(call[s].lsn, lp'.s_lsn)
    BY <1>1, <1>4, <2>1, Order
  <2>. QED BY <1>2, <2>2 DEF Culprit, Uncertain
<1>11. MaxFaults <= 1 => Alone'
  <2>1. SUFFICES ASSUME MaxFaults <= 1 PROVE Alone' OBVIOUS
  <2>2. Alone BY <2>1 DEF Certain
  <2>3. ~ Uncertain(t)' BY <1>2, <1>5 DEF Uncertain
  <2>4. \A u \in Thread : pc'[u] = "finish" /\ Uncertain(u)' => pc[u] = "finish" /\ Uncertain(u)
    BY <1>3, <1>10, <2>3
  <2>. QED BY <1>2, <1>9, <1>10, <2>2, <2>4 DEF Alone
<1>12. \A s \in Thread : pc'[s] = "return" /\ Uncertain(s)' => mtx_flush' = None BY <1>2
<1>. QED BY <1>2, <1>6, <1>7, <1>8, <1>11, <1>12 DEF Certain, Tells

(* A file switch that succeeds serves all who wait.                           *)
LEMMA SwitchServesAll ==
  ASSUME Base, NEW t \in Thread, Finish(t), Chosen # {}
  PROVE  call[t].release \/ Culprit(t)
<1>1. /\ pc[t] = "finish" /\ Chosen \cap Served = {} /\ Woken \subseteq Members(commits)
  BY FinishMoves
<1>2. SUFFICES ASSUME ~ call[t].release, ~ Culprit(t) PROVE FALSE OBVIOUS
<1>3. ThreadOK(t) /\ call[t] \in CallFields BY DEF Base, Shape
<1>4. call[t].op = "switch" /\ call[t].lsn = LastRecord(lp) /\ Less(LastRecord(lp), lp.s_lsn)
  <2>1. CallOK(call[t], lp, log) /\ ~ call[t].failed BY <1>1, <1>2, <1>3 DEF ThreadOK, Culprit
  <2>2. call[t].op \in {"none", "switch", "commit", "flush", "again"} BY <1>3 DEF CallFields
  <2>3. call[t].op = "switch" BY <1>2, <2>1, <2>2 DEF CallOK, Culprit
  <2>. QED BY <1>1, <1>3, <2>1, <2>3 DEF CallOK, ThreadOK
<1>5. PICK s \in Members(commits) : s \notin Served BY <1>1 DEF Woken
<1>6. s \in Thread BY DEF Base, Shape, Members
<1>7. ThreadOK(s) BY <1>6 DEF Base
<1>8. PICK r \in log : r.lsn = call[s].lsn BY <1>5, <1>7 DEF ThreadOK, CallOK
<1>9. /\ lp \in LogFields /\ log \in SUBSET Record /\ LogOK(lp, log) /\ lp.s_lsn \in Pair
  BY LogFieldTypes DEF Base, Shape
<1>10. /\ ~ Less(LastRecord(lp), r.lsn) /\ LastRecord(lp) \in Pair /\ r.lsn \in Pair
  BY <1>9, LastIsLast, LsnPair, RecordFields
<1>11. Less(r.lsn, lp.s_lsn) BY <1>4, <1>9, <1>10, Order
<1>. QED BY <1>5, <1>8, <1>11 DEF Served

(* The label done: who turns its commit into an abort does so alone.          *)
LEMMA FinishCertain ==
  ASSUME OneSyncFault, Base, Base', Certain, NEW t \in Thread, Finish(t)
  PROVE  Certain' /\ Tells
<1>1. /\ pc[t] = "finish" /\ region \in {None, t} /\ region' = t
      /\ Woken \subseteq Members(commits) /\ t \notin Woken
      /\ marked' = marked \cup Chosen
      /\ pc' = [s \in Thread |-> IF s = t THEN "return"
                                 ELSE IF s \in Woken THEN "woken" ELSE pc[s]]
      /\ mtx_flush' = mtx_flush /\ call' = call /\ log' = log
      /\ faults' = faults /\ UNCHANGED <<told, stable>>
      /\ lp'.lsn = lp.lsn /\ lp'.s_lsn = lp.s_lsn
  BY FinishMoves
<1>2. /\ pc'[t] = "return" /\ \A s \in Thread \ {t} : pc'[s] = "woken" \/ pc'[s] = pc[s]
      /\ Chosen \subseteq Woken
  BY <1>1 DEF Woken
<1>3. \A s \in Thread : ThreadOK(s) /\ ThreadOK(s)' /\ s # None
  BY LogBufferAssumption DEF Base
<1>4. SyncPointIsSynced' BY <1>1 DEF Certain, SyncPointIsSynced
<1>5. \A s \in Thread : CoverOK(s)'
  <2>1. TAKE s \in Thread
  <2>2. SUFFICES ASSUME pc'[s] = "sync" PROVE CoverOK(s)' BY DEF CoverOK
  <2>3. pc[s] = "sync" BY <1>2, <2>2
  <2>. QED BY <1>1, <2>3 DEF Certain, CoverOK
<1>6. "sync" \notin Faults =>
        \A s \in Thread : pc'[s] \in {"finish", "return"} /\ call'[s].failed => ~ call'[s].flushing
  BY <1>1, <1>2 DEF Certain
<1>7. \A s \in Thread : (Culprit(s)' <=> Culprit(s)) /\ (Uncertain(s)' <=> Uncertain(s))
  BY <1>1 DEF Culprit, Uncertain
<1>8. ~ Flushes(t)'
  <2>1. t \notin marked BY <1>1, <1>3 DEF ThreadOK
  <2>. QED BY <1>1, <1>2, <2>1 DEF Flushes
<1>9. \A s \in Thread \ {t} : Flushes(s)' => Flushes(s) \/ s \in Chosen
  <2>1. TAKE s \in Thread \ {t}
  <2>2. HAVE Flushes(s)'
  <2>3. s \in marked' => s \in marked \/ s \in Chosen BY <1>1
  <2>. QED BY <1>1, <1>2, <2>2, <2>3 DEF Flushes
<1>10. Chosen # {} => Flushes(t) \/ Culprit(t) BY <1>1, SwitchServesAll DEF Flushes
<1>11. \A s, u \in Chosen : s = u BY DEF Chosen
<1>12. MaxFaults <= 1 => Alone'
  <2>1. SUFFICES ASSUME MaxFaults <= 1 PROVE Alone' OBVIOUS
  <2>2. Alone BY <2>1 DEF Certain
  <2>3. faults' = 0 => \A s, u \in Thread : Flushes(s)' /\ Flushes(u)' => s = u
    <3>1. SUFFICES ASSUME faults = 0, NEW s \in Thread, NEW u \in Thread, Flushes(s)', Flushes(u)'
                   PROVE  s = u
      BY <1>1
    <3>2. s # t /\ u # t BY <1>8, <3>1
    <3>3. CASE Chosen = {} BY <1>9, <2>2, <3>1, <3>2, <3>3 DEF Alone
    <3>4. CASE Chosen # {}
      <4>1. Flushes(t) BY <1>10, <2>2, <3>1, <3>4 DEF Alone
      <4>2. ~ Flushes(s) /\ ~ Flushes(u) BY <2>2, <3>1, <3>2, <4>1 DEF Alone
      <4>. QED BY <1>9, <1>11, <3>1, <3>2, <4>2
    <3>. QED BY <3>3, <3>4
  <2>4. faults' = 0 => \A u \in Thread : ~ Culprit(u)' BY <1>1, <1>7, <2>2 DEF Alone
  <2>5. \A s, u \in Thread : Culprit(s)' /\ Culprit(u)' => s = u BY <1>7, <2>2 DEF Alone
  <2>6. \A u \in Thread : pc'[u] = "finish" /\ Uncertain(u)'
          => \A s \in Thread \ {u} : ~ Flushes(s)'
    <3>1. SUFFICES ASSUME NEW u \in Thread, pc'[u] = "finish", Uncertain(u)',
                          NEW s \in Thread \ {u}, Flushes(s)'
                   PROVE  FALSE
      OBVIOUS
    <3>2. u # t /\ pc[u] = "finish" /\ Uncertain(u) BY <1>2, <1>7, <3>1
    <3>3. s # t /\ ~ Flushes(s) /\ ~ Flushes(t) BY <1>8, <2>2, <3>1, <3>2 DEF Alone
    <3>4. s \in Chosen BY <1>9, <3>1, <3>3
    <3>5. Culprit(t) BY <1>10, <3>3, <3>4
    <3>6. Culprit(u) BY <3>2 DEF Uncertain, Culprit
    <3>. QED BY <2>2, <3>2, <3>5, <3>6 DEF Alone
  <2>. QED BY <2>3, <2>4, <2>5, <2>6 DEF Alone
<1>13. \A s \in Thread : pc'[s] = "return" /\ Uncertain(s)' => mtx_flush' = None
  <2>1. SUFFICES ASSUME NEW s \in Thread, pc'[s] = "return", Uncertain(s)' PROVE mtx_flush = None
    BY <1>1
  <2>2. Uncertain(s) BY <1>7, <2>1
  <2>3. CASE s # t
    <3>1. pc[s] = "return" BY <1>2, <2>1, <2>3
    <3>. QED BY <2>2, <3>1 DEF Certain
  <2>4. CASE s = t
    <3>1. CASE ~ call[t].flushing BY <1>1, <1>3, <3>1 DEF ThreadOK
    <3>2. CASE call[t].flushing
      <4>1. call[t].failed BY <2>2, <2>4 DEF Uncertain
      <4>2. "sync" \in Faults BY <1>1, <3>2, <4>1 DEF Certain
      <4>3. Alone BY <4>2 DEF OneSyncFault, Certain
      <4>4. SUFFICES ASSUME mtx_flush # None PROVE FALSE OBVIOUS
      <4>5. PICK u \in Thread : mtx_flush = u BY <4>4 DEF Base, Shape
      <4>6. pc[u] = "sync" /\ u # t BY <1>1, <1>3, <4>5 DEF ThreadOK
      <4>7. region # u BY <1>1, <1>3, <4>6
      <4>8. call[u].release BY <1>3, <4>6, <4>7 DEF ThreadOK
      <4>9. Flushes(u) BY <4>6, <4>8 DEF Flushes
      <4>. QED BY <1>1, <2>2, <2>4, <4>3, <4>6, <4>9 DEF Alone
    <3>. QED BY <3>1, <3>2
  <2>. QED BY <2>3, <2>4
<1>. QED BY <1>1, <1>4, <1>5, <1>6, <1>12, <1>13 DEF Certain, Tells, told

-----------------------------------------------------------------------------
(* A crash loses only what nobody was told of.                                *)
LEMMA CrashCertain ==
  ASSUME Base, Crash
  PROVE  Certain'
<1>1. /\ pc' = [t \in Thread |-> "idle"] /\ call' = [t \in Thread |-> NoCall]
      /\ marked' = {}
  BY DEF Crash
<1>2. \A t \in Thread : pc'[t] = "idle" /\ call'[t] = NoCall /\ t \notin marked' BY <1>1
<1>3. SyncPointIsSynced' BY CrashLeaves DEF SyncPointIsSynced
<1>4. \A t \in Thread : /\ CoverOK(t)' /\ ~ Flushes(t)' /\ ~ Culprit(t)' /\ ~ Uncertain(t)'
  BY <1>2, NoCallFields DEF CoverOK, Flushes, Culprit, Uncertain
<1>5. Alone' BY <1>4 DEF Alone
<1>. QED BY <1>2, <1>3, <1>4, <1>5 DEF Certain

LEMMA StillCertain ==
  ASSUME Certain, UNCHANGED <<lp, log, disk, group, mutexes, pc, call, told, bounds>>
  PROVE  Certain' /\ Tells
<1>1. /\ lp' = lp /\ log' = log /\ stable' = stable /\ marked' = marked /\ mtx_flush' = mtx_flush
      /\ pc' = pc /\ call' = call /\ faults' = faults /\ promised' = promised
  BY DEF disk, group, mutexes, told, bounds
<1>2. \A t \in Thread : /\ (Flushes(t)' <=> Flushes(t)) /\ (Culprit(t)' <=> Culprit(t))
                        /\ (Uncertain(t)' <=> Uncertain(t)) /\ (CoverOK(t) => CoverOK(t)')
  BY <1>1 DEF Flushes, Culprit, Uncertain, CoverOK
<1>3. SyncPointIsSynced' BY <1>1 DEF Certain, SyncPointIsSynced
<1>4. Alone => Alone' BY <1>1, <1>2 DEF Alone
<1>. QED BY <1>1, <1>2, <1>3, <1>4 DEF Certain, Tells

LEMMA CertainKeeps ==
  ASSUME OneSyncFault, Base, Certain, [Next]_vars
  PROVE  /\ Base' /\ Certain'
         /\ Crash \/ (Grows(lp') /\ (FaultyFiles = 1 => Tells))
<1>1. Base' /\ (Crash \/ Grows(lp')) BY BaseKeeps
<1>2. SUFFICES Certain' /\ (Crash \/ (FaultyFiles = 1 => Tells)) BY <1>1
<1>3. ASSUME NEW t \in Thread, Calm(t) PROVE Certain' /\ Tells
  BY <1>1, <1>3, QuietKeeps DEF Calm
<1>4. CASE UNCHANGED vars BY <1>4, StillCertain DEF vars
<1>5. CASE Crash BY <1>5, CrashCertain
<1>6. ASSUME NEW t \in Thread, NEW n \in Sizes,
             NEW flags \in {"none", "wrnosync", "flush"}, Put(t, n, flags)
      PROVE  Certain' /\ Tells
  BY <1>3, <1>6, PutCalm
<1>7. ASSUME NEW t \in Thread, NEW r \in log, LogFlush(t, r)
      PROVE  Certain' /\ Tells
  BY <1>3, <1>7, LogFlushCalm
<1>8. ASSUME NEW t \in Thread, LogFlushAll(t) PROVE Certain' /\ Tells
  BY <1>3, <1>8, LogFlushAllCalm
<1>9. ASSUME NEW t \in Thread, Resume(t) PROVE Certain' /\ (FaultyFiles = 1 => Tells)
  <2>1. CASE LogFlushEnter(t) BY <1>3, <2>1, LogFlushEnterCalm
  <2>2. CASE Wake(t) BY <1>3, <2>2, WakeCalm
  <2>3. CASE FlushIsDone(t) BY <1>3, <2>3, FlushIsDoneCalm
  <2>4. CASE WriteBuffer(t) BY <1>3, <2>4, WriteBufferCalm
  <2>5. CASE Sync(t) BY <1>1, <2>5, SyncCertain
  <2>6. CASE Finish(t) BY <1>1, <2>6, FinishCertain
  <2>7. CASE ReturnToPut(t) BY <1>3, <2>7, ReturnToPutCalm
  <2>8. CASE Return(t) BY <1>3, <2>8, ReturnCalm
  <2>9. CASE CommitStands(t) BY <1>1, <2>9, CommitStandsCalm, QuietKeeps
  <2>10. CASE ForceAbort(t) BY <1>3, <2>10, ForceAbortCalm
  <2>11. CASE ForceAbortMisses(t) BY <1>3, <2>11, ForceAbortMissesCalm, StillCertain
  <2>. QED BY <1>9, <2>1, <2>2, <2>3, <2>4, <2>5, <2>6, <2>7, <2>8, <2>9, <2>10, <2>11, Zenon
           DEF Resume
<1>10. ASSUME NEW t \in Thread, WriteFails(t) PROVE Certain' /\ Tells
  BY <1>1, <1>10, WriteFailsCertain
<1>11. ASSUME NEW t \in Thread, SyncFails(t) PROVE Certain' /\ Tells
  BY <1>1, <1>11, SyncFailsCertain
<1>. QED BY <1>4, <1>5, <1>6, <1>7, <1>8, <1>9, <1>10, <1>11, Zenon DEF Next

LEMMA InitCertain ==
  ASSUME Init
  PROVE  Certain
<1>1. /\ pc = [t \in Thread |-> "idle"] /\ call = [t \in Thread |-> NoCall] /\ marked = {}
      /\ log = {Header(1)} /\ stable = written
  BY DEF Init
<1>2. \A t \in Thread : pc[t] = "idle" /\ call[t] = NoCall /\ t \notin marked BY <1>1
<1>3. Base BY InitBase
<1>4. \A t \in Thread : CoverOK(t) /\ ~ Flushes(t) /\ ~ Culprit(t) /\ ~ Uncertain(t)
  BY <1>2, NoCallFields DEF CoverOK, Flushes, Culprit, Uncertain
<1>5. SyncPointIsSynced
  <2>1. lp.b_off = 0 /\ lp.lsn = <<1, 1>> /\ lp.s_lsn = <<1, 1>> BY DEF Init, NewLog
  <2>2. Safe(lp) = lp.s_lsn BY <2>1 DEF Safe
  <2>3. /\ lp \in LogFields /\ log \in SUBSET Record /\ LogOK(lp, log)
        /\ WrittenOK(stable, lp, log)
    BY <1>1, <1>3 DEF Base, Shape
  <2>. QED BY <2>2, <2>3, SafeIsWritten DEF SyncPointIsSynced
<1>6. Alone BY <1>4 DEF Alone
<1>. QED BY <1>2, <1>4, <1>5, <1>6 DEF Certain

LEMMA CertainReachable ==
  ASSUME OneSyncFault
  PROVE  Spec => [](Base /\ Certain)
<1>1. Init => Base /\ Certain BY InitBase, InitCertain
<1>2. Base /\ Certain /\ [Next]_vars => (Base /\ Certain)' BY CertainKeeps
<1>. QED BY <1>1, <1>2, PTL DEF Spec

(* "s_lsn is the last LSN that we know is on disk, not just written, but      *)
(* synced" (dbinc/log.h), whatever is put, filled and written while an fsync  *)
(* runs, and after any number of crashes: __log_flush_int notes what its      *)
(* fsync will cover before it lets the region go.  Only writes fail, as often *)
(* as they like, or one call does: the abort that __log_flush_commit writes   *)
(* over a commit is not synced for certain when a second fsync has failed.    *)
THEOREM SyncPointHolds ==
  ASSUME OneSyncFault
  PROVE  Spec => []SyncPointIsSynced
<1>1. Certain => SyncPointIsSynced BY DEF Certain
<1>. QED BY <1>1, CertainReachable, PTL

-----------------------------------------------------------------------------
(* What somebody was told.                                                    *)
Told == Less(promised, lp.s_lsn) /\ \E r \in log : r.lsn = promised

LEMMA CrashTold ==
  ASSUME Base, Certain, Told, Crash
  PROVE  Told'
<1>1. promised' = promised BY DEF Crash, told
<1>2. PICK lost \in SUBSET Dirty, end \in LSN :
        /\ ImageOK(Surviving(lost)) /\ log' = ReadableLog(Surviving(lost))
        /\ lp'.s_lsn = end /\ \A s \in log' : Less(s.lsn, end)
  BY CrashLeaves
<1>3. PICK image : image = Surviving(lost) OBVIOUS
<1>4. PICK r \in log : r.lsn = promised BY DEF Told
<1>5. /\ lp \in LogFields /\ log \in SUBSET Record /\ LogOK(lp, log) /\ Placed(lp, log)
      /\ lp.s_lsn \in Pair /\ Safe(lp) \in Pair /\ WrittenOK(written, lp, log)
  BY LogFieldTypes DEF Base, Shape, LogOK
<1>6. \A q \in log : Less(q.lsn, lp.s_lsn) => Whole(image, q)
  <2>1. SUFFICES ASSUME NEW q \in log, Less(q.lsn, lp.s_lsn) PROVE Whole(image, q) OBVIOUS
  <2>2. Whole(stable, q) BY <2>1 DEF Certain, SyncPointIsSynced
  <2>3. /\ q.lsn \in Pair /\ q.lsn[1] \in 1..Files /\ q.lsn[2] \in Nat /\ q.size \in Nat
        /\ EndOf(q) <= LogSize
    BY <1>5, RecordFields, LsnPair DEF Placed
  <2>4. Whole(written, q)
    <3>1. ~ Less(Safe(lp), lp.s_lsn) BY <1>5 DEF LogOK, Buffered
    <3>2. Less(q.lsn, Safe(lp)) BY <1>5, <2>1, <2>3, <3>1, Order
    <3>. QED BY <1>5, <3>2, SafeIsWritten
  <2>5. SUFFICES ASSUME NEW k \in 0..(q.size - 1)
                 PROVE  image[q.lsn[1]][q.lsn[2] + k] = <<q, k>>
    BY DEF Whole
  <2>6. q.lsn[2] + k \in Offset BY <2>3, <2>5, LogBufferAssumption DEF Offset, EndOf
  <2>7. image[q.lsn[1]][q.lsn[2] + k]
          \in {written[q.lsn[1]][q.lsn[2] + k], stable[q.lsn[1]][q.lsn[2] + k]}
    BY <1>3, <2>3, <2>6 DEF Surviving
  <2>8. /\ written[q.lsn[1]][q.lsn[2] + k] = <<q, k>>
        /\ stable[q.lsn[1]][q.lsn[2] + k] = <<q, k>>
    BY <2>2, <2>4, <2>5 DEF Whole
  <2>. QED BY <2>7, <2>8
<1>7. Less(r.lsn, lp.s_lsn) BY <1>4 DEF Told
<1>8. r \in log' BY <1>2, <1>3, <1>5, <1>6, <1>7, SyncedIsRead
<1>. QED BY <1>1, <1>2, <1>4, <1>8 DEF Told

LEMMA ToldKeeps ==
  ASSUME OneSyncFault, FaultyFiles = 1, Base, Certain, Told, [Next]_vars
  PROVE  Base' /\ Certain' /\ Told'
<1>1. Base' /\ Certain' /\ (Crash \/ (Grows(lp') /\ Tells)) BY CertainKeeps
<1>2. CASE Crash BY <1>1, <1>2, CrashTold
<1>3. CASE ~ Crash
  <2>1. Grows(lp') /\ Tells BY <1>1, <1>3
  <2>2. CASE Less(promised', lp'.s_lsn) /\ \E r \in log' : r.lsn = promised'
    BY <1>1, <2>2 DEF Told
  <2>3. CASE promised' = promised
    <3>2. \E r \in log' : r.lsn = promised BY <2>1 DEF Told, Grows
    <3>3. Less(promised, lp'.s_lsn)
      <4>1. promised \in Pair /\ lp.s_lsn \in Pair /\ lp'.s_lsn \in Pair
        BY <1>1, LogFieldTypes, LsnPair DEF Base, Shape
      <4>. QED BY <2>1, <4>1, Order DEF Told, Grows
    <3>. QED BY <1>1, <2>3, <3>2, <3>3 DEF Told
  <2>. QED BY <2>1, <2>2, <2>3 DEF Tells
<1>. QED BY <1>2, <1>3

(* Who was told that a record is on disk was told the truth: the record is in *)
(* the log, crash or not, and it and all before it are whole on the medium,   *)
(* whether the thread flushed itself, waited for another (group commit) or    *)
(* found the record synced already.  FaultyFiles = 1: a commit whose flush    *)
(* failed is taken for synced as soon as the sync point is in another file    *)
(* (the test of __log_flush_commit), which the run LogFailedSync shows to be  *)
(* wrong after a file switch.                                                 *)
THEOREM AnswersHold ==
  ASSUME OneSyncFault, FaultyFiles = 1
  PROVE  Spec => []AnsweredIsSynced
<1>1. Init => Base /\ Certain /\ Told
  <2>1. ASSUME Init PROVE Told
    <3>1. /\ promised = <<1, 0>> /\ lp.s_lsn = <<1, 1>> /\ Header(1) \in log
          /\ Header(1).lsn = <<1, 0>>
      BY <2>1 DEF Init, NewLog, Header
    <3>. QED BY <3>1 DEF Told, Less
  <2>. QED BY <2>1, InitBase, InitCertain
<1>2. Base /\ Certain /\ Told /\ [Next]_vars => (Base /\ Certain /\ Told)' BY ToldKeeps
<1>3. Base /\ Certain /\ Told => AnsweredIsSynced
  <2>1. SUFFICES ASSUME Base, Certain, Told, NEW r \in log, ~ Less(promised, r.lsn)
                 PROVE  Whole(stable, r)
    BY DEF AnsweredIsSynced, Told
  <2>2. r.lsn \in Pair /\ promised \in Pair /\ lp.s_lsn \in Pair
    BY <2>1, RecordFields, LogFieldTypes, LsnPair DEF Base, Shape
  <2>3. Less(r.lsn, lp.s_lsn) BY <2>1, <2>2, Order DEF Told
  <2>. QED BY <2>1, <2>3 DEF Certain, SyncPointIsSynced
<1>. QED BY <1>1, <1>2, <1>3, PTL DEF Spec
=============================================================================
