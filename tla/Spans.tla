-------------------------------- MODULE Spans --------------------------------
(***************************************************************************)
(* Which bytes of a file a request with a Range header is answered with    *)
(* (in-web/src/files.rs, and LocalBlobs and R2Blobs of in-core), and       *)
(* whether it counts as a download.                                        *)
(*                                                                         *)
(* A header is taken apart: the last so many bytes, all from a byte on,    *)
(* the bytes from one to another, or anything else.  Lengths are unsigned  *)
(* of 64 bits, and a sum saturates; what the header has in the place of a  *)
(* number and does not parse as one stands for a number beyond them.  A    *)
(* first byte is `bare` when it has no sign and no zeros before it, as in  *)
(* `bytes=0-` and unlike `bytes=00-` or `bytes=+0-`.                       *)
(***************************************************************************)
EXTENDS Integers, TLAPS

U64Max == 4294967295 * 4294967297   \* 2^64 - 1
U64 == 0..U64Max

Headers == [kind : {"other"}]
           \cup [kind : {"suffix"}, last : Nat]
           \cup [kind : {"open"}, first : Nat, bare : BOOLEAN]
           \cup [kind : {"closed"}, first : Nat, bare : BOOLEAN, last : Nat]

Least(a, b) == IF a < b THEN a ELSE b

\* u64::saturating_sub and u64::saturating_add.
Minus(a, b) == IF a < b THEN 0 ELSE a - b
Plus(a, b)  == Least(a + b, U64Max)

\* The three answers of parse_range.
Ignored == [kind |-> "ignored"]
Beyond  == [kind |-> "beyond"]
Span(first, last) == [kind |-> "span", first |-> first, last |-> last]

\* Headers that are a set of one range.
WellFormed(h) ==
    \/ h.kind = "suffix" /\ h.last \in U64 \ {0}
    \/ h.kind = "open" /\ h.first \in U64
    \/ h.kind = "closed" /\ h.first \in U64 /\ h.last \in U64 /\ h.first <= h.last

ParseRange(h, total) ==
    IF ~WellFormed(h) \/ (h.kind = "suffix" /\ total = 0) THEN Ignored
    ELSE IF h.kind = "suffix" THEN Span(Minus(total, h.last), total - 1)
    ELSE IF h.first >= total THEN Beyond
    ELSE Span(h.first, IF h.kind = "open" THEN total - 1 ELSE Least(h.last, total - 1))

\* The length of what is read from start, of an object of size bytes: of a file
\* on disk, and of an object in the bucket.
LocalSpan(start, len, size) == Least(len, Minus(size, start))

BucketSpan(start, len, size) ==
    LET from == Least(start, size)
        end  == Least(Plus(from, len), size)
    IN  IF from >= end THEN 0 ELSE end - from

\* bytes_response, for a row that says total and an object of size bytes: what
\* is sent, and what is announced, by the Content-Range of a 206 and by the
\* Content-Length of a 200. A 416 announces the total and no bytes.
Reply(h, total, size) ==
    LET r == ParseRange(h, total) IN
    IF r.kind = "span"
    THEN LET length == LocalSpan(r.first, r.last - r.first + 1, size) IN
         [status |-> 206, first |-> r.first, length |-> length,
          announced |-> r.first..(r.first + Minus(length, 1))]
    ELSE IF r.kind = "beyond" THEN [status |-> 416, first |-> 0, length |-> 0, announced |-> {}]
    ELSE LET length == LocalSpan(0, total, size) IN
         [status |-> 200, first |-> 0, length |-> length, announced |-> 0..(length - 1)]

\* A download is counted on its first chunk, by the route of the signed-in once
\* it is answered, and by the route of a link as the header is written, whatever
\* follows the dash. Without a header both count.
CountedSignedIn(h, total) ==
    LET r == ParseRange(h, total) IN
    r.kind = "ignored" \/ (r.kind = "span" /\ r.first = 0)

CountedByLink(h) == h.kind \in {"open", "closed"} /\ h.first = 0 /\ h.bare

-----------------------------------------------------------------------------
(* What the header asks for: the reference the algorithm is held against.  *)

Asked(h, total) ==
    {b \in 0..(total - 1) :
        \/ h.kind = "suffix" /\ b >= total - h.last
        \/ h.kind = "open"   /\ b >= h.first
        \/ h.kind = "closed" /\ h.first <= b /\ b <= h.last}

(* A span that lies in the file is the bytes between its ends.             *)
LEMMA SpanInFile ==
    ASSUME NEW total \in U64, NEW a \in Nat, NEW z \in Nat, a <= z, z < total
    PROVE  LET r == Span(a, z) IN
           /\ r.kind = "span"
           /\ r.first \in 0..r.last /\ r.last \in 0..(total - 1)
           /\ r.last - r.first + 1 \in U64
           /\ r.first..r.last = {b \in 0..(total - 1) : a <= b /\ b <= z}
<1> DEFINE r == Span(a, z)
<1>1. r.kind = "span" /\ r.first = a /\ r.last = z
  BY DEF Span
<1>2. total \in Nat /\ U64Max \in Nat /\ total <= U64Max
  BY DEF U64, U64Max
<1>3. z - a + 1 \in 0..U64Max
  BY <1>2
<1>4. a..z = {b \in 0..(total - 1) : a <= b /\ b <= z}
  BY <1>2
<1> HIDE DEF r
<1>5. /\ r.kind = "span"
      /\ r.first \in 0..r.last /\ r.last \in 0..(total - 1)
      /\ r.last - r.first + 1 \in U64
      /\ r.first..r.last = {b \in 0..(total - 1) : a <= b /\ b <= z}
  BY <1>1, <1>2, <1>3, <1>4 DEF U64
<1> QED
  BY <1>5 DEF r

(* A range that is answered is exactly the bytes the header asks for that  *)
(* the file has, one at least, and no arithmetic on it leaves 64 bits; one *)
(* that is called unsatisfiable asks for none of them.                     *)
THEOREM SpanIsWhatIsAsked ==
    ASSUME NEW h \in Headers, NEW total \in U64
    PROVE  LET r == ParseRange(h, total) IN
           /\ r.kind = "span" =>
                 /\ r.first \in 0..r.last /\ r.last \in 0..(total - 1)
                 /\ r.last - r.first + 1 \in U64
                 /\ r.first..r.last = Asked(h, total)
           /\ r.kind = "beyond" => Asked(h, total) = {}
<1> DEFINE r == ParseRange(h, total)
<1>1. total \in Nat /\ U64 \subseteq Nat
  BY DEF U64, U64Max
<1>2. CASE r = Ignored
  BY <1>2 DEF Ignored
<1>3. CASE r = Beyond
  <2>1. WellFormed(h) /\ h.kind \in {"open", "closed"} /\ h.first >= total
    <3>1. WellFormed(h) /\ h.kind # "suffix"
      BY <1>3 DEF ParseRange, Ignored, Beyond, Span
    <3>2. h.kind \in {"open", "closed"}
      BY <3>1 DEF WellFormed
    <3>3. h.first >= total
      BY <1>3, <3>1 DEF ParseRange, Beyond, Span
    <3> QED
      BY <3>1, <3>2, <3>3
  <2>2. h.first \in Nat
    BY <1>1, <2>1 DEF WellFormed
  <2>3. ASSUME NEW b \in Asked(h, total) PROVE FALSE
    <3>1. b \in 0..(total - 1) /\ h.first <= b
      BY <2>1 DEF Asked
    <3> QED
      BY <1>1, <2>1, <2>2, <3>1
  <2> QED
    BY <1>3, <2>3 DEF Beyond
<1>4. CASE WellFormed(h) /\ h.kind = "suffix" /\ total # 0
  <2>1. h.last \in Nat /\ h.last # 0
    BY <1>1, <1>4 DEF WellFormed
  <2> DEFINE a == Minus(total, h.last)
  <2>2. r = Span(a, total - 1)
    BY <1>4 DEF ParseRange
  <2>3. a \in Nat /\ a <= total - 1 /\ total - 1 \in Nat /\ total - 1 < total
    BY <1>1, <1>4, <2>1 DEF Minus
  <2>4. Asked(h, total) = {b \in 0..(total - 1) : a <= b /\ b <= total - 1}
    <3>1. Asked(h, total) = {b \in 0..(total - 1) : b >= total - h.last}
      BY <1>4 DEF Asked
    <3> QED
      BY <1>1, <2>1, <3>1 DEF Minus
  <2> HIDE DEF a, r
  <2>5. /\ r.kind = "span"
        /\ r.first \in 0..r.last /\ r.last \in 0..(total - 1)
        /\ r.last - r.first + 1 \in U64
        /\ r.first..r.last = Asked(h, total)
    BY <2>2, <2>3, <2>4, SpanInFile
  <2> QED
    BY <2>5 DEF r
<1>5. CASE WellFormed(h) /\ h.kind \in {"open", "closed"} /\ h.first < total
  <2> DEFINE z == IF h.kind = "open" THEN total - 1 ELSE Least(h.last, total - 1)
  <2>1. h.first \in Nat /\ (h.kind = "closed" => h.last \in Nat /\ h.first <= h.last)
    BY <1>1, <1>5 DEF WellFormed
  <2>2. r = Span(h.first, z)
    BY <1>1, <1>5, <2>1 DEF ParseRange
  <2>3. z \in Nat /\ h.first <= z /\ z < total
    BY <1>1, <1>5, <2>1 DEF Least
  <2>4. Asked(h, total) = {b \in 0..(total - 1) : h.first <= b /\ b <= z}
    <3>1. CASE h.kind = "open"
      <4>1. Asked(h, total) = {b \in 0..(total - 1) : b >= h.first}
        BY <3>1 DEF Asked
      <4> QED
        BY <1>1, <2>1, <3>1, <4>1
    <3>2. CASE h.kind = "closed"
      <4>1. Asked(h, total) = {b \in 0..(total - 1) : h.first <= b /\ b <= h.last}
        BY <3>2 DEF Asked
      <4> QED
        BY <1>1, <2>1, <3>2, <4>1 DEF Least
    <3> QED
      BY <1>5, <3>1, <3>2
  <2> HIDE DEF z, r
  <2>5. /\ r.kind = "span"
        /\ r.first \in 0..r.last /\ r.last \in 0..(total - 1)
        /\ r.last - r.first + 1 \in U64
        /\ r.first..r.last = Asked(h, total)
    BY <2>1, <2>2, <2>3, <2>4, SpanInFile
  <2> QED
    BY <2>5 DEF r
<1>6. \/ r = Ignored \/ r = Beyond
      \/ WellFormed(h) /\ h.kind = "suffix" /\ total # 0
      \/ WellFormed(h) /\ h.kind \in {"open", "closed"} /\ h.first < total
  <2>1. WellFormed(h) /\ h.kind # "suffix" => h.kind \in {"open", "closed"} /\ h.first \in Nat
    BY <1>1 DEF WellFormed
  <2> QED
    BY <1>1, <2>1 DEF ParseRange
<1> QED
  BY <1>2, <1>3, <1>4, <1>5, <1>6

(* Both homes of the bytes cut a span to the same length, whatever is      *)
(* asked for and however far the object is from what its row says.         *)
THEOREM BackendsAgree ==
    ASSUME NEW start \in U64, NEW len \in U64, NEW size \in U64
    PROVE  BucketSpan(start, len, size) = LocalSpan(start, len, size)
<1> DEFINE from == Least(start, size)
           end  == Least(Plus(from, len), size)
<1>1. /\ start \in Nat /\ len \in Nat /\ size \in Nat /\ U64Max \in Nat
      /\ size <= U64Max
  BY DEF U64, U64Max
<1>2. from \in Nat /\ from <= size
  BY <1>1 DEF Least
<1>3. end = Least(from + len, size)
  BY <1>1, <1>2 DEF Least, Plus
<1>4. BucketSpan(start, len, size) = IF from >= end THEN 0 ELSE end - from
  BY DEF BucketSpan
<1> HIDE DEF end
<1>5. CASE start <= size
  <2>1. from = start
    BY <1>1, <1>5 DEF Least
  <2> HIDE DEF from
  <2> QED
    BY <1>1, <1>3, <1>4, <1>5, <2>1 DEF LocalSpan, Least, Minus
<1>6. CASE start > size
  <2>1. from = size
    BY <1>1, <1>6 DEF Least
  <2> HIDE DEF from
  <2> QED
    BY <1>1, <1>3, <1>4, <1>6, <2>1 DEF LocalSpan, Least, Minus
<1> QED
  BY <1>1, <1>5, <1>6

(* The bytes that are sent are the object's own, and are the ones that are *)
(* announced, with one exception: a 206 for a range that begins at or past *)
(* the end of an object shorter than its row sends nothing and announces   *)
(* the range's first byte, which the object does not have.  Where row and  *)
(* object agree there is no exception, and what is announced is the whole  *)
(* range or the whole file.                                                *)
THEOREM RepliesAreHonest ==
    ASSUME NEW h \in Headers, NEW total \in U64, NEW size \in U64
    PROVE  LET reply == Reply(h, total, size)
               r     == ParseRange(h, total)
               sent  == reply.first..(reply.first + reply.length - 1)
               empty == reply.status = 206 /\ reply.length = 0
           IN
           /\ sent \subseteq 0..(size - 1)
           /\ ~empty => reply.announced = sent
           /\ empty <=> reply.status = 206 /\ size <= r.first
           /\ empty => reply.announced = {r.first}
           /\ size = total =>
                 /\ ~empty
                 /\ reply.status = 206 => reply.announced = r.first..r.last
                 /\ reply.status = 200 => reply.length = total
<1> DEFINE r == ParseRange(h, total)
           reply == Reply(h, total, size)
           sent == reply.first..(reply.first + reply.length - 1)
           empty == reply.status = 206 /\ reply.length = 0
           Honest ==
           /\ sent \subseteq 0..(size - 1)
           /\ ~empty => reply.announced = sent
           /\ empty <=> reply.status = 206 /\ size <= r.first
           /\ empty => reply.announced = {r.first}
           /\ size = total =>
                 /\ ~empty
                 /\ reply.status = 206 => reply.announced = r.first..r.last
                 /\ reply.status = 200 => reply.length = total
<1>0. size \in Nat /\ total \in Nat
  BY DEF U64
<1>1. ASSUME NEW a \in Nat, NEW n \in Nat
      PROVE  /\ LocalSpan(a, n, size) \in 0..n
             /\ LocalSpan(a, n, size) > 0 => a + LocalSpan(a, n, size) <= size
             /\ LocalSpan(a, n, size) = 0 <=> n = 0 \/ size <= a
             /\ a + n <= size => LocalSpan(a, n, size) = n
  BY <1>0 DEF LocalSpan, Least, Minus
<1>2. CASE r.kind = "span"
  <2> DEFINE n == r.last - r.first + 1
             len == LocalSpan(r.first, n, size)
  <2>1. r.first \in Nat /\ r.last \in Nat /\ r.first <= r.last /\ r.last < total
    BY <1>2, SpanIsWhatIsAsked DEF U64
  <2>2. /\ reply.status = 206 /\ reply.first = r.first /\ reply.length = len
        /\ reply.announced = r.first..(r.first + Minus(len, 1))
    BY <1>2 DEF Reply
  <2> HIDE DEF r, reply
  <2>3. n \in Nat /\ n > 0 /\ r.first + n = r.last + 1 /\ r.first + n <= total
    BY <1>0, <2>1
  <2> HIDE DEF n
  <2>4. /\ len \in Nat /\ (len > 0 => r.first + len <= size)
        /\ (len = 0 <=> size <= r.first)
        /\ (size = total => len = n)
    <3>1. /\ len \in 0..n /\ (len > 0 => r.first + len <= size)
          /\ len = 0 <=> n = 0 \/ size <= r.first
          /\ r.first + n <= size => len = n
      BY <1>1, <2>1, <2>3
    <3> HIDE DEF len
    <3> QED
      BY <2>3, <3>1
  <2> HIDE DEF len
  <2>5. /\ len > 0 => Minus(len, 1) = len - 1
        /\ len = 0 => Minus(len, 1) = 0
    BY <2>4 DEF Minus
  <2>6. sent \subseteq 0..(size - 1)
    BY <1>0, <2>1, <2>2, <2>4
  <2>7. empty <=> size <= r.first
    BY <2>2, <2>4
  <2>8. ~empty => reply.announced = sent
    BY <2>2, <2>4, <2>5
  <2>9. empty => reply.announced = {r.first}
    BY <2>1, <2>2, <2>5
  <2>10. ASSUME size = total PROVE ~empty /\ reply.announced = r.first..r.last
    <3>1. len = n /\ len > 0 /\ r.first + (len - 1) = r.last
      BY <2>1, <2>3, <2>4, <2>10
    <3> QED
      BY <2>2, <2>5, <3>1
  <2> QED
    BY <2>2, <2>6, <2>7, <2>8, <2>9, <2>10 DEF r, reply
<1>3. CASE r.kind = "beyond"
  <2>1. reply.status = 416 /\ reply.first = 0 /\ reply.length = 0 /\ reply.announced = {}
    BY <1>3 DEF Reply
  <2> HIDE DEF r, reply
  <2>2. sent = {}
    BY <2>1
  <2>3. Honest
    BY <2>1, <2>2
  <2> QED
    BY <2>3 DEF r, reply
<1>4. CASE r.kind # "span" /\ r.kind # "beyond"
  <2> DEFINE len == LocalSpan(0, total, size)
  <2>1. reply.status = 200 /\ reply.first = 0 /\ reply.length = len /\ reply.announced = 0..(len - 1)
    BY <1>4 DEF Reply
  <2>2. len \in Nat /\ (len > 0 => len <= size) /\ (size = total => len = total)
    <3>1. /\ len \in 0..total /\ (len > 0 => 0 + len <= size)
          /\ 0 + total <= size => len = total
      BY <1>0, <1>1
    <3> HIDE DEF len
    <3> QED
      BY <1>0, <3>1
  <2> HIDE DEF r, reply, len
  <2>3. sent = 0..(len - 1) /\ sent \subseteq 0..(size - 1)
    BY <1>0, <2>1, <2>2
  <2>4. Honest
    BY <2>1, <2>2, <2>3
  <2> QED
    BY <2>4 DEF r, reply
<1> QED
  BY <1>2, <1>3, <1>4

(* "The way the signed-in download route counts": of the requests for a    *)
(* range by its first byte, of a file that has one, the two routes count   *)
(* the same, but for those that ask for byte zero in another spelling than *)
(* `0`, which only the signed-in count.  They differ also on the header of *)
(* no range, on the last bytes of a file and on an empty file.             *)
THEOREM RoutesCountAlike ==
    ASSUME NEW h \in Headers, NEW total \in U64, total > 0,
           h.kind \in {"open", "closed"}, h.first \in U64,
           h.kind = "closed" => h.last \in U64 /\ h.first <= h.last
    PROVE  /\ CountedByLink(h) => CountedSignedIn(h, total)
           /\ CountedSignedIn(h, total) /\ ~CountedByLink(h) <=> h.first = 0 /\ ~h.bare
<1>1. h.first \in Nat /\ total \in Nat
  BY DEF U64
<1>2. WellFormed(h) /\ h.kind # "suffix"
  BY DEF WellFormed
<1>3. PICK last : ParseRange(h, total) = IF h.first >= total THEN Beyond
                                         ELSE Span(h.first, last)
  BY <1>2 DEF ParseRange
<1>4. CountedSignedIn(h, total) <=> h.first = 0
  BY <1>1, <1>3 DEF CountedSignedIn, Beyond, Span
<1> QED
  BY <1>4 DEF CountedByLink
=============================================================================
