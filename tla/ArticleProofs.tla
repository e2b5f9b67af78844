--------------------------- MODULE ArticleProofs ---------------------------
(***************************************************************************)
(* Proofs about Articles: the sorted set of the latest articles keeps the  *)
(* newest ones under every seed, the cache shows only committed content    *)
(* and stays right once it agrees with the row, and a rebuild lock is      *)
(* released by its holder alone, for any number of articles, readers and   *)
(* calls and under every fault of the model.                               *)
(***************************************************************************)
EXTENDS Articles, FiniteSetTheorems, WellFoundedInduction, TLAPS

-----------------------------------------------------------------------------
(* ZREMRANGEBYRANK: what is left of a set of ids is at most the Keep       *)
(* newest, and whatever was cut off has Keep newer ones that are left.     *)

Newer(S, x) == {b \in S : b > x}

(* The elements above a point of a finite set are a finite set, and fewer  *)
(* above a larger point.                                                   *)
LEMMA NewerFacts ==
  ASSUME NEW S, S \subseteq Nat, IsFiniteSet(S), NEW x \in Nat
  PROVE  /\ IsFiniteSet(Newer(S, x)) /\ Cardinality(Newer(S, x)) \in Nat
         /\ \A y \in Nat : y <= x => Cardinality(Newer(S, x)) <= Cardinality(Newer(S, y))
         /\ \A y \in S : y > x => Cardinality(Newer(S, y)) < Cardinality(Newer(S, x))
<1>1. \A z \in Nat : IsFiniteSet(Newer(S, z)) /\ Cardinality(Newer(S, z)) \in Nat
  <2> SUFFICES ASSUME NEW z \in Nat
               PROVE  IsFiniteSet(Newer(S, z)) /\ Cardinality(Newer(S, z)) \in Nat
    OBVIOUS
  <2>1. Newer(S, z) \in SUBSET S  BY DEF Newer
  <2> QED BY <2>1, FS_Subset, FS_CardinalityType
<1>2. ASSUME NEW y \in Nat, y <= x
      PROVE  Cardinality(Newer(S, x)) <= Cardinality(Newer(S, y))
  <2>1. ASSUME NEW b \in Newer(S, x)
        PROVE  b \in Newer(S, y)
    <3>1. b \in S /\ b > x  BY DEF Newer
    <3>2. b \in Nat  BY <3>1
    <3> QED BY <1>2, <3>1, <3>2 DEF Newer
  <2> QED BY <1>1, <2>1, FS_Subset
<1>3. ASSUME NEW y \in S, y > x
      PROVE  Cardinality(Newer(S, y)) < Cardinality(Newer(S, x))
  <2>1. ASSUME NEW b \in Newer(S, y)
        PROVE  b \in Newer(S, x)
    <3>1. b \in S /\ b > y  BY DEF Newer
    <3>2. b \in Nat /\ y \in Nat  BY <3>1
    <3> QED BY <1>3, <3>1, <3>2 DEF Newer
  <2>2. y \in Newer(S, x) /\ y \notin Newer(S, y)
    <3>1. y \in Nat  OBVIOUS
    <3> QED BY <1>3, <3>1 DEF Newer
  <2>3. /\ Cardinality(Newer(S, y)) <= Cardinality(Newer(S, x))
        /\ Cardinality(Newer(S, x)) # Cardinality(Newer(S, y))
    BY <1>1, <2>1, <2>2, FS_Subset
  <2>4. Cardinality(Newer(S, y)) \in Nat /\ Cardinality(Newer(S, x)) \in Nat
    BY <1>1
  <2> QED BY <2>3, <2>4
<1> QED BY <1>1, <1>2, <1>3

Minimal(m, F) == \A y \in F : y \subseteq m => y = m

(* Among finitely many sets one contains no other.                         *)
LEMMA MinimalSet ==
  ASSUME NEW S, IsFiniteSet(S), NEW F \in SUBSET (SUBSET S), F # {}
  PROVE  \E m \in F : Minimal(m, F)
<1>1. FiniteSubsetsOf(S) = SUBSET S
  BY FS_FiniteSubsetsOfFinite
<1>2. IsWellFoundedOn(StrictSubsetOrdering(S), SUBSET S)
  BY <1>1, FS_StrictSubsetOrderingWellFounded
<1>3. PICK m \in F : \A y \in F : ~ (<<y, m>> \in StrictSubsetOrdering(S))
  BY <1>2, WFMin
<1>4. ASSUME NEW y \in F, y \subseteq m, y # m
      PROVE  FALSE
  <2>1. <<y, m>> \in StrictSubsetOrdering(S)
    BY <1>4 DEF StrictSubsetOrdering
  <2> QED BY <1>3, <2>1
<1> QED BY <1>4 DEF Minimal

(* A finite set of ids that is not empty has a newest and an oldest one.   *)
LEMMA Extremes ==
  ASSUME NEW S, S \subseteq Nat, IsFiniteSet(S), S # {}
  PROVE  /\ \E m \in S : \A y \in S : y <= m
         /\ \E m \in S : \A y \in S : m <= y
<1>1. \E m \in S : \A y \in S : y <= m
  <2> DEFINE F == {Newer(S, y) : y \in S}
  <2>1. F \in SUBSET (SUBSET S) /\ F # {}
    BY DEF Newer
  <2>2. PICK n \in F : Minimal(n, F)
    <3> HIDE DEF F
    <3> QED BY <2>1, MinimalSet
  <2>3. PICK m \in S : n = Newer(S, m)
    OBVIOUS
  <2>4. ASSUME NEW y \in S, ~(y <= m)
        PROVE  FALSE
    <3>0. m \in Nat /\ y \in Nat /\ y > m
      BY <2>4
    <3>1. ASSUME NEW b \in Newer(S, y)
          PROVE  b \in Newer(S, m)
      <4>1. b \in S /\ b > y  BY DEF Newer
      <4>2. b \in Nat  BY <4>1
      <4> QED BY <3>0, <4>1, <4>2 DEF Newer
    <3>2. Newer(S, y) = n
      BY <2>2, <2>3, <3>1 DEF Minimal
    <3>3. y \in Newer(S, m) /\ y \notin Newer(S, y)
      BY <3>0 DEF Newer
    <3> QED BY <2>3, <3>2, <3>3
  <2> QED BY <2>4
<1>2. \E m \in S : \A y \in S : m <= y
  <2> DEFINE Older(x) == {b \in S : b < x}
             F == {Older(y) : y \in S}
  <2>1. F \in SUBSET (SUBSET S) /\ F # {}
    OBVIOUS
  <2>2. PICK n \in F : Minimal(n, F)
    <3> HIDE DEF F
    <3> QED BY <2>1, MinimalSet
  <2>3. PICK m \in S : n = Older(m)
    OBVIOUS
  <2>4. ASSUME NEW y \in S, ~(m <= y)
        PROVE  FALSE
    <3>0. m \in Nat /\ y \in Nat /\ y < m
      BY <2>4
    <3>1. ASSUME NEW b \in Older(y)
          PROVE  b \in Older(m)
      <4>1. b \in S /\ b < y  OBVIOUS
      <4>2. b \in Nat  BY <4>1
      <4> QED BY <3>0, <4>1, <4>2
    <3>2. Older(y) = n
      <4> HIDE DEF Older
      <4> QED BY <2>2, <2>3, <3>1 DEF Minimal
    <3>3. y \in Older(m) /\ y \notin Older(y)
      BY <3>0
    <3> QED BY <2>3, <3>2, <3>3
  <2> QED BY <2>4
<1> QED BY <1>1, <1>2

(* The trimmed set is part of the set and not larger than Keep.            *)
LEMMA TrimmedSize ==
  ASSUME NEW S, S \subseteq Nat, IsFiniteSet(S)
  PROVE  /\ Trimmed(S) \subseteq S /\ IsFiniteSet(Trimmed(S))
         /\ Cardinality(Trimmed(S)) \in Nat /\ Cardinality(Trimmed(S)) <= Keep
<1> DEFINE T == Trimmed(S)
<1>1. T \in SUBSET S  BY DEF Trimmed
<1>2. IsFiniteSet(T) /\ Cardinality(T) \in Nat  BY <1>1, FS_Subset, FS_CardinalityType
<1>3. CASE T = {}
  BY <1>1, <1>2, <1>3, FS_EmptySet, ArticlesAssumption
<1>4. CASE T # {}
  <2>1. PICK m \in T : \A y \in T : m <= y
    BY <1>1, <1>2, <1>4, Extremes
  <2>2. Cardinality(Newer(S, m)) < Keep
    BY <2>1 DEF Trimmed, Newer
  <2>4. m \in Nat  BY <1>1, <2>1
  <2>3. ASSUME NEW y \in T
        PROVE  y \in Newer(S, m) \cup {m}
    <3>1. y \in S /\ m <= y  BY <1>1, <2>1
    <3>2. y \in Nat  BY <3>1
    <3>3. y = m \/ y > m  BY <2>4, <3>1, <3>2
    <3> QED BY <3>1, <3>3 DEF Newer
  <2>5. IsFiniteSet(Newer(S, m)) /\ Cardinality(Newer(S, m)) \in Nat
    BY <2>4, NewerFacts
  <2>6. /\ IsFiniteSet(Newer(S, m) \cup {m})
        /\ Cardinality(Newer(S, m) \cup {m}) <= Cardinality(Newer(S, m)) + 1
    BY <2>5, FS_AddElement
  <2>7. Cardinality(T) <= Cardinality(Newer(S, m) \cup {m})
    BY <2>3, <2>6, FS_Subset
  <2>8. Cardinality(Newer(S, m) \cup {m}) \in Nat
    BY <2>6, FS_CardinalityType
  <2> QED BY <1>1, <1>2, <2>2, <2>5, <2>6, <2>7, <2>8, ArticlesAssumption
<1> QED BY <1>3, <1>4

(* An id below which the set holds Keep newer ones keeps Keep newer ones.  *)
LEMMA TrimmedKeeps ==
  ASSUME NEW S, S \subseteq Nat, IsFiniteSet(S), NEW x \in Nat,
         Cardinality(Newer(S, x)) >= Keep
  PROVE  Cardinality(Newer(Trimmed(S), x)) = Keep
<1> DEFINE T == Trimmed(S)
<1>1. T \in SUBSET S /\ IsFiniteSet(T) /\ Cardinality(T) \in Nat /\ Cardinality(T) <= Keep
  BY TrimmedSize
<1>2. \A t \in T : t > x
  <2> SUFFICES ASSUME NEW t \in T, ~(t > x)
               PROVE  FALSE
    OBVIOUS
  <2>a. t \in S /\ ~(t > x)  BY <1>1
  <2>b. t \in Nat  BY <2>a
  <2>0. t \in Nat /\ t <= x  BY <2>a, <2>b
  <2>1. t \in Nat /\ Cardinality(Newer(S, t)) < Keep
    BY <2>0 DEF Trimmed, Newer
  <2>2. Cardinality(Newer(S, x)) <= Cardinality(Newer(S, t))
    BY <2>0, NewerFacts
  <2>3. Cardinality(Newer(S, x)) \in Nat /\ Cardinality(Newer(S, t)) \in Nat
    BY <2>1, NewerFacts
  <2> QED BY <2>1, <2>2, <2>3, ArticlesAssumption
<1>3. Newer(T, x) = T
  BY <1>2 DEF Newer
<1>4. Cardinality(T) >= Keep
  <2>1. CASE S \ T = {}
    <3>1. Newer(S, x) \in SUBSET T  BY <2>1 DEF Newer
    <3>2. Cardinality(Newer(S, x)) <= Cardinality(T)
      BY <1>1, <3>1, FS_Subset
    <3>3. Cardinality(Newer(S, x)) \in Nat  BY NewerFacts
    <3> QED BY <1>1, <3>2, <3>3, ArticlesAssumption
  <2>2. CASE S \ T # {}
    <3>1. IsFiniteSet(S \ T)  BY FS_Difference
    <3>2. PICK m \in S \ T : \A y \in S \ T : y <= m
      BY <2>2, <3>1, Extremes
    <3>3. ASSUME NEW b \in Newer(S, m)
          PROVE  b \in T
      <4>1. b \in S /\ b > m  BY DEF Newer
      <4>2. b \in Nat /\ m \in Nat  BY <4>1
      <4> QED BY <3>2, <4>1, <4>2
    <3>4. ~(Cardinality(Newer(S, m)) < Keep)
      BY <3>2 DEF Trimmed, Newer
    <3>5. Cardinality(Newer(S, m)) \in Nat
      BY <3>2, NewerFacts
    <3>6. Cardinality(Newer(S, m)) <= Cardinality(T)
      BY <1>1, <3>3, FS_Subset
    <3> QED BY <1>1, <3>4, <3>5, <3>6, ArticlesAssumption
  <2> QED BY <2>1, <2>2
<1> QED BY <1>1, <1>3, <1>4, ArticlesAssumption
-----------------------------------------------------------------------------
(* Types.                                                                  *)

WriterRecs == [step : WriteSteps, op : {"none", "create", "update", "delete"},
               art : Articles \cup {0}, ver : Versions]
ReaderRecs == [step : ReadSteps, art : Articles \cup {0}, hot : BOOLEAN, val : Content]
SeederRecs == [step : {"idle", "query", "seed"}, list : SUBSET Articles]

(* TypeOK with every record spelt out; a call at work is about an article. *)
DataTyped ==
  /\ rows \in [Articles -> Content] /\ written \in SUBSET (Articles \X Versions)
  /\ cache \in [Articles -> Entries]
  /\ lock \in [Articles -> Readers \cup {None}]
  /\ flight \in [Articles -> Readers \cup {None}]
  /\ search \in SUBSET [art : Articles, ver : Versions]
LatestTyped == latest \in SUBSET Articles /\ Cardinality(latest) <= Keep
WriterTyped == /\ writer \in [Writers -> WriterRecs]
               /\ \A w \in Writers : writer[w].step # "idle" => writer[w].art \in Articles
ReaderTyped == /\ reader \in [Readers -> ReaderRecs]
               /\ \A r \in Readers : reader[r].step # "idle" => reader[r].art \in Articles
RestTyped   == seeder \in SeederRecs /\ calls \in 0..Calls /\ page \in {"home", "detail"}
UnlistedTyped == unlisted \in SUBSET Articles
TypeInv == DataTyped /\ LatestTyped /\ WriterTyped /\ ReaderTyped /\ RestTyped

(* The strengthened types give the ones TLC checks.                        *)
LEMMA TypeInvImpliesTypeOK == TypeInv /\ UnlistedTyped => TypeOK
<1> SUFFICES ASSUME TypeInv, UnlistedTyped
             PROVE  TypeOK
  OBVIOUS
<1>1. \A w \in Writers : writer[w].step \in WriteSteps /\ writer[w].ver \in Versions
  BY DEF TypeInv, WriterTyped, WriterRecs
<1>2. \A r \in Readers : reader[r].step \in ReadSteps /\ reader[r].val \in Content
  BY DEF TypeInv, ReaderTyped, ReaderRecs
<1>3. seeder.step \in {"idle", "query", "seed"} /\ seeder.list \subseteq Articles
  BY DEF TypeInv, RestTyped, SeederRecs
<1> QED BY <1>1, <1>2, <1>3 DEF TypeInv, DataTyped, LatestTyped, RestTyped, UnlistedTyped, TypeOK

(* The process starts with an empty cache and idle handlers.               *)
LEMMA TypeInit == Init => TypeInv
<1> SUFFICES ASSUME Init
             PROVE  TypeInv
  OBVIOUS
<1>0. 0 \in Versions /\ Existing \in SUBSET Articles
  BY ArticlesAssumption DEF Versions
<1>1. DataTyped
  BY <1>0 DEF Init, DataTyped, Content, Entries
<1>2. LatestTyped
  BY FS_EmptySet, ArticlesAssumption DEF Init, LatestTyped
<1>3. WriterTyped
  BY <1>0 DEF Init, WriterTyped, WriterRecs, NoWrite, WriteSteps
<1>4. ReaderTyped
  BY DEF Init, ReaderTyped, ReaderRecs, NoRead, ReadSteps, Content
<1>5. RestTyped
  BY ArticlesAssumption DEF Init, RestTyped, SeederRecs, NoSeed
<1> QED BY <1>1, <1>2, <1>3, <1>4, <1>5 DEF TypeInv

(* A writer that goes on stays with its article.                           *)
LEMMA WriterToTyped ==
  ASSUME WriterTyped, NEW w \in Writers, NEW s \in WriteSteps,
         writer[w].step # "idle", WriterTo(w, s)
  PROVE  WriterTyped'
<1>1. writer[w] \in WriterRecs /\ writer[w].art \in Articles
  BY DEF WriterTyped
<1>2. PICK n \in WriterRecs : /\ writer' = [writer EXCEPT ![w] = n]
                              /\ n.step # "idle" => n.art \in Articles
  <2>1. CASE s = "idle"
    <3>1. NoWrite \in WriterRecs /\ NoWrite.step = "idle"
      BY ArticlesAssumption DEF NoWrite, WriterRecs, WriteSteps, Versions
    <3> QED BY <2>1, <3>1 DEF WriterTo
  <2>2. CASE s # "idle"
    <3> DEFINE n == [writer[w] EXCEPT !.step = s]
    <3>1. n \in WriterRecs /\ n.art = writer[w].art
      BY <1>1 DEF WriterRecs
    <3>2. writer' = [writer EXCEPT ![w] = n]
      BY <2>2 DEF WriterTo
    <3> QED BY <1>1, <3>1, <3>2
  <2> QED BY <2>1, <2>2
<1>3. writer' \in [Writers -> WriterRecs]
  BY <1>2 DEF WriterTyped
<1>4. \A v \in Writers : writer'[v] = IF v = w THEN n ELSE writer[v]
  BY <1>2 DEF WriterTyped
<1> QED BY <1>2, <1>3, <1>4 DEF WriterTyped

(* So does a reader, with the value it has read.                           *)
LEMMA ReaderSetTyped ==
  ASSUME ReaderTyped, NEW r \in Readers, NEW n \in ReaderRecs,
         n.step # "idle" => n.art \in Articles,
         reader' = [reader EXCEPT ![r] = n]
  PROVE  ReaderTyped'
<1>1. reader' \in [Readers -> ReaderRecs]
  BY DEF ReaderTyped
<1>2. \A q \in Readers : reader'[q] = IF q = r THEN n ELSE reader[q]
  BY DEF ReaderTyped
<1> QED BY <1>1, <1>2 DEF ReaderTyped

(* A reader that only moves on keeps its type.                             *)
LEMMA ReaderToTyped ==
  ASSUME ReaderTyped, NEW r \in Readers, NEW s \in ReadSteps,
         reader[r].step # "idle", ReaderTo(r, s)
  PROVE  ReaderTyped'
<1> DEFINE n == [reader[r] EXCEPT !.step = s]
<1>1. n \in ReaderRecs /\ n.art \in Articles
  BY DEF ReaderTyped, ReaderRecs
<1>2. reader' = [reader EXCEPT ![r] = n]
  BY DEF ReaderTo, ReaderTyped
<1> HIDE DEF n
<1> QED BY <1>1, <1>2, ReaderSetTyped

(* A handler that serves no read is a well-typed idle one.                 *)
LEMMA NoReadTyped == NoRead \in ReaderRecs /\ NoRead.step = "idle"
BY DEF NoRead, ReaderRecs, ReadSteps, Content

(* What caching an article leaves in the cache.                            *)
LEMMA CacheSetTyped ==
  ASSUME DataTyped, NEW a \in Articles, NEW v \in Content, NEW h \in BOOLEAN,
         CacheSet(a, v, h)
  PROVE  cache' \in [Articles -> Entries]
<1>1. Entry(v, h) \in Entries
  BY DEF Entry, Entries
<1> QED BY <1>1 DEF CacheSet, DataTyped
(* Every step of a write call moves its writer on.                         *)
LEMMA WriterMoves ==
  ASSUME TypeInv, NEW w \in Writers, WriterStep(w)
  PROVE  /\ writer[w].step # "idle" /\ writer[w].art \in Articles /\ writer[w].ver \in Versions
         /\ \E s \in WriteSteps : WriterTo(w, s)
         /\ UNCHANGED <<loads, seeder, calls, page, lock>>
<1>1. writer[w].step # "idle" /\ \E s \in WriteSteps : WriterTo(w, s)
  BY DEF WriterStep, EnsureTags, InsertRow, ReadForUpdate, UpdateArticleWithTags, DeleteArticle,
         ReplaceArticleGames, ReplaceArticleTopics, WriteThrough, AddLatestArticle,
         syncArticleToSearch, WriteSteps
<1>2. UNCHANGED <<loads, seeder, calls, page, lock>>
  BY DEF WriterStep, EnsureTags, InsertRow, ReadForUpdate, UpdateArticleWithTags, DeleteArticle,
         ReplaceArticleGames, ReplaceArticleTopics, WriteThrough, AddLatestArticle,
         syncArticleToSearch, redis, loads
<1>3. writer[w].art \in Articles /\ writer[w].ver \in Versions
  BY <1>1 DEF TypeInv, WriterTyped, WriterRecs
<1> QED BY <1>1, <1>2, <1>3

(* A set of ids that is trimmed keeps the type of the sorted set.          *)
LEMMA LatestTrimmedTyped ==
  ASSUME NEW S \in SUBSET Articles, latest' = Trimmed(S)
  PROVE  LatestTyped'
<1>1. IsFiniteSet(S)
  BY ArticlesAssumption, FS_Subset
<1>2. S \subseteq Nat
  BY ArticlesAssumption
<1>3. Trimmed(S) \subseteq S /\ Cardinality(Trimmed(S)) <= Keep
  BY <1>1, <1>2, TrimmedSize
<1> HIDE DEF Trimmed
<1> QED BY <1>3 DEF LatestTyped

(* Each step of a write leaves tables and caches well-typed.               *)
LEMMA WriterStepTyped ==
  ASSUME TypeInv, NEW w \in Writers, WriterStep(w)
  PROVE  TypeInv'
<1> USE DEF TypeInv
<1> DEFINE a == writer[w].art
<1>0. /\ a \in Articles /\ writer[w].ver \in Versions /\ Versions \in SUBSET Content
      /\ None \in Content
      /\ UNCHANGED <<lock, flight, reader, seeder, calls, page>>
  BY WriterMoves DEF Content, loads
<1>1. WriterTyped'
  BY WriterMoves, WriterToTyped
<1>2. ReaderTyped' /\ RestTyped'
  BY <1>0 DEF ReaderTyped, RestTyped
<1>3. DataTyped' /\ LatestTyped'
  <2>1. ASSUME UNCHANGED <<mysql, redis, search>>
        PROVE  DataTyped' /\ LatestTyped'
    BY <1>0, <2>1 DEF DataTyped, LatestTyped, mysql, redis
  <2>2. CASE EnsureTags(w) \/ ReadForUpdate(w) \/ ReplaceArticleGames(w) \/ ReplaceArticleTopics(w)
    BY <2>1, <2>2 DEF EnsureTags, ReadForUpdate, ReplaceArticleGames, ReplaceArticleTopics
  <2>3. CASE InsertRow(w) \/ UpdateArticleWithTags(w)
    <3>1. Written(w) \/ UNCHANGED mysql
      BY <2>3 DEF InsertRow, UpdateArticleWithTags
    <3>2. UNCHANGED <<redis, search>>
      BY <2>3 DEF InsertRow, UpdateArticleWithTags
    <3>3. rows' \in [Articles -> Content] /\ written' \in SUBSET (Articles \X Versions)
      BY <1>0, <3>1 DEF DataTyped, Written, mysql
    <3> QED BY <1>0, <3>2, <3>3 DEF DataTyped, LatestTyped, redis
  <2>4. CASE DeleteArticle(w)
    <3>1. rows' = rows \/ rows' = [rows EXCEPT ![a] = None]
      BY <2>4 DEF DeleteArticle
    <3>2. rows' \in [Articles -> Content] /\ UNCHANGED <<written, redis, search>>
      BY <1>0, <2>4, <3>1 DEF DataTyped, DeleteArticle
    <3> QED BY <1>0, <3>2 DEF DataTyped, LatestTyped, redis
  <2>5. CASE WriteThrough(w)
    <3>1. PICK h \in BOOLEAN : CacheSet(a, writer[w].ver, h)
      BY <2>5 DEF WriteThrough, IsHotArticle
    <3>2. cache' \in [Articles -> Entries]
      BY <1>0, <3>1, CacheSetTyped
    <3>3. UNCHANGED <<mysql, lock, latest, search>>
      BY <2>5 DEF WriteThrough
    <3> QED BY <1>0, <3>2, <3>3 DEF DataTyped, LatestTyped, mysql
  <2>6. CASE AddLatestArticle(w)
    <3>1. latest \cup {a} \in SUBSET Articles
      BY <1>0 DEF LatestTyped
    <3>2. LatestTyped'
      <4>1. CASE UNCHANGED latest
        BY <4>1 DEF LatestTyped
      <4>2. CASE latest' = Trimmed(latest \cup {a})
        BY <3>1, <4>2, LatestTrimmedTyped
      <4> QED BY <2>6, <4>1, <4>2 DEF AddLatestArticle
    <3>3. UNCHANGED <<mysql, cache, lock, search>>
      BY <2>6 DEF AddLatestArticle
    <3> QED BY <1>0, <3>2, <3>3 DEF DataTyped, mysql
  <2>7. CASE syncArticleToSearch(w)
    <3>1. search' \in SUBSET [art : Articles, ver : Versions]
      BY <1>0, <2>7 DEF syncArticleToSearch, DataTyped
    <3>2. UNCHANGED <<mysql, redis>>
      BY <2>7 DEF syncArticleToSearch
    <3> QED BY <1>0, <3>1, <3>2 DEF DataTyped, LatestTyped, mysql, redis
  <2> QED BY <2>2, <2>3, <2>4, <2>5, <2>6, <2>7 DEF WriterStep
<1> QED BY <1>1, <1>2, <1>3

(* So does the arrival of a create, an update or a delete.                 *)
LEMMA BeginTyped ==
  ASSUME TypeInv, NEW w \in Writers, NEW op \in {"create", "update", "delete"},
         NEW a \in Articles, NEW s \in WriteSteps, Begin(w, op, a, s)
  PROVE  TypeInv'
<1> USE DEF TypeInv
<1>1. WriterTyped'
  <2> DEFINE n == [NoWrite EXCEPT !.step = s, !.op = op, !.art = a, !.ver = w]
  <2>1. n \in WriterRecs /\ n.art = a
    <3>1. w \in Versions
      BY ArticlesAssumption DEF Writers, Versions
    <3>2. NoWrite \in [step : WriteSteps, op : {"none"}, art : {0}, ver : {0}]
      BY DEF NoWrite, WriteSteps
    <3>3. n \in [step : WriteSteps, op : {op}, art : {a}, ver : {w}]
      BY <3>2
    <3> HIDE DEF n
    <3> QED BY <3>1, <3>3 DEF WriterRecs
  <2>2. writer' = [writer EXCEPT ![w] = n]
    BY DEF Begin
  <2> HIDE DEF n
  <2>3. writer' \in [Writers -> WriterRecs]
    BY <2>1, <2>2 DEF WriterTyped
  <2>4. \A v \in Writers : writer'[v] = IF v = w THEN n ELSE writer[v]
    BY <2>2 DEF WriterTyped
  <2> QED BY <2>1, <2>3, <2>4 DEF WriterTyped
<1>2. UNCHANGED <<mysql, redis, search, loads, seeder, page>> /\ calls' \in 0..Calls
  BY ArticlesAssumption DEF Begin, Writers
<1> QED BY <1>1, <1>2 DEF DataTyped, LatestTyped, ReaderTyped, RestTyped, mysql, redis, loads
(* Each step of a read keeps the types, whatever the cache answers.        *)
LEMMA ReaderStepTyped ==
  ASSUME TypeInv, NEW r \in Readers, ReaderStep(r)
  PROVE  TypeInv'
<1> USE DEF TypeInv
<1> DEFINE a == reader[r].art
<1>0. /\ reader[r].step # "idle" /\ a \in Articles
      /\ reader[r].val \in Content /\ reader[r].hot \in BOOLEAN
  <2>1. reader[r].step # "idle"
    BY DEF ReaderStep, LoadLocks, RebuildLocks, GetArticleByID, Fills, LoadReturns, RebuildReleases,
           CacheAgain
  <2> QED BY <2>1 DEF ReaderTyped, ReaderRecs
<1>1. RestTyped' /\ UNCHANGED <<mysql, latest, search, writer>>
  BY DEF ReaderStep, LoadLocks, RebuildLocks, GetArticleByID, Fills, LoadReturns, RebuildReleases,
         CacheAgain, RestTyped, redis
<1>2. LatestTyped' /\ WriterTyped'
  BY <1>1 DEF LatestTyped, WriterTyped
<1>3. \A n \in ReaderRecs : /\ n.step # "idle" => n.art \in Articles
                            /\ reader' = [reader EXCEPT ![r] = n]
                            => ReaderTyped'
  BY ReaderSetTyped
<1>4. reader' = [reader EXCEPT ![r] = NoRead] => ReaderTyped'
  BY <1>3, NoReadTyped
<1>5. \A s \in ReadSteps : ReaderTo(r, s) => ReaderTyped'
  BY <1>0, ReaderToTyped
<1>6. Leave(r) \in ReadSteps
  BY DEF Leave, ReadSteps
<1>7. ReaderTyped'
  <2>1. CASE LoadLocks(r)
    BY <1>5, <2>1 DEF LoadLocks, ReadSteps
  <2>2. CASE RebuildLocks(r)
    BY <1>4, <1>5, <2>2 DEF RebuildLocks, ReadSteps
  <2>3. CASE GetArticleByID(r)
    <3> DEFINE n == [reader[r] EXCEPT !.step = "fill", !.val = rows[a]]
    <3>1. n \in ReaderRecs /\ n.art = a
      BY <1>0 DEF ReaderTyped, ReaderRecs, DataTyped, ReadSteps
    <3>2. reader' = [reader EXCEPT ![r] = n] \/ ReaderTo(r, Leave(r))
      BY <2>3 DEF GetArticleByID, ReaderTyped
    <3> HIDE DEF n
    <3> QED BY <1>0, <1>3, <1>5, <1>6, <3>1, <3>2
  <2>4. CASE Fills(r)
    BY <1>5, <1>6, <2>4 DEF Fills
  <2>5. CASE LoadReturns(r)
    <3> DEFINE Given(q) == [reader[q] EXCEPT !.step = "again", !.val = reader[r].val]
    <3>1. \A q \in Readers : reader'[q] \in {reader[q], NoRead, Given(q)}
      BY <2>5 DEF LoadReturns
    <3>2. \A q \in Readers : reader'[q] = Given(q) => reader[q].step # "idle"
      BY <1>0, <2>5, NoReadTyped DEF LoadReturns, ReaderTyped, ReaderRecs
    <3>3. \A q \in Readers : Given(q) \in ReaderRecs /\ Given(q).art = reader[q].art
      BY <1>0 DEF ReaderTyped, ReaderRecs, ReadSteps
    <3>4. reader' \in [Readers -> ReaderRecs]
      <4>1. reader' = [q \in Readers |-> reader'[q]]
        BY <2>5 DEF LoadReturns
      <4>2. \A q \in Readers : reader'[q] \in ReaderRecs
        BY <3>1, <3>3, NoReadTyped DEF ReaderTyped
      <4> QED BY <4>1, <4>2
    <3>5. \A q \in Readers : reader'[q].step # "idle" => reader'[q].art \in Articles
      <4> SUFFICES ASSUME NEW q \in Readers, reader'[q].step # "idle"
                   PROVE  reader'[q].art \in Articles
        OBVIOUS
      <4>1. CASE reader'[q] = reader[q]
        BY <4>1 DEF ReaderTyped
      <4>2. CASE reader'[q] = Given(q)
        BY <3>2, <3>3, <4>2 DEF ReaderTyped
      <4> QED BY <3>1, <4>1, <4>2, NoReadTyped
    <3> QED BY <3>4, <3>5 DEF ReaderTyped
  <2>6. CASE RebuildReleases(r) \/ CacheAgain(r)
    BY <1>4, <2>6 DEF RebuildReleases, CacheAgain
  <2> QED BY <2>1, <2>2, <2>3, <2>4, <2>5, <2>6 DEF ReaderStep
<1>8. DataTyped'
  <2>1. lock' \in [Articles -> Readers \cup {None}]
    BY <1>0 DEF ReaderStep, LoadLocks, RebuildLocks, GetArticleByID, Fills, LoadReturns,
                RebuildReleases, CacheAgain, SetNX, Releases, ReleaseLock, DataTyped, redis
  <2>2. flight' \in [Articles -> Readers \cup {None}]
    BY <1>0 DEF ReaderStep, LoadLocks, RebuildLocks, GetArticleByID, Fills, LoadReturns,
                RebuildReleases, CacheAgain, DataTyped
  <2>3. cache' \in [Articles -> Entries]
    <3>1. CASE UNCHANGED cache
      BY <3>1 DEF DataTyped
    <3>2. CASE CacheSet(a, reader[r].val, reader[r].hot)
      BY <1>0, <3>2, CacheSetTyped
    <3> QED BY <3>1, <3>2 DEF ReaderStep, LoadLocks, RebuildLocks, GetArticleByID, Fills,
                              LoadReturns, RebuildReleases, CacheAgain, redis
  <2> QED BY <1>1, <2>1, <2>2, <2>3 DEF DataTyped, mysql
<1> QED BY <1>1, <1>2, <1>7, <1>8

(* The strengthened types are inductive.                                   *)
LEMMA TypeNext == TypeInv /\ [Next]_vars => TypeInv'
<1> SUFFICES ASSUME TypeInv, [Next]_vars
             PROVE  TypeInv'
  OBVIOUS
<1> USE DEF TypeInv
<1>0. Wanted \in SUBSET Articles /\ Existing \in SUBSET Articles
  BY ArticlesAssumption
<1>1. ASSUME NEW w \in Writers,
             \/ CreateArticleHandle(w) \/ UpdateArticleHandle(w) \/ DeleteArticleHandle(w)
      PROVE  TypeInv'
  <2>1. \E op \in {"create", "update", "delete"}, a \in Articles, s \in WriteSteps : Begin(w, op, a, s)
    BY <1>0, <1>1 DEF CreateArticleHandle, UpdateArticleHandle, DeleteArticleHandle, WriteSteps
  <2> HIDE DEF TypeInv
  <2> QED BY <2>1, BeginTyped
<1>2. ASSUME NEW w \in Writers, WriterStep(w)
      PROVE  TypeInv'
  <2> HIDE DEF TypeInv
  <2> QED BY <1>2, WriterStepTyped
<1>3. ASSUME NEW r \in Readers, NEW a \in Articles, rebuildArticleCacheAsync(r, a) \/ DoLoad(r, a)
      PROVE  TypeInv'
  <2>1. PICK n \in ReaderRecs : n.art = a /\ reader' = [reader EXCEPT ![r] = n]
    BY <1>3 DEF rebuildArticleCacheAsync, DoLoad, IsHotArticle, ReaderRecs, ReadSteps, Content
  <2>2. ReaderTyped'
    BY <2>1, ReaderSetTyped
  <2>3. /\ UNCHANGED <<mysql, redis, search, writer, seeder, calls, page>>
        /\ flight' \in [Articles -> Readers \cup {None}]
    BY <1>3 DEF rebuildArticleCacheAsync, DoLoad, DataTyped
  <2> QED BY <2>2, <2>3 DEF DataTyped, LatestTyped, WriterTyped, RestTyped, mysql, redis
<1>4. ASSUME NEW r \in Readers, ReaderStep(r)
      PROVE  TypeInv'
  <2> HIDE DEF TypeInv
  <2> QED BY <1>4, ReaderStepTyped
<1>5. CASE GetLatestArticlesAll \/ GetArticleList
  <2>1. UNCHANGED <<mysql, redis, search, loads, writer, calls, page>>
    BY <1>5 DEF GetLatestArticlesAll, GetArticleList
  <2>2. seeder' \in SeederRecs
    <3>1. seeder \in SeederRecs /\ NoSeed \in SeederRecs
      BY DEF RestTyped, NoSeed, SeederRecs
    <3>2. Trimmed({a \in Articles : rows[a] # None}) \in SUBSET Articles
      BY DEF Trimmed
    <3>3. CASE GetLatestArticlesAll
      BY <3>1, <3>3 DEF GetLatestArticlesAll, SeederRecs
    <3>4. CASE GetArticleList
      <4> HIDE DEF Trimmed
      <4> QED BY <3>1, <3>2, <3>4 DEF GetArticleList, SeederRecs
    <3> QED BY <1>5, <3>3, <3>4
  <2> QED BY <2>1, <2>2 DEF DataTyped, LatestTyped, WriterTyped, ReaderTyped, RestTyped, mysql,
                            redis, loads
<1>6. CASE SeedLatestArticles
  <2>1. latest \cup seeder.list \in SUBSET Articles
    BY DEF LatestTyped, RestTyped, SeederRecs
  <2>2. LatestTyped'
    <3>1. CASE UNCHANGED latest
      BY <3>1 DEF LatestTyped
    <3>2. CASE latest' = Trimmed(latest \cup seeder.list)
      BY <2>1, <3>2, LatestTrimmedTyped
    <3> QED BY <1>6, <3>1, <3>2 DEF SeedLatestArticles, Seeded
  <2>3. UNCHANGED <<mysql, cache, lock, search, loads, writer, calls, page>>
    BY <1>6 DEF SeedLatestArticles
  <2>4. seeder' \in SeederRecs
    BY <1>6 DEF SeedLatestArticles, NoSeed, SeederRecs
  <2> QED BY <2>2, <2>3, <2>4 DEF DataTyped, WriterTyped, ReaderTyped, RestTyped, mysql, loads
<1>7. ASSUME NEW a \in Articles, LogicalExpiry(a) \/ LockExpires(a) \/ CacheExpires(a)
      PROVE  TypeInv'
  <2>1. cache' \in [Articles -> Entries] /\ lock' \in [Articles -> Readers \cup {None}]
    BY <1>7, ZenonT(60) DEF LogicalExpiry, LockExpires, CacheExpires, DataTyped, Entries
  <2>2. UNCHANGED <<mysql, latest, search, procs>>
    BY <1>7 DEF LogicalExpiry, LockExpires, CacheExpires
  <2> QED BY <2>1, <2>2 DEF DataTyped, LatestTyped, WriterTyped, ReaderTyped, RestTyped, mysql,
                            procs, loads
<1>8. CASE UNCHANGED vars
  BY <1>8 DEF DataTyped, LatestTyped, WriterTyped, ReaderTyped, RestTyped, vars, mysql, redis,
              procs, loads
<1> HIDE DEF TypeInv
<1> QED BY <1>0, <1>1, <1>2, <1>3, <1>4, <1>5, <1>6, <1>7, <1>8 DEF Next

(* Only ids of articles are recorded as left out of the sorted set.        *)
LEMMA UnlistedNext == TypeInv /\ UnlistedTyped /\ [Next]_vars => UnlistedTyped'
<1> SUFFICES ASSUME TypeInv, UnlistedTyped, [Next]_vars
             PROVE  UnlistedTyped'
  OBVIOUS
<1>1. ASSUME NEW w \in Writers, WriterStep(w)
      PROVE  UnlistedTyped'
  <2>1. writer[w].art \in Articles
    BY <1>1, WriterMoves
  <2>2. UNCHANGED unlisted \/ unlisted' = unlisted \cup {writer[w].art}
    BY <1>1 DEF WriterStep, EnsureTags, InsertRow, ReadForUpdate, UpdateArticleWithTags, DeleteArticle,
                ReplaceArticleGames, ReplaceArticleTopics, WriteThrough, AddLatestArticle,
                syncArticleToSearch, redis
  <2> QED BY <2>1, <2>2 DEF UnlistedTyped
<1>2. ASSUME NEW r \in Readers, ReaderStep(r)
      PROVE  UnlistedTyped'
  <2>1. UNCHANGED unlisted
    BY <1>2 DEF ReaderStep, LoadLocks, RebuildLocks, GetArticleByID, Fills, LoadReturns,
                RebuildReleases, CacheAgain, redis
  <2> QED BY <2>1 DEF UnlistedTyped
<1>3. CASE SeedLatestArticles
  BY <1>3 DEF SeedLatestArticles, UnlistedTyped
<1>4. CASE \/ \E w \in Writers : \/ CreateArticleHandle(w) \/ UpdateArticleHandle(w)
                                 \/ DeleteArticleHandle(w)
           \/ \E r \in Readers, a \in Wanted : rebuildArticleCacheAsync(r, a) \/ DoLoad(r, a)
           \/ GetLatestArticlesAll \/ GetArticleList
           \/ \E a \in Wanted : LogicalExpiry(a) \/ LockExpires(a) \/ CacheExpires(a)
           \/ UNCHANGED vars
  <2>1. UNCHANGED unlisted
    BY <1>4 DEF CreateArticleHandle, UpdateArticleHandle, DeleteArticleHandle, Begin,
                rebuildArticleCacheAsync, DoLoad, GetLatestArticlesAll, GetArticleList,
                LogicalExpiry, LockExpires, CacheExpires, vars, redis
  <2> QED BY <2>1 DEF UnlistedTyped
<1> QED BY <1>1, <1>2, <1>3, <1>4 DEF Next

(* Every variable has its type and the sorted set never outgrows Keep.     *)
THEOREM ArticleTypes == Spec => []TypeOK
<1>1. Init => UnlistedTyped
  BY DEF Init, UnlistedTyped
<1> QED BY <1>1, TypeInit, TypeNext, UnlistedNext, TypeInvImpliesTypeOK, PTL DEF Spec
-----------------------------------------------------------------------------
(* Rebuild locks.                                                          *)

(* No step takes a rebuild lock from the reader that holds it, other than  *)
(* the release by that reader and the lifetime of the key.                 *)
THEOREM ReleaseOnlyOwnHolds == Spec => ReleaseOnlyOwn
<1>1. TypeInv /\ [Next]_vars
        => [\A a \in Articles, r \in Readers :
              lock[a] = r /\ lock'[a] # r
                => reader[r].step \in {"release", "unlock"} \/ LockExpires(a)]_vars
  <2> SUFFICES ASSUME TypeInv, Next, NEW a \in Articles, NEW r \in Readers,
                      lock[a] = r, lock'[a] # r
               PROVE  reader[r].step \in {"release", "unlock"} \/ LockExpires(a)
    BY DEF vars, redis
  <2>0. lock \in [Articles -> Readers \cup {None}] /\ r # None
    BY NoneAssumption DEF TypeInv, DataTyped
  <2>1. ASSUME NEW w \in Writers,
               \/ CreateArticleHandle(w) \/ UpdateArticleHandle(w) \/ DeleteArticleHandle(w)
        PROVE  FALSE
    BY <2>1 DEF CreateArticleHandle, UpdateArticleHandle, DeleteArticleHandle, Begin, redis
  <2>2. ASSUME NEW w \in Writers, WriterStep(w)
        PROVE  FALSE
    BY <2>2, WriterMoves
  <2>3. ASSUME NEW q \in Readers, NEW b \in Articles, rebuildArticleCacheAsync(q, b) \/ DoLoad(q, b)
        PROVE  FALSE
    BY <2>3 DEF rebuildArticleCacheAsync, DoLoad, redis
  <2>4. ASSUME NEW q \in Readers, ReaderStep(q)
        PROVE  reader[r].step \in {"release", "unlock"}
    <3>1. CASE LoadLocks(q) \/ RebuildLocks(q)
      BY <2>0, <3>1 DEF LoadLocks, RebuildLocks, SetNX
    <3>2. CASE LoadReturns(q) \/ RebuildReleases(q)
      <4>1. Releases(q) /\ reader[q].step \in {"release", "unlock"}
        BY <3>2 DEF LoadReturns, RebuildReleases
      <4>2. lock[a] = q
        BY <2>0, <4>1 DEF Releases, ReleaseLock
      <4> QED BY <4>1, <4>2
    <3>3. CASE GetArticleByID(q) \/ Fills(q) \/ CacheAgain(q)
      BY <3>3 DEF GetArticleByID, Fills, CacheAgain, redis
    <3> QED BY <2>4, <3>1, <3>2, <3>3 DEF ReaderStep
  <2>5. CASE GetLatestArticlesAll \/ GetArticleList \/ SeedLatestArticles
    BY <2>5 DEF GetLatestArticlesAll, GetArticleList, SeedLatestArticles, redis
  <2>6. ASSUME NEW b \in Articles, LogicalExpiry(b) \/ LockExpires(b) \/ CacheExpires(b)
        PROVE  LockExpires(a)
    <3>1. CASE LockExpires(b)
      <4>1. a = b
        BY <2>0, <3>1 DEF LockExpires
      <4> QED BY <3>1, <4>1
    <3> QED BY <2>6, <3>1 DEF LogicalExpiry, CacheExpires
  <2>7. Wanted \in SUBSET Articles
    BY ArticlesAssumption
  <2> QED BY <2>1, <2>2, <2>3, <2>4, <2>5, <2>6, <2>7 DEF Next
<1> QED BY <1>1, TypeInit, TypeNext, PTL DEF Spec, ReleaseOnlyOwn

-----------------------------------------------------------------------------
(* Committed content.  What the cache shows has come from a writer whose   *)
(* transaction is behind it, or from a reader that has read a row, so the  *)
(* invariant follows content through both.                                 *)

PastCommit == {"games", "topics", "cache", "latest", "search"}
RowsCommitted    == \A a \in Articles : rows[a] # None => <<a, rows[a]>> \in written
WritersCommitted == \A w \in Writers : writer[w].step \in PastCommit
                                         => <<writer[w].art, writer[w].ver>> \in written
ReadersCommitted == \A r \in Readers : reader[r].val # None
                                         => <<reader[r].art, reader[r].val>> \in written
CommittedInv == /\ TypeInv
                /\ RowsCommitted /\ WritersCommitted /\ ReadersCommitted /\ ShowsCommitted

(* Caching committed content keeps the cache committed.                    *)
LEMMA CacheSetShows ==
  ASSUME DataTyped, ShowsCommitted, NEW a \in Articles, NEW v \in Content, NEW h \in BOOLEAN,
         v # None => <<a, v>> \in written,
         CacheSet(a, v, h), UNCHANGED written
  PROVE  ShowsCommitted'
<1> SUFFICES ASSUME NEW b \in Articles, cache'[b] # Miss, cache'[b].ver # None
             PROVE  <<b, cache'[b].ver>> \in written
  BY DEF ShowsCommitted
<1>1. cache'[b] = cache[b] \/ (b = a /\ cache'[b] = Entry(v, h))
  BY DEF CacheSet, DataTyped
<1>2. Entry(v, h).ver = v
  BY DEF Entry
<1> QED BY <1>1, <1>2 DEF ShowsCommitted

(* A step of a writer: the others stay, this one keeps its article and     *)
(* content, or is done.                                                    *)
LEMMA WriterToFacts ==
  ASSUME WriterTyped, NEW w \in Writers, NEW s \in WriteSteps, WriterTo(w, s)
  PROVE  /\ \A v \in Writers \ {w} : writer'[v] = writer[v]
         /\ writer'[w].step = s
         /\ s # "idle" => /\ writer'[w].art = writer[w].art
                          /\ writer'[w].ver = writer[w].ver
                          /\ writer'[w].op = writer[w].op
         /\ s = "idle" => writer'[w] = NoWrite
BY DEF WriterTyped, WriterRecs, WriterTo, NoWrite

(* Nothing is cached or being read when the process starts.                *)
LEMMA CommittedInit == Init => CommittedInv
<1> SUFFICES ASSUME Init
             PROVE  CommittedInv
  OBVIOUS
<1>1. RowsCommitted
  BY DEF Init, RowsCommitted
<1>2. WritersCommitted
  BY DEF Init, WritersCommitted, NoWrite, PastCommit
<1>3. ReadersCommitted
  BY DEF Init, ReadersCommitted, NoRead
<1>4. ShowsCommitted
  BY DEF Init, ShowsCommitted
<1> QED BY <1>1, <1>2, <1>3, <1>4, TypeInit DEF CommittedInv

(* A write puts into the caches only what it has committed before.         *)
LEMMA CommittedWriterStep ==
  ASSUME CommittedInv, TypeInv', NEW w \in Writers, WriterStep(w)
  PROVE  CommittedInv'
<1> USE DEF CommittedInv
<1> DEFINE a == writer[w].art
           v == writer[w].ver
<1>0. /\ a \in Articles /\ v \in Versions /\ v \in Content /\ v # None
      /\ UNCHANGED reader
      /\ rows \in [Articles -> Content]
  BY WriterMoves, NoneAssumption DEF Content, Versions, loads, TypeInv, DataTyped
<1>1. written \subseteq written'
  BY DEF WriterStep, EnsureTags, InsertRow, ReadForUpdate, UpdateArticleWithTags, DeleteArticle,
         ReplaceArticleGames, ReplaceArticleTopics, WriteThrough, AddLatestArticle,
         syncArticleToSearch, Written, mysql
<1>2. RowsCommitted'
  <2>1. CASE UNCHANGED mysql
    BY <2>1 DEF RowsCommitted, mysql
  <2>2. CASE Written(w)
    BY <1>0, <2>2 DEF RowsCommitted, Written
  <2>3. CASE /\ rows' \in {rows, [rows EXCEPT ![a] = None]}
             /\ UNCHANGED written
    BY <1>0, <2>3 DEF RowsCommitted
  <2> QED BY <2>1, <2>2, <2>3
          DEF WriterStep, EnsureTags, InsertRow, ReadForUpdate, UpdateArticleWithTags, DeleteArticle,
              ReplaceArticleGames, ReplaceArticleTopics, WriteThrough, AddLatestArticle,
              syncArticleToSearch
<1>3. WritersCommitted'
  <2>1. PICK s \in WriteSteps : /\ WriterTo(w, s)
                                /\ s \in PastCommit => \/ writer[w].step \in PastCommit
                                                       \/ Written(w)
    BY DEF WriterStep, EnsureTags, InsertRow, ReadForUpdate, UpdateArticleWithTags, DeleteArticle,
           ReplaceArticleGames, ReplaceArticleTopics, WriteThrough, AddLatestArticle,
           syncArticleToSearch, WriteSteps, PastCommit
  <2>2. s \in PastCommit => <<a, v>> \in written'
    BY <1>1, <2>1 DEF WritersCommitted, Written
  <2>3. /\ \A u \in Writers \ {w} : writer'[u] = writer[u]
        /\ writer'[w].step = s
        /\ s # "idle" => writer'[w].art = a /\ writer'[w].ver = v
    BY <2>1, WriterToFacts DEF TypeInv
  <2>4. "idle" \notin PastCommit
    BY DEF PastCommit
  <2> QED BY <1>1, <2>2, <2>3, <2>4 DEF WritersCommitted
<1>4. ReadersCommitted'
  BY <1>0, <1>1 DEF ReadersCommitted
<1>5. ShowsCommitted'
  <2>1. CASE UNCHANGED cache
    BY <1>1, <2>1 DEF ShowsCommitted
  <2>2. CASE WriteThrough(w)
    <3>1. PICK h \in BOOLEAN : CacheSet(a, v, h)
      BY <2>2 DEF WriteThrough, IsHotArticle
    <3>2. <<a, v>> \in written /\ UNCHANGED written
      BY <2>2 DEF WriteThrough, WritersCommitted, PastCommit, mysql
    <3> QED BY <1>0, <3>1, <3>2, CacheSetShows DEF TypeInv
  <2> QED BY <2>1, <2>2
          DEF WriterStep, EnsureTags, InsertRow, ReadForUpdate, UpdateArticleWithTags, DeleteArticle,
              ReplaceArticleGames, ReplaceArticleTopics, AddLatestArticle, syncArticleToSearch, redis
<1> QED BY <1>2, <1>3, <1>4, <1>5
(* A read puts into the caches only what it has read from MySQL.           *)
LEMMA CommittedReaderStep ==
  ASSUME CommittedInv, TypeInv', NEW r \in Readers, ReaderStep(r)
  PROVE  CommittedInv'
<1> USE DEF CommittedInv
<1> DEFINE a == reader[r].art
<1>0. /\ reader[r].val \in Content /\ reader[r].hot \in BOOLEAN
      /\ reader \in [Readers -> ReaderRecs]
  BY DEF TypeInv, ReaderTyped, ReaderRecs
<1>1. /\ reader[r].step # "idle" /\ UNCHANGED <<mysql, writer>>
  BY DEF ReaderStep, LoadLocks, RebuildLocks, GetArticleByID, Fills, LoadReturns, RebuildReleases,
         CacheAgain
<1>2. a \in Articles
  BY <1>1 DEF TypeInv, ReaderTyped
<1>3. RowsCommitted' /\ WritersCommitted'
  BY <1>1 DEF RowsCommitted, WritersCommitted, mysql
<1>4. ReadersCommitted'
  <2> DEFINE Same(q) == reader'[q].art = reader[q].art /\ reader'[q].val = reader[q].val
             Reads(q) == reader'[q].art = a /\ reader'[q].val = rows[a]
             Given(q) == reader'[q].art = a /\ reader'[q].val = reader[r].val
  <2>1. \A q \in Readers : Same(q) \/ Reads(q) \/ Given(q) \/ reader'[q].val = None
    <3>1. CASE LoadLocks(r) \/ Fills(r)
      BY <1>0, <3>1 DEF LoadLocks, Fills, ReaderTo, ReaderRecs
    <3>2. CASE RebuildLocks(r)
      BY <1>0, <3>2 DEF RebuildLocks, ReaderTo, ReaderRecs, NoRead
    <3>3. CASE GetArticleByID(r)
      BY <1>0, <3>3 DEF GetArticleByID, ReaderTo, ReaderRecs
    <3>4. CASE LoadReturns(r)
      <4> SUFFICES ASSUME NEW q \in Readers
                   PROVE  Same(q) \/ Given(q) \/ reader'[q].val = None
        OBVIOUS
      <4>1. q = r \/ reader[q].art = a \/ reader'[q] = reader[q]
        BY <3>4 DEF LoadReturns
      <4>2. reader'[q] \in {reader[q], NoRead,
                            [reader[q] EXCEPT !.step = "again", !.val = reader[r].val]}
        BY <3>4 DEF LoadReturns
      <4>3. CASE reader'[q] = reader[q] \/ reader'[q] = NoRead
        BY <4>3 DEF NoRead
      <4>4. CASE reader'[q] = [reader[q] EXCEPT !.step = "again", !.val = reader[r].val]
        <5>1. reader'[q].art = reader[q].art /\ reader'[q].val = reader[r].val
          BY <1>0, <4>4 DEF ReaderRecs
        <5> QED BY <4>1, <5>1
      <4> QED BY <4>2, <4>3, <4>4
    <3>5. CASE RebuildReleases(r) \/ CacheAgain(r)
      BY <1>0, <3>5 DEF RebuildReleases, CacheAgain, NoRead
    <3> QED BY <3>1, <3>2, <3>3, <3>4, <3>5 DEF ReaderStep
  <2> QED BY <1>1, <1>2, <2>1 DEF ReadersCommitted, RowsCommitted, mysql
<1>5. ShowsCommitted'
  <2>1. CASE UNCHANGED cache
    BY <1>1, <2>1 DEF ShowsCommitted, mysql
  <2>2. CASE CacheSet(a, reader[r].val, reader[r].hot)
    BY <1>0, <1>1, <1>2, <2>2, CacheSetShows DEF TypeInv, ReadersCommitted, mysql
  <2> QED BY <2>1, <2>2 DEF ReaderStep, LoadLocks, RebuildLocks, GetArticleByID, Fills, LoadReturns,
                            RebuildReleases, CacheAgain, redis
<1> QED BY <1>3, <1>4, <1>5

(* The committed versions are inductive for every step of Next.            *)
LEMMA CommittedNext == CommittedInv /\ [Next]_vars => CommittedInv'
<1> SUFFICES ASSUME CommittedInv, [Next]_vars
             PROVE  CommittedInv'
  OBVIOUS
<1>0. TypeInv'
  BY TypeNext DEF CommittedInv
<1>1. ASSUME NEW w \in Writers,
             \/ CreateArticleHandle(w) \/ UpdateArticleHandle(w) \/ DeleteArticleHandle(w)
      PROVE  CommittedInv'
  <2>1. PICK n : n.step \notin PastCommit /\ writer' = [writer EXCEPT ![w] = n]
    BY <1>1 DEF CreateArticleHandle, UpdateArticleHandle, DeleteArticleHandle, Begin, NoWrite,
                PastCommit
  <2>2. WritersCommitted' /\ UNCHANGED <<mysql, redis, loads>>
    BY <1>1, <2>1 DEF CreateArticleHandle, UpdateArticleHandle, DeleteArticleHandle, Begin,
                      CommittedInv, TypeInv, WriterTyped, WritersCommitted, mysql
  <2> QED BY <1>0, <2>2 DEF CommittedInv, RowsCommitted, ReadersCommitted, ShowsCommitted, mysql,
                            redis, loads
<1>2. ASSUME NEW w \in Writers, WriterStep(w)
      PROVE  CommittedInv'
  BY <1>0, <1>2, CommittedWriterStep
<1>3. ASSUME NEW r \in Readers, NEW a \in Articles, rebuildArticleCacheAsync(r, a) \/ DoLoad(r, a)
      PROVE  CommittedInv'
  <2>1. PICK n : n.val = None /\ reader' = [reader EXCEPT ![r] = n]
    BY <1>3 DEF rebuildArticleCacheAsync, DoLoad
  <2>2. ReadersCommitted' /\ UNCHANGED <<mysql, redis, writer>>
    BY <1>3, <2>1 DEF rebuildArticleCacheAsync, DoLoad, CommittedInv, TypeInv, ReaderTyped,
                      ReadersCommitted, mysql
  <2> QED BY <1>0, <2>2 DEF CommittedInv, RowsCommitted, WritersCommitted, ShowsCommitted, mysql,
                            redis
<1>4. ASSUME NEW r \in Readers, ReaderStep(r)
      PROVE  CommittedInv'
  BY <1>0, <1>4, CommittedReaderStep
<1>5. CASE \/ GetLatestArticlesAll \/ GetArticleList \/ SeedLatestArticles
           \/ \E a \in Articles : LockExpires(a)
           \/ UNCHANGED vars
  <2>1. UNCHANGED <<mysql, cache, loads, writer>>
    BY <1>5 DEF GetLatestArticlesAll, GetArticleList, SeedLatestArticles, LockExpires, vars, redis,
                procs
  <2> QED BY <1>0, <2>1 DEF CommittedInv, RowsCommitted, WritersCommitted, ReadersCommitted,
                            ShowsCommitted, mysql, loads
<1>6. ASSUME NEW a \in Articles, LogicalExpiry(a) \/ CacheExpires(a)
      PROVE  CommittedInv'
  <2>1. \A b \in Articles : cache'[b] # Miss => cache[b] # Miss /\ cache'[b].ver = cache[b].ver
    <3>1. cache \in [Articles -> Entries]
      BY DEF CommittedInv, TypeInv, DataTyped
    <3>2. CASE LogicalExpiry(a)
      BY <3>1, <3>2 DEF LogicalExpiry, Entries
    <3>3. CASE CacheExpires(a)
      BY <3>1, <3>3 DEF CacheExpires
    <3> QED BY <1>6, <3>2, <3>3
  <2>2. UNCHANGED <<mysql, loads, writer>>
    BY <1>6 DEF LogicalExpiry, CacheExpires, procs
  <2>3. ShowsCommitted'
    BY <2>1, <2>2 DEF CommittedInv, ShowsCommitted, mysql
  <2> QED BY <1>0, <2>2, <2>3 DEF CommittedInv, RowsCommitted, WritersCommitted, ReadersCommitted,
                                  mysql, loads
<1>7. Wanted \in SUBSET Articles
  BY ArticlesAssumption
<1> QED BY <1>1, <1>2, <1>3, <1>4, <1>5, <1>6, <1>7 DEF Next

(* No reader is shown content that MySQL has not taken.                    *)
THEOREM ShowsCommittedHolds == Spec => []ShowsCommitted
<1>1. CommittedInv => ShowsCommitted
  BY DEF CommittedInv
<1> QED BY <1>1, CommittedInit, CommittedNext, PTL DEF Spec

-----------------------------------------------------------------------------
(* An article is settled when the cache, the readers on their way to fill  *)
(* it and the writers that will cache what they wrote all hold its row.    *)

Writing == {"games", "topics", "cache"}
CacheSettled(a) == cache[a] # Miss => cache[a].ver = rows[a]
HoldsRow(x, a)  == x.art = a => /\ x.step \in {"fill", "again"} => x.val = rows[a]
                                /\ x.step = "release" => x.val \in {None, rows[a]}
ReadersSettled(a) == \A r \in Readers : HoldsRow(reader[r], a)
WritersSettled(a) == \A w \in Writers :
                       writer[w].art = a /\ writer[w].step \in Writing => writer[w].ver = rows[a]
Settled(a) == CacheSettled(a) /\ ReadersSettled(a) /\ WritersSettled(a)

(* Caching what the row of an article holds keeps the cache settled.       *)
LEMMA CacheSetSettles ==
  ASSUME DataTyped, NEW a \in Articles, CacheSettled(a), rows'[a] = rows[a],
         NEW b \in Articles, NEW v \in Content, NEW h \in BOOLEAN, CacheSet(b, v, h), b = a => v = rows[a]
  PROVE  CacheSettled(a)'
<1>1. cache'[a] = cache[a] \/ (b = a /\ cache'[a] = Entry(v, h))
  BY DEF CacheSet, DataTyped
<1>2. Entry(v, h).ver = v
  BY DEF Entry
<1> QED BY <1>1, <1>2 DEF CacheSettled

(* The steps of the writers.                                               *)
LEMMA SettledWriterStep ==
  ASSUME TypeInv, NEW a \in Articles, Settled(a), rows'[a] = rows[a], NEW w \in Writers, WriterStep(w)
  PROVE  Settled(a)'
<1>1. /\ writer[w].art \in Articles /\ writer[w].ver \in Content
      /\ UNCHANGED reader /\ rows \in [Articles -> Content]
  BY WriterMoves DEF Content, loads, TypeInv, DataTyped
<1>2. ReadersSettled(a)'
  BY <1>1 DEF Settled, ReadersSettled, HoldsRow
<1>3. WritersSettled(a)'
  <2>1. PICK s \in WriteSteps : /\ WriterTo(w, s)
                                /\ s \in Writing => \/ writer[w].step \in Writing
                                                     \/ Written(w)
    BY DEF WriterStep, EnsureTags, InsertRow, ReadForUpdate, UpdateArticleWithTags, DeleteArticle,
           ReplaceArticleGames, ReplaceArticleTopics, WriteThrough, AddLatestArticle,
           syncArticleToSearch, WriteSteps, Writing
  <2>2. /\ \A u \in Writers \ {w} : writer'[u] = writer[u]
        /\ writer'[w].step = s
        /\ s # "idle" => writer'[w].art = writer[w].art /\ writer'[w].ver = writer[w].ver
    BY <2>1, WriterToFacts DEF TypeInv
  <2>3. Written(w) /\ writer[w].art = a => rows[a] = writer[w].ver
    BY <1>1 DEF Written
  <2>4. "idle" \notin Writing
    BY DEF Writing
  <2> QED BY <2>1, <2>2, <2>3, <2>4 DEF Settled, WritersSettled
<1>4. CacheSettled(a)'
  <2>1. CASE UNCHANGED cache
    BY <2>1 DEF Settled, CacheSettled
  <2>2. CASE WriteThrough(w)
    <3>1. PICK h \in BOOLEAN : CacheSet(writer[w].art, writer[w].ver, h)
      BY <2>2 DEF WriteThrough, IsHotArticle
    <3>2. writer[w].art = a => writer[w].ver = rows[a]
      BY <2>2 DEF WriteThrough, Settled, WritersSettled, Writing
    <3> QED BY <1>1, <3>1, <3>2, CacheSetSettles DEF TypeInv, Settled
  <2> QED BY <2>1, <2>2
          DEF WriterStep, EnsureTags, InsertRow, ReadForUpdate, UpdateArticleWithTags, DeleteArticle,
              ReplaceArticleGames, ReplaceArticleTopics, AddLatestArticle, syncArticleToSearch, redis
<1> QED BY <1>2, <1>3, <1>4 DEF Settled

(* A reader that has not read yet has nothing to hand out.                 *)
Unread(x)  == x.step \in {"wait", "lock", "relock", "query"} => x.val = None
UnreadNone == \A r \in Readers : Unread(reader[r])

(* A new reader has not read.                                              *)
LEMMA ReaderBegins ==
  ASSUME NEW r \in Readers, NEW a \in Articles, rebuildArticleCacheAsync(r, a) \/ DoLoad(r, a)
  PROVE  \E n : /\ n.step \in {"relock", "lock", "wait"} /\ n.val = None
                /\ reader' = [reader EXCEPT ![r] = n]
<1>1. CASE rebuildArticleCacheAsync(r, a)
  <2> DEFINE n == [step |-> "relock", art |-> a, hot |-> TRUE, val |-> None]
  <2>1. n.step = "relock" /\ n.val = None
    OBVIOUS
  <2>2. reader' = [reader EXCEPT ![r] = n]
    BY <1>1 DEF rebuildArticleCacheAsync
  <2> HIDE DEF n
  <2> QED BY <2>1, <2>2
<1>2. CASE DoLoad(r, a)
  <2> DEFINE s == IF flight[a] = None THEN "lock" ELSE "wait"
             n(h) == [step |-> s, art |-> a, hot |-> h, val |-> None]
  <2>1. PICK h \in BOOLEAN : reader' = [reader EXCEPT ![r] = n(h)]
    BY <1>2 DEF DoLoad, IsHotArticle
  <2>2. n(h).step \in {"lock", "wait"} /\ n(h).val = None
    OBVIOUS
  <2> HIDE DEF n
  <2> QED BY <2>1, <2>2
<1> QED BY <1>1, <1>2

(* Only reading gives a reader a value, and what follows is another step.  *)
LEMMA UnreadNext == TypeInv /\ UnreadNone /\ [Next]_vars => UnreadNone'
<1> SUFFICES ASSUME TypeInv, UnreadNone, [Next]_vars
             PROVE  UnreadNone'
  OBVIOUS
<1>1. reader \in [Readers -> ReaderRecs] /\ Unread(NoRead)
  BY DEF TypeInv, ReaderTyped, Unread, NoRead
<1>2. ASSUME NEW r \in Readers, NEW a \in Articles, rebuildArticleCacheAsync(r, a) \/ DoLoad(r, a)
      PROVE  UnreadNone'
  <2>1. PICK n : n.val = None /\ reader' = [reader EXCEPT ![r] = n]
    BY <1>2, ReaderBegins
  <2>2. \A q \in Readers : reader'[q] = reader[q] \/ reader'[q] = n
    BY <1>1, <2>1
  <2> QED BY <2>1, <2>2 DEF UnreadNone, Unread
<1>3. ASSUME NEW r \in Readers, ReaderStep(r)
      PROVE  UnreadNone'
  <2>1. ASSUME NEW s, ReaderTo(r, s), s = "query" => reader[r].step \in {"lock", "relock"},
               s \notin {"wait", "lock", "relock"}
        PROVE  UnreadNone'
    <3>1. \A q \in Readers : \/ reader'[q] = reader[q]
                             \/ q = r /\ reader'[q].step = s /\ reader'[q].val = reader[r].val
      BY <1>1, <2>1 DEF ReaderTo, ReaderRecs
    <3> QED BY <2>1, <3>1 DEF UnreadNone, Unread
  <2>2. CASE reader' = [reader EXCEPT ![r] = NoRead]
    <3>1. \A q \in Readers : reader'[q] = reader[q] \/ reader'[q] = NoRead
      BY <1>1, <2>2
    <3> QED BY <1>1, <3>1 DEF UnreadNone
  <2>3. CASE reader' = [reader EXCEPT ![r].step = "fill", ![r].val = rows[reader[r].art]]
    <3>1. \A q \in Readers : reader'[q] = reader[q] \/ reader'[q].step = "fill"
      BY <1>1, <2>3 DEF ReaderRecs
    <3> QED BY <3>1 DEF UnreadNone, Unread
  <2>4. CASE LoadReturns(r)
    <3>1. \A q \in Readers : reader'[q] \in {reader[q], NoRead,
                                            [reader[q] EXCEPT !.step = "again", !.val = reader[r].val]}
      BY <2>4 DEF LoadReturns
    <3>2. \A q \in Readers : [reader[q] EXCEPT !.step = "again", !.val = reader[r].val].step = "again"
      BY <1>1 DEF ReaderRecs
    <3> QED BY <1>1, <3>1, <3>2 DEF UnreadNone, Unread
  <2>5. CASE LoadLocks(r) \/ RebuildLocks(r)
    BY <2>1, <2>2, <2>5 DEF LoadLocks, RebuildLocks
  <2>6. CASE GetArticleByID(r) \/ Fills(r)
    BY <2>1, <2>3, <2>6 DEF GetArticleByID, Fills, Leave
  <2> QED BY <1>3, <2>2, <2>4, <2>5, <2>6 DEF ReaderStep, RebuildReleases, CacheAgain
<1>4. CASE UNCHANGED reader
  BY <1>4 DEF UnreadNone
<1>5. Wanted \in SUBSET Articles
  BY ArticlesAssumption
<1>6. ASSUME NEW w \in Writers,
             \/ CreateArticleHandle(w) \/ UpdateArticleHandle(w) \/ DeleteArticleHandle(w)
             \/ WriterStep(w)
      PROVE  UNCHANGED reader
  BY <1>6 DEF CreateArticleHandle, UpdateArticleHandle, DeleteArticleHandle, Begin, WriterStep,
              EnsureTags, InsertRow, ReadForUpdate, UpdateArticleWithTags, DeleteArticle,
              ReplaceArticleGames, ReplaceArticleTopics, WriteThrough, AddLatestArticle,
              syncArticleToSearch, loads
<1>7. CASE \/ GetLatestArticlesAll \/ GetArticleList \/ SeedLatestArticles
           \/ \E b \in Articles : LockExpires(b) \/ LogicalExpiry(b) \/ CacheExpires(b)
           \/ UNCHANGED vars
  BY <1>4, <1>7 DEF GetLatestArticlesAll, GetArticleList, SeedLatestArticles, LockExpires,
                    LogicalExpiry, CacheExpires, vars, procs, loads
<1> QED BY <1>2, <1>3, <1>4, <1>5, <1>6, <1>7 DEF Next

(* The steps of the readers: what is read is the row, and what a load      *)
(* hands to those that waited is what it read.                             *)
LEMMA SettledReaderStep ==
  ASSUME TypeInv, UnreadNone, NEW a \in Articles, Settled(a), NEW r \in Readers, ReaderStep(r)
  PROVE  Settled(a)'
<1> DEFINE b == reader[r].art
<1>1. /\ reader[r].step # "idle" /\ UNCHANGED <<mysql, writer>>
  BY DEF ReaderStep, LoadLocks, RebuildLocks, GetArticleByID, Fills, LoadReturns, RebuildReleases,
         CacheAgain
<1>2. /\ b \in Articles /\ reader[r].val \in Content /\ reader[r].hot \in BOOLEAN
      /\ reader \in [Readers -> ReaderRecs]
  BY <1>1 DEF TypeInv, ReaderTyped, ReaderRecs
<1>3. WritersSettled(a)'
  BY <1>1 DEF Settled, WritersSettled, mysql
<1>4. ASSUME NEW q \in Readers
      PROVE  HoldsRow(reader'[q], a)
  <2>0. HoldsRow(reader[q], a) /\ HoldsRow(reader[r], a)
    BY DEF Settled, ReadersSettled
  <2>1. HoldsRow(NoRead, a)
    BY DEF HoldsRow, NoRead
  <2>2. ASSUME NEW s \in {"query", "unlock"}, ReaderTo(r, s)
        PROVE  HoldsRow(reader'[q], a)
    <3>1. reader'[q] = reader[q] \/ reader'[q].step = s
      BY <1>2, <2>2 DEF ReaderTo, ReaderRecs
    <3> QED BY <2>0, <3>1 DEF HoldsRow
  <2>3. CASE LoadLocks(r) \/ RebuildLocks(r)
    <3>1. ReaderTo(r, "query") \/ reader' = [reader EXCEPT ![r] = NoRead]
      BY <2>3 DEF LoadLocks, RebuildLocks
    <3> QED BY <1>2, <2>0, <2>1, <2>2, <3>1
  <2>4. CASE Fills(r)
    <3>1. ReaderTo(r, "release") \/ ReaderTo(r, "unlock")
      BY <2>4 DEF Fills, Leave
    <3>2. ASSUME ReaderTo(r, "release")
          PROVE  HoldsRow(reader'[q], a)
      <4>1. \/ reader'[q] = reader[q]
            \/ q = r /\ reader'[q].art = b /\ reader'[q].step = "release" /\ reader'[q].val = reader[r].val
        BY <1>2, <3>2 DEF ReaderTo, ReaderRecs
      <4>2. b = a => reader[r].val = rows[a]
        BY <2>0, <2>4 DEF Fills, HoldsRow
      <4> QED BY <2>0, <4>1, <4>2 DEF HoldsRow
    <3> QED BY <2>2, <3>1, <3>2
  <2>5. CASE GetArticleByID(r)
    <3>1. CASE reader' = [reader EXCEPT ![r].step = "fill", ![r].val = rows[b]]
      <4>1. \/ reader'[q] = reader[q]
            \/ reader'[q].art = b /\ reader'[q].step = "fill" /\ reader'[q].val = rows[b]
        BY <1>2, <3>1 DEF ReaderRecs
      <4> QED BY <2>0, <4>1 DEF HoldsRow
    <3>2. CASE ReaderTo(r, "unlock")
      BY <2>2, <3>2
    <3>3. CASE ReaderTo(r, "release")
      <4>1. reader[r].val = None
        BY <2>5 DEF GetArticleByID, UnreadNone, Unread
      <4>2. \/ reader'[q] = reader[q]
            \/ reader'[q].art = b /\ reader'[q].step = "release" /\ reader'[q].val = reader[r].val
        BY <1>2, <3>3 DEF ReaderTo, ReaderRecs
      <4> QED BY <2>0, <4>1, <4>2 DEF HoldsRow
    <3> QED BY <2>5, <3>1, <3>2, <3>3 DEF GetArticleByID, Leave
  <2>6. CASE LoadReturns(r)
    <3>1. \/ reader'[q] = reader[q] \/ reader'[q] = NoRead
          \/ /\ q = r \/ reader[q].art = b
             /\ reader[r].val # None
             /\ reader'[q] = [reader[q] EXCEPT !.step = "again", !.val = reader[r].val]
      BY <2>6 DEF LoadReturns
    <3>2. CASE /\ q = r \/ reader[q].art = b
               /\ reader[r].val # None
               /\ reader'[q] = [reader[q] EXCEPT !.step = "again", !.val = reader[r].val]
      <4>1. reader'[q].art = b /\ reader'[q].step = "again" /\ reader'[q].val = reader[r].val
        BY <1>2, <3>2 DEF ReaderRecs
      <4>2. b = a => reader[r].val = rows[a]
        BY <2>0, <2>6, <3>2 DEF LoadReturns, HoldsRow
      <4> QED BY <4>1, <4>2 DEF HoldsRow
    <3> QED BY <2>0, <2>1, <3>1, <3>2
  <2>7. CASE RebuildReleases(r) \/ CacheAgain(r)
    BY <1>2, <2>0, <2>1, <2>7 DEF RebuildReleases, CacheAgain
  <2> QED BY <2>3, <2>4, <2>5, <2>6, <2>7 DEF ReaderStep
<1>5. ReadersSettled(a)'
  BY <1>1, <1>4 DEF ReadersSettled, HoldsRow, mysql
<1>6. CacheSettled(a)'
  <2>1. CASE UNCHANGED cache
    BY <1>1, <2>1 DEF Settled, CacheSettled, mysql
  <2>2. CASE Fills(r) \/ CacheAgain(r)
    <3>1. CacheSet(b, reader[r].val, reader[r].hot)
      BY <2>2 DEF Fills, CacheAgain
    <3>2. b = a => reader[r].val = rows[a]
      BY <2>2 DEF Fills, CacheAgain, Settled, ReadersSettled, HoldsRow
    <3> QED BY <1>1, <1>2, <3>1, <3>2, CacheSetSettles DEF TypeInv, Settled, mysql
  <2> QED BY <2>1, <2>2 DEF ReaderStep, LoadLocks, RebuildLocks, GetArticleByID, LoadReturns,
                            RebuildReleases, redis
<1> QED BY <1>3, <1>5, <1>6 DEF Settled

(* Only a further write to its row disturbs an article that is settled: no *)
(* slow load, no rebuild, no reader that waited for another's load, no     *)
(* write-through and no expiry, in whichever order and whatever fails,     *)
(* brings old content back.  What CacheConverges needs besides is that     *)
(* calls end and keys expire.                                              *)
THEOREM SettledStays ==
  Spec => [][\A a \in Articles : Settled(a) /\ ~Settled(a)' => rows'[a] # rows[a]]_vars
<1>1. ASSUME TypeInv, UnreadNone, [Next]_vars, NEW a \in Articles, Settled(a), rows'[a] = rows[a]
      PROVE  Settled(a)'
  <2>1. ASSUME NEW w \in Writers,
               \/ CreateArticleHandle(w) \/ UpdateArticleHandle(w) \/ DeleteArticleHandle(w)
        PROVE  Settled(a)'
    <3>1. PICK n : n.step \notin Writing /\ writer' = [writer EXCEPT ![w] = n]
      BY <2>1 DEF CreateArticleHandle, UpdateArticleHandle, DeleteArticleHandle, Begin, NoWrite, Writing
    <3>2. UNCHANGED <<mysql, redis, loads>>
      BY <2>1 DEF CreateArticleHandle, UpdateArticleHandle, DeleteArticleHandle, Begin
    <3>3. WritersSettled(a)'
      BY <1>1, <3>1, <3>2 DEF TypeInv, WriterTyped, Settled, WritersSettled, mysql
    <3> QED BY <1>1, <3>2, <3>3 DEF Settled, CacheSettled, ReadersSettled, HoldsRow, mysql, redis, loads
  <2>2. ASSUME NEW w \in Writers, WriterStep(w)
        PROVE  Settled(a)'
    BY <1>1, <2>2, SettledWriterStep
  <2>3. ASSUME NEW r \in Readers, NEW b \in Articles, rebuildArticleCacheAsync(r, b) \/ DoLoad(r, b)
        PROVE  Settled(a)'
    <3>1. PICK n : n.step \in {"relock", "lock", "wait"} /\ reader' = [reader EXCEPT ![r] = n]
      BY <2>3, ReaderBegins
    <3>2. UNCHANGED <<mysql, redis, writer>>
      BY <2>3 DEF rebuildArticleCacheAsync, DoLoad
    <3>3. ReadersSettled(a)'
      <4>1. \A q \in Readers : reader'[q] = reader[q] \/ reader'[q] = n
        BY <1>1, <3>1 DEF TypeInv, ReaderTyped
      <4> QED BY <1>1, <3>1, <3>2, <4>1 DEF Settled, ReadersSettled, HoldsRow, mysql
    <3> QED BY <1>1, <3>2, <3>3 DEF Settled, CacheSettled, WritersSettled, mysql, redis
  <2>4. ASSUME NEW r \in Readers, ReaderStep(r)
        PROVE  Settled(a)'
    BY <1>1, <2>4, SettledReaderStep
  <2>5. CASE \/ GetLatestArticlesAll \/ GetArticleList \/ SeedLatestArticles
             \/ \E b \in Articles : LockExpires(b)
             \/ UNCHANGED vars
    <3>1. UNCHANGED <<mysql, cache, loads, writer>>
      BY <2>5 DEF GetLatestArticlesAll, GetArticleList, SeedLatestArticles, LockExpires, vars, redis, procs
    <3> QED BY <1>1, <3>1 DEF Settled, CacheSettled, ReadersSettled, HoldsRow, WritersSettled, mysql, loads
  <2>6. ASSUME NEW b \in Articles, LogicalExpiry(b) \/ CacheExpires(b)
        PROVE  Settled(a)'
    <3>1. cache'[a] # Miss => cache[a] # Miss /\ cache'[a].ver = cache[a].ver
      <4>1. cache \in [Articles -> Entries]
        BY <1>1 DEF TypeInv, DataTyped
      <4>2. CASE LogicalExpiry(b)
        BY <4>1, <4>2 DEF LogicalExpiry, Entries
      <4>3. CASE CacheExpires(b)
        BY <4>1, <4>3 DEF CacheExpires
      <4> QED BY <2>6, <4>2, <4>3
    <3>2. UNCHANGED <<mysql, loads, writer>>
      BY <2>6 DEF LogicalExpiry, CacheExpires, procs
    <3> QED BY <1>1, <3>1, <3>2 DEF Settled, CacheSettled, ReadersSettled, HoldsRow, WritersSettled, mysql, loads
  <2>7. Wanted \in SUBSET Articles
    BY ArticlesAssumption
  <2> QED BY <1>1, <2>1, <2>2, <2>3, <2>4, <2>5, <2>6, <2>7 DEF Next
<1>2. TypeInv /\ UnreadNone /\ [Next]_vars
      => [\A a \in Articles : Settled(a) /\ ~Settled(a)' => rows'[a] # rows[a]]_vars
  BY <1>1
<1>3. Init => UnreadNone
  BY DEF Init, UnreadNone, Unread, NoRead
<1> QED BY <1>2, <1>3, TypeInit, TypeNext, UnreadNext, PTL DEF Spec

-----------------------------------------------------------------------------
(* The sorted set of the latest articles.  An article whose creation has   *)
(* got that far is in the set, or as many newer ones as it may hold are,   *)
(* or its addition failed and no seed has brought it in.                   *)

Has(L, a) == a \in L \/ Cardinality(Newer(L, a)) = Keep
Listed(L, U, a) == a \in U \/ Has(L, a)
CallsFit == \A w \in Writers :
  /\ writer[w].op \in {"update", "delete"} => writer[w].art \in Existing
  /\ writer[w].step = "search" /\ writer[w].op = "create" => Listed(latest, unlisted, writer[w].art)
  /\ writer[w].step # "idle" => writer[w].op # "none"
SearchFits == \A m \in search : m.art \notin Existing => Listed(latest, unlisted, m.art)
LatestInv == TypeInv /\ CallsFit /\ SearchFits

(* Adding ids and trimming takes no article from the set that Keep newer   *)
(* ones do not replace, whatever is added: a fresh id or an old list.      *)
LEMMA HasKept ==
  ASSUME TypeInv, NEW S \in SUBSET Articles, latest' = Trimmed(latest \cup S),
         NEW a \in Articles, Has(latest, a) \/ a \in S
  PROVE  Has(latest', a)
<1> DEFINE L == latest \cup S
<1>0. latest \in SUBSET Articles /\ L \in SUBSET Articles
  BY DEF TypeInv, LatestTyped
<1>1. L \subseteq Nat /\ IsFiniteSet(L) /\ a \in Nat /\ Keep \in Nat
  BY <1>0, ArticlesAssumption, FS_Subset
<1>2. IsFiniteSet(Newer(L, a)) /\ Cardinality(Newer(L, a)) \in Nat
  BY <1>1, NewerFacts
<1>3. CASE Cardinality(Newer(L, a)) >= Keep
  BY <1>1, <1>3, TrimmedKeeps DEF Has
<1>4. CASE ~(Cardinality(Newer(L, a)) >= Keep)
  <2>1. a \in L
    <3>1. CASE a \in latest \/ a \in S
      BY <3>1
    <3>2. CASE Cardinality(Newer(latest, a)) = Keep
      <4>1. Newer(latest, a) \in SUBSET Newer(L, a)
        BY DEF Newer
      <4>2. Cardinality(Newer(latest, a)) <= Cardinality(Newer(L, a))
        BY <1>2, <4>1, FS_Subset
      <4> QED BY <1>1, <1>2, <1>4, <3>2, <4>2
    <3> QED BY <3>1, <3>2 DEF Has
  <2>2. Cardinality(Newer(L, a)) < Keep
    BY <1>1, <1>2, <1>4
  <2> QED BY <2>1, <2>2 DEF Has, Trimmed, Newer
<1> QED BY <1>3, <1>4
(* A step that leaves the sorted set, the writers and the search alone.    *)
LEMMA LatestUntouched ==
  ASSUME LatestInv, TypeInv', UNCHANGED <<latest, unlisted, writer, search>>
  PROVE  LatestInv'
BY DEF LatestInv, CallsFit, SearchFits, Listed, Has

(* No step of a write pushes a newer article out of the latest list.       *)
LEMMA LatestWriterStep ==
  ASSUME LatestInv, TypeInv', NEW w \in Writers, WriterStep(w)
  PROVE  LatestInv'
<1> USE DEF LatestInv
<1> DEFINE a == writer[w].art
<1>0. a \in Articles /\ writer[w].step # "idle" /\ writer[w].op \in {"create", "update", "delete"}
  BY WriterMoves DEF CallsFit, TypeInv, WriterTyped, WriterRecs
<1>1. PICK S \in SUBSET Articles :
        /\ UNCHANGED latest \/ latest' = Trimmed(latest \cup S)
        /\ writer[w].step = "latest" => (latest' = Trimmed(latest \cup S) /\ a \in S) \/ a \in unlisted'
  BY <1>0 DEF WriterStep, EnsureTags, InsertRow, ReadForUpdate, UpdateArticleWithTags, DeleteArticle,
         ReplaceArticleGames, ReplaceArticleTopics, WriteThrough, AddLatestArticle,
         syncArticleToSearch, redis
<1>2. \A b \in Articles : Listed(latest, unlisted, b) => Listed(latest', unlisted', b)
  <2>1. unlisted \subseteq unlisted'
    BY DEF WriterStep, EnsureTags, InsertRow, ReadForUpdate, UpdateArticleWithTags, DeleteArticle,
           ReplaceArticleGames, ReplaceArticleTopics, WriteThrough, AddLatestArticle,
           syncArticleToSearch, redis
  <2>2. \A b \in Articles : Has(latest, b) => Has(latest', b)
    BY <1>1, HasKept DEF Has
  <2> QED BY <2>1, <2>2 DEF Listed
<1>3. writer[w].step = "latest" => Listed(latest', unlisted', a)
  BY <1>0, <1>1, HasKept DEF Listed
<1>4. PICK s \in WriteSteps : /\ WriterTo(w, s)
                              /\ s = "search" => \/ writer[w].op # "create"
                                                 \/ writer[w].step = "latest"
  BY DEF WriterStep, EnsureTags, InsertRow, ReadForUpdate, UpdateArticleWithTags, DeleteArticle,
         ReplaceArticleGames, ReplaceArticleTopics, WriteThrough, AddLatestArticle,
         syncArticleToSearch, WriteSteps
<1>5. CallsFit'
  <2>1. /\ \A v \in Writers \ {w} : writer'[v] = writer[v]
        /\ writer'[w].step = s
        /\ s # "idle" => writer'[w].art = a /\ writer'[w].op = writer[w].op
        /\ s = "idle" => writer'[w] = NoWrite
    BY <1>4, WriterToFacts DEF TypeInv
  <2>2. \A v \in Writers : writer[v].step # "idle" => writer[v].art \in Articles
    BY DEF TypeInv, WriterTyped
  <2>3. \A v \in Writers \ {w} : writer'[v].step = "search" /\ writer'[v].op = "create"
                                   => Listed(latest', unlisted', writer'[v].art)
    BY <1>2, <2>1, <2>2 DEF CallsFit
  <2>4. writer'[w].step = "search" /\ writer'[w].op = "create" => Listed(latest', unlisted', writer'[w].art)
    BY <1>3, <1>4, <2>1
  <2>5. NoWrite.op = "none" /\ NoWrite.step = "idle"
    BY DEF NoWrite
  <2> QED BY <1>0, <2>1, <2>3, <2>4, <2>5 DEF CallsFit
<1>6. SearchFits'
  <2>1. \A m \in search : m.art \in Articles
    BY DEF TypeInv, DataTyped
  <2>2. CASE UNCHANGED search
    BY <1>2, <2>1, <2>2 DEF SearchFits
  <2>3. CASE syncArticleToSearch(w)
    BY <1>0, <1>2, <2>1, <2>3 DEF SearchFits, CallsFit, syncArticleToSearch
  <2> QED BY <2>2, <2>3
          DEF WriterStep, EnsureTags, InsertRow, ReadForUpdate, UpdateArticleWithTags, DeleteArticle,
              ReplaceArticleGames, ReplaceArticleTopics, WriteThrough, AddLatestArticle
<1> QED BY <1>5, <1>6

(* Nor does any other step of Next.                                        *)
LEMMA LatestNext == LatestInv /\ [Next]_vars => LatestInv'
<1> SUFFICES ASSUME LatestInv, [Next]_vars
             PROVE  LatestInv'
  OBVIOUS
<1>0. TypeInv' /\ Wanted \in SUBSET Articles /\ Existing \in SUBSET Articles
  BY TypeNext, ArticlesAssumption DEF LatestInv
<1>1. ASSUME NEW w \in Writers, NEW op \in {"create", "update", "delete"}, NEW a \in Articles,
             NEW s \in {"tags", "read", "delete"}, op # "create" => a \in Existing,
             Begin(w, op, a, s)
      PROVE  LatestInv'
  <2>1. PICK n : /\ n.step = s /\ n.op = op /\ n.art = a
                 /\ writer' = [writer EXCEPT ![w] = n]
    BY <1>1 DEF Begin, NoWrite
  <2>2. UNCHANGED <<latest, unlisted, search>>
    BY <1>1 DEF Begin, redis
  <2>3. CallsFit'
    BY <1>1, <2>1, <2>2 DEF LatestInv, CallsFit, TypeInv, WriterTyped
  <2> QED BY <1>0, <2>2, <2>3 DEF LatestInv, SearchFits
<1>2. ASSUME NEW w \in Writers,
             \/ CreateArticleHandle(w) \/ UpdateArticleHandle(w) \/ DeleteArticleHandle(w)
      PROVE  LatestInv'
  BY <1>0, <1>1, <1>2 DEF CreateArticleHandle, UpdateArticleHandle, DeleteArticleHandle
<1>3. ASSUME NEW w \in Writers, WriterStep(w)
      PROVE  LatestInv'
  BY <1>0, <1>3, LatestWriterStep
<1>4. CASE \/ \E r \in Readers, a \in Articles : rebuildArticleCacheAsync(r, a) \/ DoLoad(r, a)
           \/ \E r \in Readers : ReaderStep(r)
           \/ GetLatestArticlesAll \/ GetArticleList
           \/ \E a \in Articles : LogicalExpiry(a) \/ LockExpires(a) \/ CacheExpires(a)
           \/ UNCHANGED vars
  <2>1. ASSUME NEW r \in Readers, ReaderStep(r)
        PROVE  UNCHANGED <<latest, unlisted, writer, search>>
    BY <2>1 DEF ReaderStep, LoadLocks, RebuildLocks, GetArticleByID, Fills, LoadReturns,
                RebuildReleases, CacheAgain, redis
  <2>2. UNCHANGED <<latest, unlisted, writer, search>>
    BY <1>4, <2>1 DEF rebuildArticleCacheAsync, DoLoad, GetLatestArticlesAll, GetArticleList,
                      LogicalExpiry, LockExpires, CacheExpires, vars, redis, procs
  <2> QED BY <1>0, <2>2, LatestUntouched
<1>5. CASE SeedLatestArticles
  <2>1. seeder.list \in SUBSET Articles
    BY DEF LatestInv, TypeInv, RestTyped, SeederRecs
  <2>2. UNCHANGED <<writer, search>>
    BY <1>5 DEF SeedLatestArticles
  <2>3. \A b \in Articles : Listed(latest, unlisted, b) => Listed(latest', unlisted', b)
    <3>1. CASE UNCHANGED <<latest, unlisted>>
      BY <3>1 DEF Listed, Has
    <3>2. CASE latest' = Trimmed(latest \cup seeder.list) /\ unlisted' = unlisted \ seeder.list
      <4>1. \A b \in Articles : Has(latest, b) \/ b \in seeder.list => Has(latest', b)
        BY <2>1, <3>2, HasKept DEF LatestInv
      <4> QED BY <3>2, <4>1 DEF Listed
    <3> QED BY <1>5, <3>1, <3>2 DEF SeedLatestArticles, Seeded
  <2>4. CallsFit'
    BY <2>2, <2>3 DEF LatestInv, CallsFit, TypeInv, WriterTyped
  <2>5. SearchFits'
    BY <2>2, <2>3 DEF LatestInv, SearchFits, TypeInv, DataTyped
  <2> QED BY <1>0, <2>4, <2>5 DEF LatestInv
<1> QED BY <1>0, <1>2, <1>3, <1>4, <1>5 DEF Next

(* The sorted set holds every article whose creation came to its end and   *)
(* that belongs in it, also when a slow seed merges an old list, unless    *)
(* its addition failed and no seed has brought it in since.                *)
THEOREM LatestKeepsNewestHolds == Spec => []LatestKeepsNewest
<1>1. Init => LatestInv
  BY TypeInit DEF Init, LatestInv, CallsFit, SearchFits, NoWrite
<1>2. LatestInv => LatestKeepsNewest
  BY DEF LatestInv, SearchFits, TypeInv, DataTyped, Listed, Has, Newer, LatestKeepsNewest
<1> QED BY <1>1, <1>2, LatestNext, PTL DEF Spec

=============================================================================
