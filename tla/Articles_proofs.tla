--------------------------- MODULE Articles_proofs --------------------------
(* What holds of Articles for all users, roles, titles, texts and bounds. *)
EXTENDS Articles, TLAPS

-----------------------------------------------------------------------------
(* Type correctness. *)

(* The date a patch leaves, by the status it asks for.                     *)
LEMMA DateCases ==
  ASSUME NEW old, NEW to
  PROVE  /\ to = "PUBLISHED" =>
              PublicationDate(old, to) = IF old.publishedAt = None THEN clock ELSE old.publishedAt
         /\ to \in {None, "ARCHIVED"} => PublicationDate(old, to) = old.publishedAt
         /\ to \in {"DRAFT", "REVIEW"} => PublicationDate(old, to) = None
<1>1. CASE to = "PUBLISHED"
  BY <1>1, ConstantsAssumption DEF PublicationDate
<1>2. CASE to = "ARCHIVED"
  BY <1>2, ConstantsAssumption DEF PublicationDate
<1>3. CASE to = None
  BY <1>3, ConstantsAssumption DEF PublicationDate
<1>4. CASE to \in {"DRAFT", "REVIEW"}
  BY <1>4, ConstantsAssumption DEF PublicationDate
<1> QED
  BY <1>1, <1>2, <1>3, <1>4

(* A publication date is a time of the clock, the old date or none.        *)
LEMMA DateTyped ==
  ASSUME NEW old \in ArticleType, NEW to \in Statuses \cup {None}, clock \in Nat
  PROVE  PublicationDate(old, to) \in Nat \cup {None}
<1>1. old.publishedAt \in Nat \cup {None}
  BY DEF ArticleType
<1> QED
  BY <1>1, DateCases DEF Statuses

(* A patched article is an article, with the status asked for or the old.  *)
LEMMA PatchedTyped ==
  ASSUME NEW old \in ArticleType, NEW patch \in Patches, clock \in Nat
  PROVE  Patched(old, patch) \in ArticleType
<1> DEFINE date == PublicationDate(old, patch.status)
<1>1. date \in Nat \cup {None}
  BY DateTyped DEF Patches
<1>2. Given(patch.slug, old.slug) \in Slugs
  BY DEF Given, Patches, ArticleType, Slugs
<1>3. Given(patch.text, old.text) \in Texts /\ Given(patch.status, old.status) \in Statuses
  BY DEF Given, Patches, ArticleType
<1> HIDE DEF date
<1> QED
  BY <1>1, <1>2, <1>3 DEF Patched, ArticleType, date

(* createArticle adds one well-formed article under a new id.              *)
LEMMA CreateTyped ==
  ASSUME TypeOK, NEW p \in Principals, NEW base \in Bases, NEW n \in 1..created + 1,
         NEW text \in Texts, NEW status \in Statuses, CreateArticle(p, base, n, text, status)
  PROVE  TypeOK'
<1> DEFINE new == [slug |-> <<base, n>>, text |-> text, status |-> status, author |-> p.user,
                   publishedAt |-> IF status = "PUBLISHED" THEN clock ELSE None, updatedAt |-> clock]
<1>1. new \in ArticleType
  BY DEF TypeOK, ArticleType, Slugs, Principals
<1> HIDE DEF new
<1>2. /\ articles' = [a \in DOMAIN articles \cup {created + 1} |->
                        IF a = created + 1 THEN new ELSE articles[a]]
      /\ created' = created + 1 /\ actor' = p /\ clock' = clock
  BY DEF CreateArticle, new
<1>3. articles' \in [DOMAIN articles' -> ArticleType] /\ DOMAIN articles' = DOMAIN articles \cup {created + 1}
  BY <1>1, <1>2 DEF TypeOK
<1> QED
  BY <1>2, <1>3 DEF TypeOK

(* updateArticleBySlug leaves a well-formed article in the place of another. *)
LEMMA UpdateTyped ==
  ASSUME TypeOK, NEW p \in Principals, NEW a \in DOMAIN articles, NEW patch \in Patches,
         UpdateArticle(p, a, patch)
  PROVE  TypeOK'
<1> DEFINE new == Patched(articles[a], patch)
<1>1. new \in ArticleType
  BY PatchedTyped DEF TypeOK
<1> HIDE DEF new
<1>2. articles' = [articles EXCEPT ![a] = new] /\ actor' = p /\ UNCHANGED <<created, clock>>
  BY DEF UpdateArticle, new
<1> QED
  BY <1>1, <1>2 DEF TypeOK

(* Every step keeps the articles well formed.                              *)
LEMMA StepTyped == TypeOK /\ [Next]_vars => TypeOK'
<1> SUFFICES ASSUME TypeOK, [Next]_vars PROVE TypeOK'
  OBVIOUS
<1>1. ASSUME NEW p \in Principals, NEW base \in Bases, NEW n \in 1..created + 1,
             NEW text \in Texts, NEW status \in Statuses, CreateArticle(p, base, n, text, status)
      PROVE  TypeOK'
  BY <1>1, CreateTyped
<1>2. ASSUME NEW p \in Principals, NEW a \in DOMAIN articles, NEW patch \in Patches,
             UpdateArticle(p, a, patch)
      PROVE  TypeOK'
  BY <1>2, UpdateTyped
<1>3. ASSUME NEW p \in Principals, NEW a \in DOMAIN articles, DeleteArticle(p, a)
      PROVE  TypeOK'
  BY <1>3 DEF DeleteArticle, TypeOK
<1>4. CASE Tick
  BY <1>4 DEF Tick, TypeOK
<1>5. CASE UNCHANGED vars
  BY <1>5 DEF vars, TypeOK
<1> QED
  BY <1>1, <1>2, <1>3, <1>4, <1>5 DEF Next

(* Articles are well formed in every reachable state.                      *)
THEOREM ArticlesTypeCorrect == Spec => []TypeOK
<1>1. Init => TypeOK
  BY DEF Init, TypeOK
<1> QED
  BY <1>1, StepTyped, PTL DEF Spec

-----------------------------------------------------------------------------
(* Slugs. *)

(* A new article gets a slug no article has, and so does a renamed one.    *)
LEMMA StepUnique == TypeOK /\ SlugsAreUnique /\ [Next]_vars => SlugsAreUnique'
<1> SUFFICES ASSUME TypeOK, SlugsAreUnique, [Next]_vars PROVE SlugsAreUnique'
  OBVIOUS
<1>1. ASSUME NEW p \in Principals, NEW base \in Bases, NEW n \in 1..created + 1,
             NEW text \in Texts, NEW status \in Statuses, CreateArticle(p, base, n, text, status)
      PROVE  SlugsAreUnique'
  <2>1. /\ DOMAIN articles' = DOMAIN articles \cup {created + 1}
        /\ \A a \in DOMAIN articles : articles'[a] = articles[a]
        /\ articles'[created + 1].slug = <<base, n>>
    BY <1>1 DEF CreateArticle, TypeOK
  <2>2. \A a \in DOMAIN articles : articles[a].slug # <<base, n>>
    BY <1>1 DEF CreateArticle, IsNextSlug, BySlug
  <2> QED
    BY <2>1, <2>2 DEF SlugsAreUnique
<1>2. ASSUME NEW p \in Principals, NEW a \in DOMAIN articles, NEW patch \in Patches,
             UpdateArticle(p, a, patch)
      PROVE  SlugsAreUnique'
  <2> DEFINE new == Patched(articles[a], patch)
  <2>1. new.slug = articles[a].slug \/ BySlug(new.slug) = {}
    BY <1>2 DEF UpdateArticle, SlugAllowed, Patched, Given
  <2> HIDE DEF new
  <2>2. articles' = [articles EXCEPT ![a] = new]
    BY <1>2 DEF UpdateArticle, new
  <2>3. /\ DOMAIN articles' = DOMAIN articles /\ articles'[a] = new
        /\ \A b \in DOMAIN articles : b # a => articles'[b] = articles[b]
    BY <2>2 DEF TypeOK
  <2>4. \A b \in DOMAIN articles : b # a => articles[b].slug # new.slug
    BY <2>1 DEF SlugsAreUnique, BySlug
  <2> QED
    BY <2>3, <2>4 DEF SlugsAreUnique
<1>3. ASSUME NEW p \in Principals, NEW a \in DOMAIN articles, DeleteArticle(p, a)
      PROVE  SlugsAreUnique'
  BY <1>3 DEF DeleteArticle, SlugsAreUnique
<1>4. CASE Tick \/ UNCHANGED vars
  BY <1>4 DEF Tick, vars, SlugsAreUnique
<1> QED
  BY <1>1, <1>2, <1>3, <1>4 DEF Next

(* However articles are created, renamed and deleted, no two ever share a  *)
(* slug, so that a request reaches one article.                            *)
THEOREM SlugsStayUnique == Spec => []SlugsAreUnique
<1>1. Init => SlugsAreUnique
  BY DEF Init, SlugsAreUnique
<1> QED
  BY <1>1, ArticlesTypeCorrect, StepUnique, PTL DEF Spec

-----------------------------------------------------------------------------
(* Publication dates. *)

(* The date an article has agrees with its status.                         *)
Dated(article) ==
  /\ article.status = "PUBLISHED" => article.publishedAt # None
  /\ article.status \in {"DRAFT", "REVIEW"} => article.publishedAt = None

(* A patch gives an article with such a date again.                        *)
LEMMA PatchedDated ==
  ASSUME NEW old \in ArticleType, Dated(old), NEW patch \in Patches, clock \in Nat
  PROVE  Dated(Patched(old, patch))
<1> DEFINE to == patch.status
           date == PublicationDate(old, to)
           status == Given(to, old.status)
<1>1. Patched(old, patch).status = status /\ Patched(old, patch).publishedAt = date
  BY DEF Patched
<1>2. to \in Statuses \cup {None} /\ old.status \in Statuses
  BY DEF Patches, ArticleType
<1>3. /\ to = "PUBLISHED" => date = IF old.publishedAt = None THEN clock ELSE old.publishedAt
      /\ to \in {None, "ARCHIVED"} => date = old.publishedAt
      /\ to \in {"DRAFT", "REVIEW"} => date = None
  BY DateCases
<1>4. status = IF to = None THEN old.status ELSE to
  BY DEF Given
<1>5. clock # None
  BY ConstantsAssumption
<1> HIDE DEF to, date, status
<1>6. /\ status = "PUBLISHED" => date # None
      /\ status \in {"DRAFT", "REVIEW"} => date = None
  <2>1. CASE to = None
    BY <1>2, <1>3, <1>4, <2>1 DEF Dated
  <2>2. CASE to # None
    BY <1>2, <1>3, <1>4, <1>5, <2>2 DEF Statuses
  <2> QED
    BY <2>1, <2>2
<1> QED
  BY <1>1, <1>6 DEF Dated

(* Every step keeps the dates in agreement with the statuses.              *)
LEMMA StepDated == TypeOK /\ DatesFollowStatus /\ [Next]_vars => DatesFollowStatus'
<1> SUFFICES ASSUME TypeOK, \A a \in DOMAIN articles : Dated(articles[a]), [Next]_vars
             PROVE  \A a \in DOMAIN articles' : Dated(articles'[a])
  BY DEF DatesFollowStatus, Dated
<1>1. ASSUME NEW p \in Principals, NEW base \in Bases, NEW n \in 1..created + 1,
             NEW text \in Texts, NEW status \in Statuses, CreateArticle(p, base, n, text, status)
      PROVE  \A a \in DOMAIN articles' : Dated(articles'[a])
  <2> DEFINE new == [slug |-> <<base, n>>, text |-> text, status |-> status, author |-> p.user,
                     publishedAt |-> IF status = "PUBLISHED" THEN clock ELSE None, updatedAt |-> clock]
  <2>1. Dated(new)
    BY ConstantsAssumption DEF Dated, TypeOK
  <2> HIDE DEF new
  <2>2. articles' = [a \in DOMAIN articles \cup {created + 1} |->
                       IF a = created + 1 THEN new ELSE articles[a]]
    BY <1>1 DEF CreateArticle, new
  <2> QED
    BY <2>1, <2>2
<1>2. ASSUME NEW p \in Principals, NEW a \in DOMAIN articles, NEW patch \in Patches,
             UpdateArticle(p, a, patch)
      PROVE  \A b \in DOMAIN articles' : Dated(articles'[b])
  <2> DEFINE new == Patched(articles[a], patch)
  <2>1. Dated(new)
    BY PatchedDated DEF TypeOK
  <2> HIDE DEF new
  <2>2. articles' = [articles EXCEPT ![a] = new]
    BY <1>2 DEF UpdateArticle, new
  <2> QED
    BY <2>1, <2>2
<1>3. ASSUME NEW p \in Principals, NEW a \in DOMAIN articles, DeleteArticle(p, a)
      PROVE  \A b \in DOMAIN articles' : Dated(articles'[b])
  BY <1>3 DEF DeleteArticle
<1>4. CASE Tick \/ UNCHANGED vars
  BY <1>4 DEF Tick, vars
<1> QED
  BY <1>1, <1>2, <1>3, <1>4 DEF Next

(* A published article always has a date, a draft or review never one.     *)
THEOREM DatesAgreeWithStatus == Spec => []DatesFollowStatus
<1>1. Init => DatesFollowStatus
  BY DEF Init, DatesFollowStatus
<1> QED
  BY <1>1, ArticlesTypeCorrect, StepDated, PTL DEF Spec

-----------------------------------------------------------------------------
(* Contributors. *)

(* Contributors change and remove only drafts and reviews of their own and *)
(* leave drafts and reviews, but that they may date anew (updatedAt) what  *)
(* is public or archived of their own.                                     *)
THEOREM ContributorsReachOnlyDrafts == Spec => ContributorsStayWithDrafts
<1> DEFINE Stays ==
      actor' \in [user : Users, role : {"CONTRIBUTOR"}] =>
        /\ \A a \in DOMAIN articles :
             a \notin DOMAIN articles' \/ articles'[a] # articles[a] =>
               articles[a].author = actor'.user /\ (OwnDraft(actor', a) \/ OnlyTouched(a))
        /\ \A a \in DOMAIN articles' :
             a \notin DOMAIN articles \/ articles'[a] # articles[a] =>
               /\ articles'[a].author = actor'.user
               /\ articles'[a].status \in {"DRAFT", "REVIEW"} \/ OnlyTouched(a)
<1>1. ASSUME TypeOK, DatesFollowStatus, [Next]_vars PROVE [Stays]_articles
  <2> SUFFICES ASSUME actor' \in [user : Users, role : {"CONTRIBUTOR"}], articles' # articles
               PROVE  Stays
    OBVIOUS
  <2>0. actor'.role = "CONTRIBUTOR"
    OBVIOUS
  <2>1. ASSUME NEW p \in Principals, NEW base \in Bases, NEW n \in 1..created + 1,
               NEW text \in Texts, NEW status \in Statuses, CreateArticle(p, base, n, text, status)
        PROVE  Stays
    <3>1. /\ DOMAIN articles' = DOMAIN articles \cup {created + 1}
          /\ \A a \in DOMAIN articles : articles'[a] = articles[a]
          /\ articles'[created + 1].author = p.user /\ articles'[created + 1].status = status
          /\ actor' = p
      BY <1>1, <2>1 DEF CreateArticle, TypeOK
    <3>2. status \in {"DRAFT", "REVIEW"}
      BY <2>0, <2>1, <3>1 DEF CreateArticle, Statuses
    <3>3. \A a \in DOMAIN articles : a \in DOMAIN articles' /\ articles'[a] = articles[a]
      BY <3>1
    <3>4. \A a \in DOMAIN articles' : a \in DOMAIN articles \/ a = created + 1
      BY <3>1
    <3> QED
      BY <3>1, <3>2, <3>3, <3>4
  <2>2. ASSUME NEW p \in Principals, NEW a \in DOMAIN articles, NEW patch \in Patches,
               UpdateArticle(p, a, patch)
        PROVE  Stays
    <3> DEFINE new == Patched(articles[a], patch)
    <3>1. actor' = p /\ ~IsStaff(p) /\ articles[a].author = p.user /\ new.author = p.user
      BY <2>0, <2>2 DEF UpdateArticle, MayUpdate, IsStaff, Patched
    <3>2. \/ OwnDraft(p, a) /\ new.status \in {"DRAFT", "REVIEW"}
          \/ new = [articles[a] EXCEPT !.updatedAt = clock]
      <4>1. CASE patch.slug # None \/ patch.text # None
        <5>1. OwnDraft(p, a)
          BY <2>2, <3>1, <4>1 DEF UpdateArticle, MayUpdate
        <5>2. patch.status \in {None, articles[a].status, "DRAFT", "REVIEW"}
          BY <2>2, <3>1 DEF UpdateArticle, MayUpdate, MayMove, CanContributorTransition
        <5> QED
          BY <5>1, <5>2 DEF OwnDraft, Patched, Given
      <4>2. CASE patch.slug = None /\ patch.text = None /\ patch.status \notin {None, articles[a].status}
        <5>1. CanContributorTransition(articles[a].status, patch.status)
          BY <2>2, <3>1, <4>2 DEF UpdateArticle, MayUpdate, MayMove
        <5> QED
          BY <3>1, <5>1, ConstantsAssumption
             DEF CanContributorTransition, OwnDraft, Patched, Given
      <4>3. CASE patch.slug = None /\ patch.text = None /\ patch.status \in {None, articles[a].status}
        <5>1. articles[a] \in ArticleType
          BY <1>1 DEF TypeOK
        <5>2. PublicationDate(articles[a], patch.status) = articles[a].publishedAt
          <6>1. CASE patch.status = None
            BY <6>1, DateCases
          <6>2. CASE patch.status = articles[a].status
            BY <1>1, <6>2, <5>1, DateCases DEF DatesFollowStatus, ArticleType, Statuses
          <6> QED
            BY <4>3, <6>1, <6>2
        <5>3. Given(patch.slug, articles[a].slug) = articles[a].slug
          BY <4>3 DEF Given
        <5>4. Given(patch.text, articles[a].text) = articles[a].text
          BY <4>3 DEF Given
        <5>5. Given(patch.status, articles[a].status) = articles[a].status
          BY <4>3 DEF Given
        <5>6. new = [slug |-> articles[a].slug, text |-> articles[a].text, status |-> articles[a].status,
                     author |-> articles[a].author, publishedAt |-> articles[a].publishedAt,
                     updatedAt |-> clock]
          BY <5>2, <5>3, <5>4, <5>5 DEF Patched
        <5>7. new = [articles[a] EXCEPT !.updatedAt = clock]
          BY <5>1, <5>6 DEF ArticleType
        <5> QED
          BY <5>7
      <4> QED
        BY <4>1, <4>2, <4>3
    <3>3. articles' = [articles EXCEPT ![a] = new]
      BY <2>2 DEF UpdateArticle
    <3> HIDE DEF new
    <3>4. /\ DOMAIN articles' = DOMAIN articles /\ articles'[a] = new
          /\ \A b \in DOMAIN articles : b # a => articles'[b] = articles[b]
      BY <1>1, <3>3 DEF TypeOK
    <3>5. (OwnDraft(p, a) /\ new.status \in {"DRAFT", "REVIEW"}) \/ OnlyTouched(a)
      BY <3>2, <3>4 DEF OnlyTouched
    <3> QED
      BY <3>1, <3>4, <3>5
  <2>3. ASSUME NEW p \in Principals, NEW a \in DOMAIN articles, DeleteArticle(p, a)
        PROVE  Stays
    <3>1. actor' = p /\ ~IsStaff(p) /\ OwnDraft(p, a)
      BY <2>0, <2>3 DEF DeleteArticle, MayDelete, IsStaff
    <3> QED
      BY <2>3, <3>1 DEF DeleteArticle, OwnDraft
  <2>4. ~Tick /\ ~UNCHANGED vars
    BY DEF Tick, vars
  <2> QED
    BY <1>1, <2>1, <2>2, <2>3, <2>4 DEF Next
<1>2. TypeOK /\ DatesFollowStatus /\ [Next]_vars => [Stays]_articles
  BY <1>1
<1> QED
  BY <1>2, ArticlesTypeCorrect, DatesAgreeWithStatus, PTL DEF Spec, ContributorsStayWithDrafts

-----------------------------------------------------------------------------
(* The first publication. *)

(* A patch that leaves an article published or archived leaves its date.   *)
LEMMA PatchedKeepsDate ==
  ASSUME NEW old \in ArticleType, old.publishedAt # None, NEW patch \in Patches,
         Patched(old, patch).status \in {"PUBLISHED", "ARCHIVED"}
  PROVE  Patched(old, patch).publishedAt = old.publishedAt
<1>1. /\ Patched(old, patch).publishedAt = PublicationDate(old, patch.status)
      /\ Given(patch.status, old.status) \in {"PUBLISHED", "ARCHIVED"}
  BY DEF Patched
<1>2. patch.status \in {None, "PUBLISHED", "ARCHIVED"}
  BY <1>1 DEF Given
<1> QED
  BY <1>1, <1>2, DateCases

(* The date of the first publication stays until the article goes back to  *)
(* draft or review or is deleted, however it is archived and republished.  *)
THEOREM FirstDateStays == Spec => FirstPublicationIsKept
<1> DEFINE Kept ==
      \A a \in DOMAIN articles \cap DOMAIN articles' :
        /\ articles[a].publishedAt # None
        /\ articles'[a].status \in {"PUBLISHED", "ARCHIVED"}
        => articles'[a].publishedAt = articles[a].publishedAt
<1>1. ASSUME TypeOK, Next PROVE Kept
  <2>1. ASSUME NEW p \in Principals, NEW base \in Bases, NEW n \in 1..created + 1,
               NEW text \in Texts, NEW status \in Statuses, CreateArticle(p, base, n, text, status)
        PROVE  Kept
    <3>1. \A a \in DOMAIN articles : articles'[a] = articles[a]
      BY <1>1, <2>1 DEF CreateArticle, TypeOK
    <3> QED
      BY <3>1
  <2>2. ASSUME NEW p \in Principals, NEW a \in DOMAIN articles, NEW patch \in Patches,
               UpdateArticle(p, a, patch)
        PROVE  Kept
    <3> DEFINE new == Patched(articles[a], patch)
    <3>1. /\ articles[a].publishedAt # None /\ new.status \in {"PUBLISHED", "ARCHIVED"}
          => new.publishedAt = articles[a].publishedAt
      BY <1>1, PatchedKeepsDate DEF TypeOK
    <3> HIDE DEF new
    <3>2. articles' = [articles EXCEPT ![a] = new]
      BY <2>2 DEF UpdateArticle, new
    <3> QED
      BY <3>1, <3>2
  <2>3. ASSUME NEW p \in Principals, NEW a \in DOMAIN articles, DeleteArticle(p, a) PROVE Kept
    BY <2>3 DEF DeleteArticle
  <2>4. CASE Tick
    BY <2>4 DEF Tick
  <2> QED
    BY <1>1, <2>1, <2>2, <2>3, <2>4 DEF Next
<1>2. TypeOK /\ [Next]_vars => [Kept]_vars
  BY <1>1
<1> QED
  BY <1>2, ArticlesTypeCorrect, PTL DEF Spec, FirstPublicationIsKept
=============================================================================
