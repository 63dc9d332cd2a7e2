------------------------------ MODULE Articles ------------------------------
(***************************************************************************)
(* The article lifecycle: modules/articles.                                *)
(*                                                                         *)
(* Articles are found by slug, are edited by their contributor while in    *)
(* draft or review, and are published and archived by the staff.  Every    *)
(* handler runs to its end without an await and is one step; the role of a *)
(* principal is what the session held when the request came in, so one     *)
(* user may act in different roles at different times.                     *)
(*                                                                         *)
(* Title, content, excerpt and cover are one text.  A slug is a base and a *)
(* number: <<b, 1>> is the plain slug of a title, <<b, n>> the one with    *)
(* the suffix -n; a title that ends in a number is not one of the bases,   *)
(* but requests ask for numbered slugs.  Requests that the parsing refuses *)
(* change nothing and are left out.                                        *)
(*                                                                         *)
(* A definition called Mutant... is a faulty variant of the one after it;  *)
(* no specification uses it, the mutation checks put it in its place.      *)
(***************************************************************************)
EXTENDS Integers, FiniteSets

CONSTANTS
  Users,
  Roles,        \* the roles that occur, of the five of UserRole
  Bases, Texts,
  None,         \* null or a field the request leaves out
  MaxSuffix,    \* bound: the largest number in a slug a request asks for
  MaxArticles,  \* bound: articles ever created
  MaxClock      \* bound: the last instant the clock reaches

ASSUME ConstantsAssumption ==
  /\ Roles \subseteq {"OWNER", "ADMIN", "EDITOR", "CONTRIBUTOR", "USER"}
  /\ None \notin Texts /\ None \notin Nat
  /\ None \notin {"DRAFT", "REVIEW", "PUBLISHED", "ARCHIVED"} /\ None \notin Bases \X Nat
  /\ MaxSuffix \in Nat /\ MaxArticles \in Nat /\ MaxClock \in Nat

VARIABLES
  articles,  \* store.articles, by id
  created,   \* the number of ids createId has given out
  clock,     \* Date.now()
  actor      \* history: the principal of the last request that changed something

vars == <<articles, created, clock, actor>>

Statuses == {"DRAFT", "REVIEW", "PUBLISHED", "ARCHIVED"}
Slugs == Bases \X (Nat \ {0})
Principals == [user : Users, role : Roles]

ArticleType ==
  [slug : Slugs, text : Texts, status : Statuses, author : Users,
   publishedAt : Nat \cup {None}, updatedAt : Nat]

-----------------------------------------------------------------------------
(* Who may do what. *)

IsStaff(p) == p.role \in {"OWNER", "ADMIN", "EDITOR"}
IsEditorial(p) == IsStaff(p) \/ p.role = "CONTRIBUTOR"

ArticleStatusTransitions ==
  [DRAFT     |-> {"REVIEW", "ARCHIVED"},
   REVIEW    |-> {"DRAFT", "PUBLISHED", "ARCHIVED"},
   PUBLISHED |-> {"ARCHIVED"},
   ARCHIVED  |-> {"DRAFT", "REVIEW", "PUBLISHED"}]

CanContributorTransition(from, to) == <<from, to>> \in {<<"DRAFT", "REVIEW">>, <<"REVIEW", "DRAFT">>}

OwnDraft(p, a) == articles[a].author = p.user /\ articles[a].status \in {"DRAFT", "REVIEW"}

(* A request that names the status the article has is no transition.       *)
MutantMayMove(p, a, to) ==
  \/ to \in {None, articles[a].status}
  \/ to \in ArticleStatusTransitions[articles[a].status]
MayMove(p, a, to) ==
  \/ to \in {None, articles[a].status}
  \/ IsStaff(p) /\ to \in ArticleStatusTransitions[articles[a].status]
  \/ ~IsStaff(p) /\ CanContributorTransition(articles[a].status, to)

(* Staff, and contributors with an article of their own: those may name    *)
(* the status it has in any status, and edit only drafts and reviews.      *)
MayUpdate(p, a, patch) ==
  /\ IsStaff(p) \/ (p.role = "CONTRIBUTOR" /\ articles[a].author = p.user)
  /\ MayMove(p, a, patch.status)
  /\ (patch.slug # None \/ patch.text # None) => (IsStaff(p) \/ OwnDraft(p, a))

MayDelete(p, a) == IsStaff(p) \/ (p.role = "CONTRIBUTOR" /\ OwnDraft(p, a))

-----------------------------------------------------------------------------
(* Slugs. *)

BySlug(slug) == {a \in DOMAIN articles : articles[a].slug = slug}

(* The first of base, base-2, base-3... that no article has.               *)
MutantIsNextSlug(base, n) ==
  n = Cardinality({a \in DOMAIN articles : articles[a].slug[1] = base}) + 1
IsNextSlug(base, n) ==
  BySlug(<<base, n>>) = {} /\ \A k \in 1..n - 1 : BySlug(<<base, k>>) # {}

(* A slug may be asked for if it is the one the article has or is free.    *)
SlugAllowed(a, slug) == slug \in {None, articles[a].slug} \/ BySlug(slug) = {}

-----------------------------------------------------------------------------
(* Operations. *)

CreateArticle(p, base, n, text, status) ==
  /\ IsEditorial(p)
  /\ p.role = "CONTRIBUTOR" => status \notin {"PUBLISHED", "ARCHIVED"}
  /\ IsNextSlug(base, n)
  /\ created < MaxArticles
  /\ created' = created + 1
  /\ articles' = [a \in DOMAIN articles \cup {created + 1} |->
       IF a = created + 1
       THEN [slug |-> <<base, n>>, text |-> text, status |-> status, author |-> p.user,
             publishedAt |-> IF status = "PUBLISHED" THEN clock ELSE None, updatedAt |-> clock]
       ELSE articles[a]]
  /\ actor' = p
  /\ UNCHANGED clock

(* The date of the first publication stays through archiving and           *)
(* republishing and is given up with the return to draft or review.        *)
MutantRedated(old, to) ==
  CASE to = "PUBLISHED" -> clock
    [] to \in {None, "ARCHIVED"} -> old.publishedAt
    [] to \in {"DRAFT", "REVIEW"} -> None
MutantUndated(old, to) ==
  IF to = "PUBLISHED" /\ old.publishedAt = None THEN clock ELSE old.publishedAt
PublicationDate(old, to) ==
  CASE to = "PUBLISHED" -> IF old.publishedAt = None THEN clock ELSE old.publishedAt
    [] to \in {None, "ARCHIVED"} -> old.publishedAt
    [] to \in {"DRAFT", "REVIEW"} -> None

Given(new, old) == IF new = None THEN old ELSE new

(* Every accepted patch dates the article anew, also one that changes no   *)
(* other field.                                                            *)
Patched(old, patch) ==
  [slug |-> Given(patch.slug, old.slug), text |-> Given(patch.text, old.text),
   status |-> Given(patch.status, old.status), author |-> old.author,
   publishedAt |-> PublicationDate(old, patch.status), updatedAt |-> clock]

UpdateArticle(p, a, patch) ==
  /\ MayUpdate(p, a, patch)
  /\ SlugAllowed(a, patch.slug)
  /\ \E field \in DOMAIN patch : patch[field] # None
  /\ articles' = [articles EXCEPT ![a] = Patched(articles[a], patch)]
  /\ actor' = p
  /\ UNCHANGED <<created, clock>>

DeleteArticle(p, a) ==
  /\ MayDelete(p, a)
  /\ articles' = [b \in DOMAIN articles \ {a} |-> articles[b]]
  /\ actor' = p
  /\ UNCHANGED <<created, clock>>

Tick ==
  /\ clock < MaxClock
  /\ clock' = clock + 1
  /\ UNCHANGED <<articles, created, actor>>

Init == articles = [a \in {} |-> None] /\ created = 0 /\ clock = 0 /\ actor = None

Patches ==
  [slug : (Bases \X (1..MaxSuffix)) \cup {None}, text : Texts \cup {None}, status : Statuses \cup {None}]

Next ==
  \/ \E p \in Principals, base \in Bases, n \in 1..created + 1, text \in Texts, status \in Statuses :
       CreateArticle(p, base, n, text, status)
  \/ \E p \in Principals, a \in DOMAIN articles, patch \in Patches : UpdateArticle(p, a, patch)
  \/ \E p \in Principals, a \in DOMAIN articles : DeleteArticle(p, a)
  \/ Tick

Spec == Init /\ [][Next]_vars

-----------------------------------------------------------------------------
(* Properties. *)

(* Articles are well formed, and their ids were given out.                 *)
TypeOK ==
  /\ created \in Nat /\ clock \in Nat /\ actor \in Principals \cup {None}
  /\ DOMAIN articles \subseteq 1..created
  /\ articles \in [DOMAIN articles -> ArticleType]

(* No two articles share a slug, whatever is created, renamed and deleted  *)
(* in between: the slug is how every request finds its article.            *)
SlugsAreUnique ==
  \A a, b \in DOMAIN articles : articles[a].slug = articles[b].slug => a = b

(* The public sees a date on every published article, and no date is left  *)
(* over from an earlier publication on a draft.                            *)
DatesFollowStatus ==
  \A a \in DOMAIN articles :
    /\ articles[a].status = "PUBLISHED" => articles[a].publishedAt # None
    /\ articles[a].status \in {"DRAFT", "REVIEW"} => articles[a].publishedAt = None

(* An article that stays published or archived keeps the date of its first *)
(* publication, however often it is archived, republished and edited.      *)
FirstPublicationIsKept ==
  [][\A a \in DOMAIN articles \cap DOMAIN articles' :
       /\ articles[a].publishedAt # None
       /\ articles'[a].status \in {"PUBLISHED", "ARCHIVED"}
       => articles'[a].publishedAt = articles[a].publishedAt]_vars

(* An article that a step did no more than date anew.                      *)
OnlyTouched(a) ==
  a \in DOMAIN articles \cap DOMAIN articles' /\ articles'[a] = [articles[a] EXCEPT !.updatedAt = clock]

(* What contributors do reaches only articles of their own, changes and    *)
(* removes only drafts and reviews and leaves drafts and reviews: nothing  *)
(* becomes public or is archived without the staff, and of what is public  *)
(* or archived only updatedAt moves, when a request of its author names    *)
(* the status that the article has.                                        *)
ContributorsStayWithDrafts ==
  [][actor' \in [user : Users, role : {"CONTRIBUTOR"}] =>
       /\ \A a \in DOMAIN articles :
            a \notin DOMAIN articles' \/ articles'[a] # articles[a] =>
              articles[a].author = actor'.user /\ (OwnDraft(actor', a) \/ OnlyTouched(a))
       /\ \A a \in DOMAIN articles' :
            a \notin DOMAIN articles \/ articles'[a] # articles[a] =>
              /\ articles'[a].author = actor'.user
              /\ articles'[a].status \in {"DRAFT", "REVIEW"} \/ OnlyTouched(a)]_articles
=============================================================================
