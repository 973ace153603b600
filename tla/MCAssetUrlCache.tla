-------------------------- MODULE MCAssetUrlCache ---------------------------
(* Small instances of AssetUrlCache for TLC. *)
EXTENDS AssetUrlCache

CONSTANTS a1, a2, t1, t2

Ok(a, e) == [asset |-> a, status |-> "ok", ready |-> TRUE, expiries |-> e]
Gone(a) == [asset |-> a, status |-> "not_found", ready |-> FALSE, expiries |-> {}]

\* Lifetimes within and beyond the margin, two of them on one result, a
\* tokenless result and one that is gone.
SmallResults ==
    {Ok(a1, {1}), Ok(a1, {2, 3}), Ok(a1, {3}), Gone(a1), Ok(a2, {3}), Ok(a2, {})}

\* Single puts, and batches that fill the cache and name one asset twice.
SmallBatches ==
    {<<Ok(a1, {2, 3})>>, <<Gone(a1)>>, <<Ok(a2, {})>>,
     <<Ok(a1, {3}), Ok(a1, {1})>>,
     <<Ok(a1, {2, 3}), Ok(a2, {3}), Ok(a1, {3})>>}

SmallIdLists == {<<a1>>, <<a2, a1, a2>>}
=============================================================================
