SPECIFICATION Spec
INVARIANT SiteFindsItsData
