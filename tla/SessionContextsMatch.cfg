\* Sessions whose inputs begin as the tokens past their step do.
CONSTANTS
  h1 = h1
  h2 = h2
  h3 = h3
  t1 = t1
  t2 = t2
  Handler = {h1, h2, h3}
  Token = {t1, t2}
  MaxTokens = 2
  Inputs = {1, 2}
  Uses = {"match"}
  Nobody = Nobody
  Nothing = Nothing
SPECIFICATION Spec
INVARIANT SessionsArePrivate
SYMMETRY Symmetry
