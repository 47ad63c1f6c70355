SPECIFICATION Spec
CONSTANTS
  c1 = c1  b1 = b1  b2 = b2
  Clientes = {c1}
  Buscas = {b1, b2}
  Cap = 1
  MaxEscritas = 2
  Falhas = {}
INVARIANT MantemAtualizado
CHECK_DEADLOCK FALSE
